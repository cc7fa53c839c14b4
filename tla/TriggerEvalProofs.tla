------------------------- MODULE TriggerEvalProofs -------------------------
(***************************************************************************)
(* Theorems about TriggerEval, for any eval set, any number of runs and    *)
(* of workers, and whatever the agents write.                              *)
(***************************************************************************)
EXTENDS TriggerEval, FiniteSetTheorems, SequenceTheorems, WellFoundedInduction, TLAPS

Stages == LiveStages \cup {"none", "exited"}
PoolPcs == {"queued", "done", "collected"} \cup WorkPcs

\* What the clean-up needs to know of the types.
ShapeOK ==
    /\ pc \in [Runs -> PoolPcs]
    /\ DOMAIN agent = Runs
    /\ \A r \in Runs : /\ DOMAIN agent[r] = {"stage", "partial", "calls", "left"}
                       /\ agent[r].stage \in Stages

\* An agent lives only while its run reads it or is about to kill it, and
\* meanwhile, and from the moment it is written, the copy is there.
CopiesKept ==
    \A r \in Runs :
        /\ Live(r) => pc[r] \in {"poll", "select", "kill"}
        /\ pc[r] \in {"spawn", "poll", "select", "kill"} => r \in files
        /\ pc[r] \in {"queued", "write", "done", "collected"} => r \notin files

CleanInv == ShapeOK /\ CopiesKept

LEMMA CleanInit == Init => CleanInv
BY DEF Init, CleanInv, ShapeOK, CopiesKept, PoolPcs, WorkPcs, Stages, LiveStages,
       Live, NoAgent

\* What an agent does is its own affair.
AgentMoved(r) ==
    /\ DOMAIN agent' = Runs
    /\ DOMAIN agent'[r] = {"stage", "partial", "calls", "left"}
    /\ agent'[r].stage \in Stages
    /\ \A q \in Runs \ {r} : agent'[q] = agent[q]

LEMMA AgentMoves ==
    ASSUME ShapeOK, NEW r \in Runs, AgentStep(r)
    PROVE  AgentMoved(r)
<1> USE DEF ShapeOK, AgentMoved, EnterStage, Stages, LiveStages
<1>1. CASE Boot(r)
  BY <1>1 DEF Boot
<1>2. CASE Talk(r) \/ EndTalk(r)
  BY <1>2 DEF Talk, EndTalk
<1>3. ASSUME NEW c \in Call, MakeCall(r, c) PROVE AgentMoved(r)
  BY <1>3 DEF MakeCall
<1>4. CASE Input(r)
  BY <1>4 DEF Input
<1>5. CASE EndMessage(r) \/ Say(r) \/ GiveResult(r) \/ Exit(r)
  BY <1>5 DEF EndMessage, Say, GiveResult, Exit
<1> QED
  BY <1>1, <1>2, <1>3, <1>4, <1>5 DEF AgentStep

\* Every step keeps CleanInv: the steps of a run leave the other runs alone.
LEMMA CleanStep ==
    ASSUME CleanInv, [Next]_vars
    PROVE  CleanInv'
<1> USE DEF CleanInv
<1>1. CASE UNCHANGED vars
  BY <1>1 DEF vars, ShapeOK, CopiesKept, Live
<1>2. CASE Report
  BY <1>2 DEF Report, ShapeOK, CopiesKept, Live
<1>3. ASSUME NEW r \in Runs, Take(r) PROVE CleanInv'
  BY <1>3 DEF Take, ShapeOK, CopiesKept, Live, At, Goto, PoolPcs, WorkPcs
<1>4. ASSUME NEW r \in Runs, WriteCopy(r) PROVE CleanInv'
  BY <1>4 DEF WriteCopy, GoOn, Leave, ShapeOK, CopiesKept, Live, At, Goto,
              PoolPcs, WorkPcs
<1>5. ASSUME NEW r \in Runs, Spawn(r) PROVE CleanInv'
  BY <1>5 DEF Spawn, GoOn, Leave, EnterStage, ShapeOK, CopiesKept, Live, At, Goto,
              PoolPcs, WorkPcs, Stages, LiveStages
<1>6. ASSUME NEW r \in Runs, TimeOut(r) \/ Raise(r) PROVE CleanInv'
  BY <1>6 DEF TimeOut, Raise, Leave, ShapeOK, CopiesKept, Live, At, Goto, PoolPcs, WorkPcs
<1>7. ASSUME NEW r \in Runs, Poll(r) PROVE CleanInv'
  BY <1>7 DEF Poll, GoOn, Leave, ShapeOK, CopiesKept, Live, At, Goto, PoolPcs, WorkPcs
<1>8. ASSUME NEW r \in Runs, Select(r) PROVE CleanInv'
  <2>1. UNCHANGED <<files, agent>> /\ At(r, "select")
    BY <1>8 DEF Select
  <2>2. Goto(r, "poll") \/ Goto(r, "kill")
    BY <1>8 DEF Select, GoOn, Leave
  <2> QED
    BY <2>1, <2>2 DEF ShapeOK, CopiesKept, Live, At, Goto, PoolPcs, WorkPcs
<1>9. ASSUME NEW r \in Runs, Kill(r) PROVE CleanInv'
  BY <1>9 DEF Kill, EnterStage, ShapeOK, CopiesKept, Live, At, Goto, PoolPcs, WorkPcs,
              Stages, LiveStages
<1>10. ASSUME NEW r \in Runs, Unlink(r) PROVE CleanInv'
  BY <1>10 DEF Unlink, NoAgent, ShapeOK, CopiesKept, Live, At, Goto, PoolPcs, WorkPcs,
              Stages, LiveStages
<1>11. ASSUME NEW r \in Runs, Collect(r) PROVE CleanInv'
  BY <1>11 DEF Collect, ShapeOK, CopiesKept, Live, At, Goto, PoolPcs, WorkPcs
<1>12. ASSUME NEW r \in Runs, AgentStep(r) PROVE CleanInv'
  <2>1. UNCHANGED <<pc, files>> /\ pc[r] \in {"poll", "select"}
    BY <1>12 DEF AgentStep
  <2>2. AgentMoved(r)
    BY <1>12, AgentMoves
  <2> QED
    BY <2>1, <2>2 DEF AgentMoved, ShapeOK, CopiesKept, Live
<1> QED
  BY <1>1, <1>2, <1>3, <1>4, <1>5, <1>6, <1>7, <1>8, <1>9, <1>10, <1>11, <1>12
  DEF Next, Work

(***************************************************************************)
(* On every path a run leaves neither its copy nor its agent behind, and   *)
(* its copy is there for as long as its agent lives.                       *)
(***************************************************************************)
THEOREM CleanedUp == Spec => []CopyOutlivesAgent
<1>1. CleanInv => CopyOutlivesAgent
  BY DEF CleanInv, CopiesKept, CopyOutlivesAgent
<1> QED
  BY <1>1, CleanInit, CleanStep, PTL DEF Spec

-----------------------------------------------------------------------------
(***************************************************************************)
(* Counting.                                                               *)
(***************************************************************************)
Counted(q) == {i \in 1 .. RunsPerQuery : pc[<<q, i>>] = "collected"}
CountedYes(q) == {i \in Counted(q) : answer[<<q, i>>].is = "yes"}

TallyOK ==
    /\ tally \in [Queries -> [runs : Nat, yes : Nat]]
    /\ \A q \in Queries : /\ tally[q].runs = Cardinality(Counted(q))
                          /\ tally[q].yes = Cardinality(CountedYes(q))

ReportOK ==
    report.known => /\ \A r \in Runs : pc[r] = "collected"
                    /\ report.passed = {q \in Queries : Passes(q)}

CountInv ==
    /\ pc \in [Runs -> PoolPcs]
    /\ DOMAIN answer = Runs
    /\ TallyOK
    /\ ReportOK

LEMMA CountedFinite ==
    \A q : /\ IsFiniteSet(Counted(q)) /\ IsFiniteSet(CountedYes(q))
           /\ Cardinality(Counted(q)) \in Nat /\ Cardinality(CountedYes(q)) \in Nat
<1>1. IsFiniteSet(1 .. RunsPerQuery)
  BY NumbersAssumption, FS_Interval
<1> QED
  BY <1>1, FS_Subset, FS_CardinalityType DEF Counted, CountedYes

LEMMA CountInit == Init => CountInv
<1> SUFFICES ASSUME Init PROVE CountInv
  OBVIOUS
<1>1. \A q \in Queries : Counted(q) = {} /\ CountedYes(q) = {}
  BY DEF Init, Counted, CountedYes, Runs
<1> QED
  BY <1>1, FS_EmptySet DEF Init, CountInv, TallyOK, ReportOK, PoolPcs

\* A step of r before the main process takes its answer.
Quiet(r) ==
    /\ pc' \in [Runs -> PoolPcs] /\ DOMAIN answer' = Runs
    /\ pc[r] # "collected" /\ pc'[r] # "collected"
    /\ \A s \in Runs \ {r} : pc'[s] = pc[s] /\ answer'[s] = answer[s]
    /\ UNCHANGED results

LEMMA QuietStep ==
    ASSUME CountInv, NEW r \in Runs, Quiet(r)
    PROVE  CountInv'
<1>1. ASSUME NEW q \in Queries
      PROVE  Counted(q)' = Counted(q) /\ CountedYes(q)' = CountedYes(q)
  BY DEF Quiet, Counted, CountedYes, Runs
<1>2. TallyOK'
  BY <1>1 DEF CountInv, TallyOK, Quiet, results
<1>3. ReportOK'
  BY DEF CountInv, ReportOK, Quiet, results
<1> QED
  BY <1>2, <1>3 DEF CountInv, Quiet

LEMMA QuietSteps ==
    ASSUME CountInv, NEW r \in Runs,
           Take(r) \/ Work(r) \/ TimeOut(r) \/ Raise(r) \/ AgentStep(r)
    PROVE  Quiet(r)
<1> USE DEF CountInv, Quiet, At, Goto, GoOn, Leave, PoolPcs, WorkPcs
<1>1. CASE Take(r)
  BY <1>1 DEF Take
<1>2. CASE WriteCopy(r) \/ Spawn(r)
  BY <1>2 DEF WriteCopy, Spawn
<1>3. CASE TimeOut(r) \/ Raise(r) \/ Poll(r)
  BY <1>3 DEF TimeOut, Raise, Poll
<1>4. CASE Select(r)
  <2>1. /\ At(r, "select") /\ UNCHANGED results
        /\ Goto(r, "poll") \/ Goto(r, "kill")
        /\ UNCHANGED answer \/ \E v : answer' = [answer EXCEPT ![r] = v]
    BY <1>4 DEF Select
  <2> QED
    BY <2>1
<1>5. CASE Kill(r) \/ Unlink(r)
  BY <1>5 DEF Kill, Unlink
<1>6. CASE AgentStep(r)
  BY <1>6 DEF AgentStep
<1> QED
  BY <1>1, <1>2, <1>3, <1>4, <1>5, <1>6 DEF Work

LEMMA CollectStep ==
    ASSUME CountInv, NEW r \in Runs, Collect(r)
    PROVE  CountInv'
<1>1. PICK p \in Queries, j \in 1 .. RunsPerQuery : r = <<p, j>>
  BY DEF Runs
<1>2. /\ pc[r] = "done" /\ pc' = [pc EXCEPT ![r] = "collected"]
      /\ UNCHANGED <<answer, report>>
  BY DEF Collect, At, Goto
<1>3. /\ j \notin Counted(p) /\ j \notin CountedYes(p)
      /\ Counted(p)' = Counted(p) \cup {j}
      /\ CountedYes(p)' = IF answer[r].is = "yes" THEN CountedYes(p) \cup {j}
                          ELSE CountedYes(p)
  BY <1>1, <1>2 DEF CountInv, Counted, CountedYes, Runs
<1>4. \A q \in Queries \ {p} : Counted(q)' = Counted(q) /\ CountedYes(q)' = CountedYes(q)
  BY <1>1, <1>2 DEF CountInv, Counted, CountedYes, Runs
<1>5. /\ Cardinality(Counted(p) \cup {j}) = Cardinality(Counted(p)) + 1
      /\ Cardinality(CountedYes(p) \cup {j}) = Cardinality(CountedYes(p)) + 1
  BY <1>3, CountedFinite, FS_AddElement
<1>6. /\ tally' \in [Queries -> [runs : Nat, yes : Nat]]
      /\ tally'[p].runs = tally[p].runs + 1
      /\ tally'[p].yes = IF answer[r].is = "yes" THEN tally[p].yes + 1 ELSE tally[p].yes
      /\ \A q \in Queries \ {p} : tally'[q] = tally[q]
  <2> DEFINE one == IF answer[r].is = "yes" THEN 1 ELSE 0
  <2>1. tally' = [tally EXCEPT ![p] =
                    [runs |-> tally[p].runs + 1, yes |-> tally[p].yes + one]]
    BY <1>1 DEF Collect
  <2>2. one \in Nat
    OBVIOUS
  <2> HIDE DEF one
  <2>3. /\ tally' \in [Queries -> [runs : Nat, yes : Nat]]
        /\ tally'[p].runs = tally[p].runs + 1
        /\ tally'[p].yes = tally[p].yes + one
        /\ \A q \in Queries \ {p} : tally'[q] = tally[q]
    BY <2>1, <2>2 DEF CountInv, TallyOK
  <2> QED
    BY <2>3 DEF one, CountInv, TallyOK
<1>7. TallyOK'
  <2>1. ASSUME NEW q \in Queries
        PROVE  /\ tally'[q].runs = Cardinality(Counted(q)')
               /\ tally'[q].yes = Cardinality(CountedYes(q)')
    BY <1>3, <1>4, <1>5, <1>6 DEF CountInv, TallyOK
  <2> QED
    BY <1>6, <2>1 DEF TallyOK
<1>8. ReportOK'
  BY <1>2 DEF CountInv, ReportOK
<1> QED
  BY <1>2, <1>7, <1>8 DEF CountInv, PoolPcs

LEMMA CountStep ==
    ASSUME CountInv, [Next]_vars
    PROVE  CountInv'
<1>1. CASE UNCHANGED vars
  BY <1>1 DEF vars, CountInv, TallyOK, ReportOK, Counted, CountedYes, Passes, Reached
<1>2. CASE Report
  BY <1>2 DEF Report, CountInv, TallyOK, ReportOK, Counted, CountedYes, Passes, Reached,
              At
<1>3. ASSUME NEW r \in Runs, Collect(r) PROVE CountInv'
  BY <1>3, CollectStep
<1>4. ASSUME NEW r \in Runs, Take(r) \/ Work(r) \/ TimeOut(r) \/ Raise(r) \/ AgentStep(r)
      PROVE  CountInv'
  BY <1>4, QuietSteps, QuietStep
<1> QED
  BY <1>1, <1>2, <1>3, <1>4 DEF Next

LEMMA CountIsReport == CountInv => ReportIsRight
<1> SUFFICES ASSUME CountInv, report.known, NEW q \in Queries
             PROVE  (q \in report.passed) <=>
                      ((q \in ShouldTrigger) <=>
                        Cardinality(Yes(q)) * ThresholdDen >= ThresholdNum * RunsPerQuery)
  BY DEF ReportIsRight
<1>1. Counted(q) = 1 .. RunsPerQuery /\ CountedYes(q) = Yes(q)
  BY DEF CountInv, ReportOK, Counted, CountedYes, Yes, Runs
<1>2. Cardinality(1 .. RunsPerQuery) = RunsPerQuery
  BY NumbersAssumption, FS_Interval
<1> QED
  BY <1>1, <1>2 DEF CountInv, ReportOK, TallyOK, Passes, Reached

(***************************************************************************)
(* The report is computed from the answers of all the runs, each counted   *)
(* once, a failed one as a no, in whatever order the runs end.             *)
(***************************************************************************)
THEOREM ReportsAreRight == Spec => []ReportIsRight
BY CountInit, CountStep, CountIsReport, PTL DEF Spec

-----------------------------------------------------------------------------
(***************************************************************************)
(* Reading.  OnEvents is a recursive function over the events; what it     *)
(* computes is shown with an induction over sets of numbers.               *)
(***************************************************************************)
LEMMA Induction ==
    ASSUME NEW S \in SUBSET Nat, 0 \in S, \A n \in S : n + 1 \in S
    PROVE  S = Nat
<1> SUFFICES ASSUME Nat \ S # {} PROVE FALSE
  OBVIOUS
<1>1. PICK x \in Nat \ S : \A y \in Nat \ S : ~(<<y, x>> \in OpToRel(<, Nat))
  BY NatLessThanWellFounded, WFMin
<1>2. \A y \in Nat \ S : ~(y < x)
  BY <1>1, Zenon DEF OpToRel
<1>3. x \in Nat /\ x \notin S /\ x # 0
  BY <1>1
<1>4. x - 1 \in Nat /\ x - 1 < x /\ (x - 1) + 1 = x
  BY <1>3
<1>5. x - 1 \in S
  BY <1>2, <1>4
<1>6. (x - 1) + 1 \in S
  BY <1>5
<1> QED
  BY <1>3, <1>4, <1>6

\* f is what the reader of run r holds after 0, 1, ... n events, from st on.
Reading(f, r, st, events, n) ==
    f = [i \in 0 .. n |-> IF i = 0 THEN st ELSE OnEvent(r, f[i - 1], events[i])]

LEMMA ReadingExists ==
    ASSUME NEW r, NEW st, NEW events, NEW n \in Nat
    PROVE  \E f : Reading(f, r, st, events, n)
<1> DEFINE S == {m \in Nat : \E f : Reading(f, r, st, events, m)}
<1>1. 0 \in S
  <2> DEFINE f == [i \in 0 .. 0 |-> st]
  <2>1. Reading(f, r, st, events, 0)
    BY DEF Reading
  <2> QED
    BY <2>1
<1>2. ASSUME NEW m \in S PROVE m + 1 \in S
  <2>1. PICK f : Reading(f, r, st, events, m)
    OBVIOUS
  <2> DEFINE last == OnEvent(r, f[m], events[m + 1])
             g == [i \in 0 .. m + 1 |-> IF i = m + 1 THEN last ELSE f[i]]
  <2>2. ASSUME NEW i \in 0 .. m + 1
        PROVE  g[i] = IF i = 0 THEN st ELSE OnEvent(r, g[i - 1], events[i])
    <3>1. CASE i = m + 1
      <4>1. g[i] = last /\ g[i - 1] = f[m]
        BY <3>1
      <4> QED
        BY <3>1, <4>1
    <3>2. CASE i \in 0 .. m
      <4>1. g[i] = f[i] /\ (i # 0 => g[i - 1] = f[i - 1])
        BY <3>2
      <4>2. f[i] = IF i = 0 THEN st ELSE OnEvent(r, f[i - 1], events[i])
        <5> HIDE DEF g
        <5> QED
          BY <2>1, <3>2 DEF Reading
      <4> HIDE DEF g
      <4> QED
        BY <4>1, <4>2
    <3> QED
      BY <3>1, <3>2
  <2>3. Reading(g, r, st, events, m + 1)
    <3>1. g = [i \in 0 .. m + 1 |-> g[i]]
      OBVIOUS
    <3> HIDE DEF g
    <3> QED
      BY <2>2, <3>1 DEF Reading
  <2> QED
    BY <2>3
<1>3. S = Nat
  <2>1. \A m \in S : m + 1 \in S
    BY <1>2
  <2> HIDE DEF S
  <2>2. S \in SUBSET Nat
    BY DEF S
  <2> QED
    BY <1>1, <2>1, <2>2, Induction
<1> QED
  BY <1>3

LEMMA OnEventsReads ==
    ASSUME NEW r, NEW st, NEW events, Len(events) \in Nat
    PROVE  \E f : /\ Reading(f, r, st, events, Len(events))
                  /\ OnEvents(r, st, events) = f[Len(events)]
<1> DEFINE read == CHOOSE f : Reading(f, r, st, events, Len(events))
<1>1. Reading(read, r, st, events, Len(events))
  BY ReadingExists
<1>2. OnEvents(r, st, events) = read[Len(events)]
  BY Zenon DEF OnEvents, Reading
<1> QED
  BY <1>1, <1>2

\* From event k on, a reader goes on like one that starts there.
GoesOn(f, r, k, t) == OnEvents(r, f[k], t) = f[k + Len(t)]
LEMMA ReadingsAgree ==
    ASSUME NEW r, NEW st, NEW s, NEW t, NEW k \in Nat, NEW f,
           Len(s) \in Nat, Len(t) \in Nat, k + Len(t) <= Len(s),
           Reading(f, r, st, s, Len(s)), \A i \in 1 .. Len(t) : t[i] = s[k + i]
    PROVE  GoesOn(f, r, k, t)
<1>0. PICK g : Reading(g, r, f[k], t, Len(t)) /\ OnEvents(r, f[k], t) = g[Len(t)]
  BY OnEventsReads
<1> DEFINE S == {i \in Nat : i <= Len(t) => g[i] = f[k + i]}
<1>1. 0 \in S
  BY <1>0 DEF Reading
<1>2. ASSUME NEW i \in S PROVE i + 1 \in S
  <2> SUFFICES ASSUME i + 1 <= Len(t) PROVE g[i + 1] = f[k + (i + 1)]
    OBVIOUS
  <2>1. g[i] = f[k + i]
    OBVIOUS
  <2>2. g[i + 1] = OnEvent(r, g[i], t[i + 1])
    <3>1. i + 1 \in 0 .. Len(t) /\ i + 1 # 0 /\ (i + 1) - 1 = i
      OBVIOUS
    <3> QED
      BY <1>0, <3>1 DEF Reading
  <2>3. f[k + (i + 1)] = OnEvent(r, f[k + i], s[k + (i + 1)])
    <3>1. /\ k + (i + 1) \in 0 .. Len(s) /\ k + (i + 1) # 0
          /\ (k + (i + 1)) - 1 = k + i
      OBVIOUS
    <3> QED
      BY <3>1 DEF Reading
  <2>4. t[i + 1] = s[k + (i + 1)]
    OBVIOUS
  <2> QED
    BY <2>1, <2>2, <2>3, <2>4
<1>3. S = Nat
  <2>1. \A i \in S : i + 1 \in S
    BY <1>2
  <2> HIDE DEF S
  <2>2. S \in SUBSET Nat
    BY DEF S
  <2> QED
    BY <1>1, <2>1, <2>2, Induction
<1> QED
  BY <1>0, <1>3 DEF GoesOn

\* What every event keeps, all of them keep.
LEMMA OnEventsKeeps ==
    ASSUME NEW r, NEW Q, NEW st \in Q, NEW events, Len(events) \in Nat,
           \A q \in Q : \A i \in 1 .. Len(events) : OnEvent(r, q, events[i]) \in Q
    PROVE  OnEvents(r, st, events) \in Q
<1>1. PICK f : /\ Reading(f, r, st, events, Len(events))
               /\ OnEvents(r, st, events) = f[Len(events)]
  BY OnEventsReads
<1> DEFINE S == {n \in Nat : n <= Len(events) => f[n] \in Q}
<1>2. 0 \in S
  BY <1>1 DEF Reading
<1>3. ASSUME NEW n \in S PROVE n + 1 \in S
  <2> SUFFICES ASSUME n + 1 <= Len(events) PROVE f[n + 1] \in Q
    OBVIOUS
  <2>1. f[n] \in Q /\ n + 1 \in 1 .. Len(events)
    OBVIOUS
  <2>2. n + 1 \in 0 .. Len(events) /\ n + 1 # 0 /\ (n + 1) - 1 = n
    OBVIOUS
  <2>3. f[n + 1] = OnEvent(r, f[n], events[n + 1])
    BY <1>1, <2>2 DEF Reading
  <2> QED
    BY <2>1, <2>3
<1>4. S = Nat
  <2>1. \A n \in S : n + 1 \in S
    BY <1>3
  <2> HIDE DEF S
  <2>2. S \in SUBSET Nat
    BY DEF S
  <2> QED
    BY <1>2, <2>1, <2>2, Induction
<1> QED
  BY <1>1, <1>4

LEMMA OnEventsDecided ==
    ASSUME NEW r, NEW st, st.returns # "none", NEW events, Len(events) \in Nat
    PROVE  OnEvents(r, st, events) = st
<1>1. \A e : OnEvent(r, st, e) = st
  BY Zenon DEF OnEvent
<1>2. OnEvents(r, st, events) \in {st}
  <2>1. \A q \in {st} : \A i \in 1 .. Len(events) : OnEvent(r, q, events[i]) \in {st}
    BY <1>1, Zenon
  <2> QED
    BY <2>1, OnEventsKeeps, Zenon
<1> QED
  BY <1>2

LEMMA OnEventsNone ==
    ASSUME NEW r, NEW st
    PROVE  OnEvents(r, st, <<>>) = st
<1>1. PICK f : Reading(f, r, st, <<>>, 0) /\ OnEvents(r, st, <<>>) = f[0]
  BY OnEventsReads
<1> QED
  BY <1>1 DEF Reading

\* The events before the last one, and the last one.
LEMMA OnEventsAppend ==
    ASSUME NEW r, NEW st, NEW T, NEW s \in Seq(T), NEW e \in T
    PROVE  OnEvents(r, st, Append(s, e)) = OnEvent(r, OnEvents(r, st, s), e)
<1> DEFINE t == Append(s, e)
<1>1. /\ Len(s) \in Nat /\ Len(t) \in Nat /\ Len(t) = Len(s) + 1
      /\ t[Len(s) + 1] = e
      /\ 0 \in Nat /\ 0 + Len(s) <= Len(t) /\ 0 + Len(s) = Len(s)
      /\ \A i \in 1 .. Len(s) : s[i] = t[0 + i]
  OBVIOUS
<1> HIDE DEF t
<1>2. PICK f : Reading(f, r, st, t, Len(t)) /\ OnEvents(r, st, t) = f[Len(t)]
  BY <1>1, OnEventsReads
<1>3. GoesOn(f, r, 0, s)
  BY <1>1, <1>2, ReadingsAgree, Zenon
<1>4. f[0] = st
  BY <1>1, <1>2 DEF Reading
<1>5. f[Len(t)] = OnEvent(r, f[Len(s)], e)
  <2>1. Len(t) \in 0 .. Len(t) /\ Len(t) # 0 /\ Len(t) - 1 = Len(s)
    BY <1>1
  <2> QED
    BY <1>1, <1>2, <2>1 DEF Reading
<1> QED
  BY <1>1, <1>2, <1>3, <1>4, <1>5 DEF t, GoesOn

\* It makes no difference how the events are cut into chunks.
LEMMA OnEventsCut ==
    ASSUME NEW r, NEW st, NEW T, NEW s \in Seq(T), NEW n \in 0 .. Len(s)
    PROVE  OnEvents(r, OnEvents(r, st, SubSeq(s, 1, n)), SubSeq(s, n + 1, Len(s)))
             = OnEvents(r, st, s)
<1> DEFINE a == SubSeq(s, 1, n)
           b == SubSeq(s, n + 1, Len(s))
<1>1. /\ Len(s) \in Nat /\ Len(a) \in Nat /\ Len(b) \in Nat
      /\ 0 \in Nat /\ 0 + Len(a) <= Len(s)
      /\ n \in Nat /\ n + Len(b) <= Len(s)
  OBVIOUS
<1>2. /\ \A i \in 1 .. Len(a) : a[i] = s[0 + i]
      /\ \A i \in 1 .. Len(b) : b[i] = s[n + i]
  OBVIOUS
<1>3. 0 + Len(a) = n /\ n + Len(b) = Len(s)
  OBVIOUS
<1> HIDE DEF a, b
<1>4. PICK f : Reading(f, r, st, s, Len(s)) /\ OnEvents(r, st, s) = f[Len(s)]
  BY <1>1, OnEventsReads
<1>5. f[0] = st
  BY <1>1, <1>4 DEF Reading
<1>6. GoesOn(f, r, 0, a)
  BY <1>1, <1>2, <1>4, ReadingsAgree, Zenon
<1>7. GoesOn(f, r, n, b)
  BY <1>1, <1>2, <1>4, ReadingsAgree, Zenon
<1> QED
  BY <1>3, <1>4, <1>5, <1>6, <1>7 DEF a, b, GoesOn

-----------------------------------------------------------------------------
(***************************************************************************)
(* Types.                                                                  *)
(***************************************************************************)
CallLists == {s \in Seq(Call) : Len(s) <= MaxCalls}
PieceLists == {s \in Seq(Piece) : Len(s) <= 2}

\* Sequences of a bounded length are the functions on the bounded initial segments.
LEMMA BoundedSeqs ==
    ASSUME NEW T, NEW m \in Nat
    PROVE  UNION {[1 .. n -> T] : n \in 0 .. m} = {s \in Seq(T) : Len(s) <= m}
<1>1. ASSUME NEW n \in 0 .. m, NEW s \in [1 .. n -> T]
      PROVE  s \in Seq(T) /\ Len(s) <= m
  OBVIOUS
<1>2. ASSUME NEW s \in Seq(T), Len(s) <= m
      PROVE  Len(s) \in 0 .. m /\ s \in [1 .. Len(s) -> T]
  BY <1>2, LenProperties
<1> QED
  BY <1>1, <1>2

LEMMA AgentIs ==
    /\ Agent = [stage : Stages, partial : BOOLEAN, calls : CallLists, left : PieceLists]
    /\ \A calls \in CallLists : Assistant(calls) \in Event
    /\ \A tool \in Tools \cup {"text"} : Start(tool) \in Event
    /\ \A p \in Piece : Delta(p) \in Event
    /\ \A type \in {"block_stop", "message_stop", "result"} : Plain(type) \in Event
<1>1. UNION {[1 .. n -> Call] : n \in 0 .. MaxCalls} = CallLists
  BY NumbersAssumption, BoundedSeqs DEF CallLists
<1>2. UNION {[1 .. n -> Piece] : n \in 0 .. 2} = PieceLists
  BY BoundedSeqs DEF PieceLists
<1>3. Agent = [stage : Stages, partial : BOOLEAN, calls : CallLists, left : PieceLists]
  BY <1>1, <1>2, Zenon DEF Agent, Stages
<1>4. \A calls \in CallLists : Assistant(calls) \in Event
  BY <1>1, Zenon DEF Event
<1> QED
  BY <1>3, <1>4, Zenon DEF Event

\* What the run of an agent sees of a step of the agent.
AgentDoes(r) ==
    /\ \E a \in Agent : agent' = [agent EXCEPT ![r] = a]
    /\ pipe' = pipe \/ \E e \in Event : Emit(r, e)

LEMMA AgentSteps ==
    ASSUME agent \in [Runs -> Agent], NEW r \in Runs, AgentStep(r)
    PROVE  AgentDoes(r)
<1> DEFINE a == agent[r]
<1>1. /\ a \in Agent /\ a.calls \in CallLists /\ a.left \in PieceLists
      /\ a = [stage |-> a.stage, partial |-> a.partial, calls |-> a.calls, left |-> a.left]
  BY AgentIs
<1>2. ASSUME NEW stage \in Stages, EnterStage(r, stage)
      PROVE  \E b \in Agent : agent' = [agent EXCEPT ![r] = b]
  <2>1. [a EXCEPT !.stage = stage] \in Agent
    BY <1>1, AgentIs
  <2>2. agent' = [agent EXCEPT ![r] = [a EXCEPT !.stage = stage]]
    BY <1>2 DEF EnterStage
  <2> QED
    BY <2>1, <2>2
<1>3. CASE Boot(r)
  <2>1. PICK partial \in BOOLEAN :
          agent' = [agent EXCEPT ![r].stage = "message", ![r].partial = partial]
    BY <1>3 DEF Boot
  <2>2. agent' = [agent EXCEPT ![r] = [a EXCEPT !.stage = "message", !.partial = partial]]
    BY <2>1
  <2>3. [a EXCEPT !.stage = "message", !.partial = partial] \in Agent
    BY <1>1, AgentIs DEF Stages, LiveStages
  <2> QED
    BY <1>3, <2>2, <2>3 DEF Boot, AgentDoes
<1>4. CASE Talk(r)
  <2>1. <<>> \in CallLists
    BY NumbersAssumption DEF CallLists
  <2>2. \/ EnterStage(r, "text") /\ Emit(r, Start("text"))
        \/ UNCHANGED agent /\ Emit(r, Assistant(<<>>))
    BY <1>4 DEF Talk
  <2>3. UNCHANGED agent => agent' = [agent EXCEPT ![r] = a]
    OBVIOUS
  <2> HIDE DEF a
  <2> QED
    BY <1>1, <1>2, <2>1, <2>2, <2>3, AgentIs DEF AgentDoes, Stages, LiveStages
<1>5. CASE EndTalk(r) \/ EndMessage(r) \/ Say(r) \/ GiveResult(r) \/ Exit(r)
  <2>1. \/ EnterStage(r, "message") /\ Emit(r, Plain("block_stop"))
        \/ EnterStage(r, "stopped") /\ (Emit(r, Plain("message_stop")) \/ pipe' = pipe)
        \/ EnterStage(r, "spoken") /\ Emit(r, Assistant(a.calls))
        \/ EnterStage(r, "finished") /\ Emit(r, Plain("result"))
        \/ EnterStage(r, "exited") /\ pipe' = pipe
    BY <1>5 DEF EndTalk, EndMessage, Say, GiveResult, Exit
  <2> HIDE DEF a
  <2> QED
    BY <1>1, <1>2, <2>1, AgentIs DEF AgentDoes, Stages, LiveStages
<1>6. ASSUME NEW c \in Call, MakeCall(r, c) PROVE AgentDoes(r)
  <2>1. Append(a.calls, c) \in CallLists
    BY <1>1, <1>6, NumbersAssumption DEF MakeCall, CallLists
  <2>4. Pieces(c.copy) \in PieceLists
    <3>1. c.copy \in Targets
      BY DEF Call
    <3>2. <<c.copy, 1>> \in Piece /\ <<c.copy, 2>> \in Piece
      BY <3>1 DEF Piece
    <3> QED
      BY <3>2 DEF PieceLists, Pieces
  <2>2. CASE a.partial
    <3> DEFINE b == [a EXCEPT !.stage = "input", !.calls = Append(a.calls, c),
                              !.left = Pieces(c.copy)]
    <3>1. b \in Agent
      BY <1>1, <2>1, <2>4, AgentIs DEF Stages, LiveStages
    <3>2. agent' = [agent EXCEPT ![r] = b] /\ Emit(r, Start(c.tool))
      BY <1>6, <2>2 DEF MakeCall
    <3>3. Start(c.tool) \in Event
      BY AgentIs DEF Call
    <3> QED
      BY <3>1, <3>2, <3>3 DEF AgentDoes
  <2>3. CASE ~a.partial
    <3> DEFINE b == [a EXCEPT !.calls = Append(a.calls, c)]
    <3>1. b \in Agent
      BY <1>1, <2>1, AgentIs
    <3>2. agent' = [agent EXCEPT ![r] = b] /\ UNCHANGED pipe
      BY <1>6, <2>3 DEF MakeCall
    <3> QED
      BY <3>1, <3>2 DEF AgentDoes
  <2> QED
    BY <2>2, <2>3
<1>7. CASE Input(r)
  <2>1. CASE a.left # <<>>
    <3> DEFINE b == [a EXCEPT !.left = Tail(a.left)]
    <3>1. Tail(a.left) \in PieceLists /\ Head(a.left) \in Piece
      BY <1>1, <2>1 DEF PieceLists
    <3>2. b \in Agent
      BY <1>1, <3>1, AgentIs
    <3>3. agent' = [agent EXCEPT ![r] = b] /\ Emit(r, Delta(Head(a.left)))
      BY <1>7, <2>1 DEF Input
    <3> QED
      BY <3>1, <3>2, <3>3, AgentIs DEF AgentDoes
  <2>2. CASE a.left = <<>>
    <3>1. EnterStage(r, "message") /\ Emit(r, Plain("block_stop"))
      BY <1>7, <2>2 DEF Input
    <3> HIDE DEF a
    <3> QED
      BY <1>2, <3>1, AgentIs DEF AgentDoes, Stages, LiveStages
  <2> QED
    BY <2>1, <2>2
<1> QED
  BY <1>3, <1>4, <1>5, <1>6, <1>7 DEF AgentStep

LEMMA OnEventTyped ==
    ASSUME NEW r, NEW st \in Parser, NEW e \in Event
    PROVE  OnEvent(r, st, e) \in Parser
<1>1. ASSUME NEW yes \in BOOLEAN PROVE Returning(st, yes) \in Parser
  BY <1>1 DEF Returning, Parser
<1>2. CASE st.returns # "none"
  BY <1>2, Zenon DEF OnEvent
<1>3. CASE st.returns = "none"
  <2>1. ASSUME NEW tool \in Tools \cup {"text"}, e = Start(tool)
        PROVE  OnEvent(r, st, e) \in Parser
    <3>1. OnEvent(r, st, e) = OnStart(st, e)
      BY <1>3, <2>1 DEF OnEvent, Start
    <3>2. ASSUME NEW pending \in TriggerTools
          PROVE  [st EXCEPT !.pending = pending, !.heard = <<>>] \in Parser
      <4>1. <<>> \in Seq(Piece)
        OBVIOUS
      <4> QED
        BY <4>1 DEF Parser
    <3>3. OnStart(st, e) \in Parser
      BY <1>1, <3>2, Zenon DEF OnStart
    <3> QED
      BY <3>1, <3>3
  <2>2. ASSUME NEW p \in Piece, e = Delta(p)
        PROVE  OnEvent(r, st, e) \in Parser
    <3>1. OnEvent(r, st, e) = OnDelta(r, st, e) /\ e.piece = p
      BY <1>3, <2>2 DEF OnEvent, Delta
    <3>2. Append(st.heard, p) \in Seq(Piece)
      BY DEF Parser
    <3>3. [st EXCEPT !.heard = Append(st.heard, p)] \in Parser
      BY <3>2 DEF Parser
    <3>4. OnDelta(r, st, e) \in Parser
      BY <1>1, <3>1, <3>3, Zenon DEF OnDelta
    <3> QED
      BY <3>1, <3>4
  <2>3. ASSUME NEW calls, e = Assistant(calls)
        PROVE  OnEvent(r, st, e) \in Parser
    <3>1. OnEvent(r, st, e) = OnMessage(r, st, e)
      BY <1>3, <2>3 DEF OnEvent, Assistant
    <3>2. CallsOwn(e.calls, r) \in BOOLEAN
      BY DEF CallsOwn
    <3>3. OnMessage(r, st, e) \in Parser
      BY <1>1, <3>2, Zenon DEF OnMessage
    <3> QED
      BY <3>1, <3>3
  <2>4. ASSUME NEW type \in {"block_stop", "message_stop"}, e = Plain(type)
        PROVE  OnEvent(r, st, e) \in Parser
    <3>1. OnEvent(r, st, e) = OnStop(r, st, e)
      BY <1>3, <2>4 DEF OnEvent, Plain
    <3>2. Names(st.heard, r) \in BOOLEAN
      BY DEF Names
    <3>3. OnStop(r, st, e) \in Parser
      BY <1>1, <3>2, Zenon DEF OnStop
    <3> QED
      BY <3>1, <3>3
  <2>5. ASSUME e = Plain("result")
        PROVE  OnEvent(r, st, e) \in Parser
    <3>1. OnEvent(r, st, e) = Returning(st, FALSE)
      BY <1>3, <2>5 DEF OnEvent, Plain
    <3> QED
      BY <1>1, <3>1
  <2> QED
    BY <2>1, <2>2, <2>3, <2>4, <2>5, Zenon DEF Event
<1> QED
  BY <1>2, <1>3

LEMMA OnEventsTyped ==
    ASSUME NEW r, NEW st \in Parser, NEW events \in Seq(Event)
    PROVE  OnEvents(r, st, events) \in Parser
<1>1. Len(events) \in Nat /\ \A i \in 1 .. Len(events) : events[i] \in Event
  OBVIOUS
<1>2. \A q \in Parser : \A i \in 1 .. Len(events) : OnEvent(r, q, events[i]) \in Parser
  BY <1>1, OnEventTyped
<1> QED
  BY <1>1, <1>2, OnEventsKeeps, Zenon

\* What TypeOK says, and that the variables are functions on the runs.
TypeInv ==
    /\ pc \in [Runs -> PoolPcs]
    /\ files \subseteq Runs
    /\ agent \in [Runs -> Agent]
    /\ pipe \in [Runs -> Seq(Event)]
    /\ \A r \in Runs : Len(pipe[r]) <= PipeCap
    /\ buffer \in [Runs -> Seq(Event)]
    /\ parser \in [Runs -> Parser]
    /\ answer \in [Runs -> Answer]
    /\ report \in [known : BOOLEAN, passed : SUBSET Queries]

LEMMA Beginnings ==
    /\ NoAgent("none") \in Agent /\ NewParser \in Parser
    /\ <<>> \in Seq(Event) /\ Len(<<>>) <= PipeCap
<1>1. <<>> \in CallLists /\ <<>> \in PieceLists
  BY NumbersAssumption DEF CallLists, PieceLists
<1>2. NoAgent("none") \in Agent
  BY <1>1, AgentIs DEF NoAgent, Stages
<1>3. NewParser \in Parser
  BY DEF NewParser, Parser
<1> QED
  BY <1>2, <1>3, NumbersAssumption

LEMMA TypeInit == Init => TypeInv
BY Beginnings DEF Init, TypeInv, PoolPcs, Answer

\* Leaving, a run forgets what it has read.
LEMMA LeaveTyped ==
    ASSUME TypeInv, NEW r \in Runs, NEW p \in PoolPcs,
           NEW is \in {"none", "yes", "no", "error"},
           NEW from \in {"none", "events", "clock", "end", "failure"},
           Leave(r, p, is, from)
    PROVE  /\ pc' \in [Runs -> PoolPcs]
           /\ pipe' \in [Runs -> Seq(Event)]
           /\ \A s \in Runs : Len(pipe'[s]) <= PipeCap
           /\ parser' \in [Runs -> Parser]
           /\ answer' \in [Runs -> Answer]
<1>1. [is |-> is, from |-> from] \in Answer
  BY DEF Answer
<1> QED
  BY <1>1, Beginnings DEF TypeInv, Leave, Goto

LEMMA SelectTyped ==
    ASSUME TypeInv, NEW r \in Runs, Select(r)
    PROVE  TypeInv'
<1> USE DEF PoolPcs, WorkPcs
<1>1. UNCHANGED <<files, agent, buffer, report>>
  BY DEF Select, results
<1>2. CASE GoOn(r, "poll")
  BY <1>1, <1>2 DEF TypeInv, GoOn, Goto
<1>3. CASE Leave(r, "kill", "no", "end")
  BY <1>1, <1>3, LeaveTyped DEF TypeInv
<1>4. ASSUME NEW n \in 1 .. Len(pipe[r]),
             LET st == OnEvents(r, parser[r], SubSeq(pipe[r], 1, n))
             IN  \/ st.returns # "none" /\ Leave(r, "kill", st.returns, "events")
                 \/ /\ st.returns = "none" /\ Goto(r, "poll")
                    /\ pipe' = [pipe EXCEPT ![r] = SubSeq(@, n + 1, Len(@))]
                    /\ parser' = [parser EXCEPT ![r] = st]
                    /\ UNCHANGED answer
      PROVE  TypeInv'
  <2> DEFINE st == OnEvents(r, parser[r], SubSeq(pipe[r], 1, n))
             rest == SubSeq(pipe[r], n + 1, Len(pipe[r]))
  <2>1. pipe[r] \in Seq(Event) /\ Len(pipe[r]) \in Nat /\ Len(pipe[r]) <= PipeCap
    BY DEF TypeInv
  <2>2. SubSeq(pipe[r], 1, n) \in Seq(Event) /\ rest \in Seq(Event)
    BY <2>1
  <2>3. Len(rest) <= PipeCap
    BY <2>1, NumbersAssumption
  <2>4. st \in Parser
    BY <2>2, OnEventsTyped DEF TypeInv
  <2> HIDE DEF st, rest
  <2>5. CASE st.returns # "none" /\ Leave(r, "kill", st.returns, "events")
    <3>1. st.returns \in {"none", "yes", "no", "error"}
      BY <2>4 DEF Parser
    <3> QED
      BY <1>1, <2>5, <3>1, LeaveTyped DEF TypeInv
  <2>6. CASE /\ Goto(r, "poll") /\ UNCHANGED answer
             /\ pipe' = [pipe EXCEPT ![r] = rest]
             /\ parser' = [parser EXCEPT ![r] = st]
    BY <1>1, <2>2, <2>3, <2>4, <2>6 DEF TypeInv, Goto
  <2> QED
    BY <1>4, <2>5, <2>6 DEF st, rest
<1> QED
  BY <1>2, <1>3, <1>4, Zenon DEF Select

LEMMA AgentTyped ==
    ASSUME TypeInv, NEW r \in Runs, AgentStep(r)
    PROVE  TypeInv'
<1>1. UNCHANGED <<pc, files, buffer, parser, answer, report>>
  BY DEF AgentStep, results
<1>2. AgentDoes(r)
  BY AgentSteps DEF TypeInv
<1>3. agent' \in [Runs -> Agent]
  BY <1>2 DEF AgentDoes, TypeInv
<1>4. /\ pipe' \in [Runs -> Seq(Event)]
      /\ \A s \in Runs : Len(pipe'[s]) <= PipeCap
  <2>1. ASSUME NEW e \in Event, Emit(r, e)
        PROVE  /\ pipe' \in [Runs -> Seq(Event)]
               /\ \A s \in Runs : Len(pipe'[s]) <= PipeCap
    <3>1. pipe[r] \in Seq(Event) /\ Len(pipe[r]) \in Nat
      BY DEF TypeInv
    <3>2. Append(pipe[r], e) \in Seq(Event) /\ Len(Append(pipe[r], e)) <= PipeCap
      BY <2>1, <3>1, NumbersAssumption DEF Emit
    <3>3. pipe' = [pipe EXCEPT ![r] = Append(pipe[r], e)]
      BY <2>1 DEF Emit
    <3> QED
      BY <3>2, <3>3 DEF TypeInv
  <2> QED
    BY <1>2, <2>1 DEF AgentDoes, TypeInv
<1> QED
  BY <1>1, <1>3, <1>4 DEF TypeInv

LEMMA TypeStep ==
    ASSUME TypeInv, [Next]_vars
    PROVE  TypeInv'
<1> USE DEF PoolPcs, WorkPcs, At, results
<1>1. CASE UNCHANGED vars
  BY <1>1 DEF vars, TypeInv
<1>2. CASE Report
  BY <1>2 DEF Report, TypeInv
<1>3. ASSUME NEW r \in Runs, Take(r) \/ Collect(r) PROVE TypeInv'
  BY <1>3 DEF Take, Collect, TypeInv, Goto
<1>4. ASSUME NEW r \in Runs, WriteCopy(r) PROVE TypeInv'
  <2>1. files' \subseteq Runs /\ UNCHANGED <<agent, buffer, report>>
    BY <1>4 DEF WriteCopy, TypeInv
  <2>2. CASE GoOn(r, "spawn")
    BY <2>1, <2>2 DEF GoOn, Goto, TypeInv
  <2>3. CASE Leave(r, "unlink", "error", "failure")
    BY <2>1, <2>3, LeaveTyped DEF TypeInv
  <2> QED
    BY <1>4, <2>2, <2>3 DEF WriteCopy
<1>5. ASSUME NEW r \in Runs, Spawn(r) PROVE TypeInv'
  <2>1. UNCHANGED <<files, buffer, report>>
    BY <1>5 DEF Spawn
  <2>2. CASE GoOn(r, "poll") /\ EnterStage(r, "booting")
    <3>1. [agent[r] EXCEPT !.stage = "booting"] \in Agent
      BY AgentIs DEF TypeInv, Stages, LiveStages
    <3>2. agent' = [agent EXCEPT ![r] = [agent[r] EXCEPT !.stage = "booting"]]
      BY <2>2 DEF EnterStage
    <3> QED
      BY <2>1, <2>2, <3>1, <3>2 DEF GoOn, Goto, TypeInv
  <2>3. CASE Leave(r, "unlink", "error", "failure") /\ UNCHANGED agent
    BY <2>1, <2>3, LeaveTyped DEF TypeInv
  <2> QED
    BY <1>5, <2>2, <2>3 DEF Spawn
<1>6. ASSUME NEW r \in Runs, TimeOut(r) \/ Raise(r) PROVE TypeInv'
  BY <1>6, LeaveTyped DEF TimeOut, Raise, TypeInv
<1>7. ASSUME NEW r \in Runs, Poll(r) PROVE TypeInv'
  <2>1. UNCHANGED <<files, agent, report>> /\ buffer' \in [Runs -> Seq(Event)]
    BY <1>7 DEF Poll, TypeInv
  <2>2. CASE GoOn(r, "select")
    BY <2>1, <2>2 DEF GoOn, Goto, TypeInv
  <2>3. CASE Leave(r, "kill", "no", "end")
    BY <2>1, <2>3, LeaveTyped DEF TypeInv
  <2> QED
    BY <1>7, <2>2, <2>3 DEF Poll
<1>8. ASSUME NEW r \in Runs, Select(r) PROVE TypeInv'
  BY <1>8, SelectTyped
<1>9. ASSUME NEW r \in Runs, Kill(r) PROVE TypeInv'
  <2>1. [agent[r] EXCEPT !.stage = "exited"] \in Agent
    BY AgentIs DEF TypeInv, Stages
  <2>2. agent' = [agent EXCEPT ![r] = [agent[r] EXCEPT !.stage = "exited"]]
    BY <1>9 DEF Kill, EnterStage
  <2> QED
    BY <1>9, <2>1, <2>2 DEF Kill, Goto, TypeInv
<1>10. ASSUME NEW r \in Runs, Unlink(r) PROVE TypeInv'
  BY <1>10, Beginnings DEF Unlink, Goto, TypeInv
<1>11. ASSUME NEW r \in Runs, AgentStep(r) PROVE TypeInv'
  BY <1>11, AgentTyped
<1> QED
  BY <1>1, <1>2, <1>3, <1>4, <1>5, <1>6, <1>7, <1>8, <1>9, <1>10, <1>11
  DEF Next, Work

(***************************************************************************)
(* Every value stays in its domain: in particular no query is counted more *)
(* often than it is run, and what the reader makes of the events has the   *)
(* form that it works on.                                                  *)
(***************************************************************************)
THEOREM TypesAreRight == Spec => []TypeOK
<1>1. TypeInv /\ CountInv => TypeOK
  <2> SUFFICES ASSUME TypeInv, CountInv PROVE TypeOK
    OBVIOUS
  <2>1. ASSUME NEW q \in Queries
        PROVE  tally[q] \in [runs : 0 .. RunsPerQuery, yes : 0 .. RunsPerQuery]
    <3>1. /\ IsFiniteSet(1 .. RunsPerQuery)
          /\ Cardinality(1 .. RunsPerQuery) = RunsPerQuery
      BY NumbersAssumption, FS_Interval
    <3>2. Counted(q) \subseteq 1 .. RunsPerQuery /\ CountedYes(q) \subseteq 1 .. RunsPerQuery
      BY DEF Counted, CountedYes
    <3>3. /\ Cardinality(Counted(q)) <= RunsPerQuery
          /\ Cardinality(CountedYes(q)) <= RunsPerQuery
      <4>1. ASSUME NEW S, S \subseteq 1 .. RunsPerQuery
            PROVE  Cardinality(S) <= Cardinality(1 .. RunsPerQuery)
        BY <3>1, <4>1, FS_Subset
      <4> QED
        BY <3>1, <3>2, <4>1
    <3> QED
      BY <3>3, CountedFinite DEF CountInv, TallyOK
  <2>2. tally \in [Queries -> [runs : 0 .. RunsPerQuery, yes : 0 .. RunsPerQuery]]
    BY <2>1 DEF CountInv, TallyOK
  <2> QED
    BY <2>2 DEF TypeInv, TypeOK, PoolPcs
<1> QED
  BY <1>1, TypeInit, TypeStep, CountInit, CountStep, PTL DEF Spec

-----------------------------------------------------------------------------
(***************************************************************************)
(* The reader and its agent.  What a reader that has got to the end of the *)
(* pipe holds; how it compares with what the agent has done; and what the  *)
(* agent is about when nothing that it has written decides yet.            *)
(***************************************************************************)
Held(r) == OnEvents(r, parser[r], pipe[r])

Decided(r) ==
    /\ Held(r).returns = "yes" <=> FirstCallIsOwn(r)
    /\ \/ agent[r].calls # <<>>
       \/ agent[r].stage \in {"stopped", "spoken", "finished", "exited"}

Undecided(r) ==
    /\ agent[r].stage # "finished"
    /\ agent[r].stage \in {"booting", "message", "text", "stopped", "spoken"}
          => Held(r).pending = "none"
    /\ agent[r].stage \in {"booting", "text", "spoken"} => agent[r].calls = <<>>
    /\ agent[r].stage = "message" => agent[r].calls = <<>> \/ ~agent[r].partial
    /\ agent[r].stage = "stopped" => ~agent[r].partial
    /\ agent[r].stage = "input" =>
          /\ Len(agent[r].calls) = 1
          /\ Held(r).pending = agent[r].calls[1].tool
          /\ Held(r).pending \in TriggerTools
          /\ Held(r).heard \o agent[r].left = Pieces(agent[r].calls[1].copy)
          /\ ~Names(Held(r).heard, r)

Follows(r) ==
    /\ agent[r].stage # "none"
    /\ IF Held(r).returns = "none" THEN Undecided(r) ELSE Decided(r)

ReadOK(r) ==
    /\ pc[r] \in {"queued", "write", "spawn"} =>
          agent[r] = NoAgent("none") /\ pipe[r] = <<>> /\ parser[r] = NewParser
    /\ pc[r] \in {"poll", "select"} => Follows(r)
    /\ pc[r] = "kill" /\ answer[r].from = "events" =>
          (answer[r].is = "yes" <=> FirstCallIsOwn(r))

ReadInv == \A r \in Runs : ReadOK(r)

LEMMA HeldTyped ==
    ASSUME TypeInv, NEW r \in Runs
    PROVE  Held(r) \in Parser
BY OnEventsTyped DEF TypeInv, Held

\* What is written is read.
LEMMA HeldAfter ==
    ASSUME TypeInv, NEW r \in Runs, NEW e \in Event, Emit(r, e), parser' = parser
    PROVE  Held(r)' = OnEvent(r, Held(r), e)
<1>1. pipe'[r] = Append(pipe[r], e) /\ pipe[r] \in Seq(Event)
  BY DEF TypeInv, Emit
<1> QED
  BY <1>1, OnEventsAppend DEF Held

\* What an event does to a reader that has no answer yet.
LEMMA OnEventIs ==
    ASSUME NEW r, NEW st, st.returns = "none"
    PROVE  /\ \A tool : OnEvent(r, st, Start(tool)) = OnStart(st, Start(tool))
           /\ \A p : OnEvent(r, st, Delta(p)) = OnDelta(r, st, Delta(p))
           /\ \A calls : OnEvent(r, st, Assistant(calls)) = OnMessage(r, st, Assistant(calls))
           /\ \A type \in {"block_stop", "message_stop"} :
                 OnEvent(r, st, Plain(type)) = OnStop(r, st, Plain(type))
           /\ OnEvent(r, st, Plain("result")) = Returning(st, FALSE)
BY DEF OnEvent, Start, Delta, Assistant, Plain

\* Once there is an answer, more events do not change it.
LEMMA OnEventAfter ==
    ASSUME NEW r, NEW st, st.returns # "none", NEW e
    PROVE  OnEvent(r, st, e) = st
BY DEF OnEvent

LEMMA Calling ==
    ASSUME agent \in [Runs -> Agent], NEW r \in Runs, NEW c \in Call, MakeCall(r, c)
    PROVE  /\ agent[r].stage = "message"
           /\ agent'[r].calls = Append(agent[r].calls, c)
           /\ agent[r].partial =>
                 /\ agent'[r].stage = "input" /\ agent'[r].left = Pieces(c.copy)
                 /\ Emit(r, Start(c.tool))
           /\ ~agent[r].partial =>
                 agent'[r].stage = "message" /\ ~agent'[r].partial /\ pipe' = pipe
<1>1. /\ agent[r] \in Agent /\ r \in DOMAIN agent
      /\ DOMAIN agent[r] = {"stage", "partial", "calls", "left"}
  BY AgentIs
<1>2. CASE agent[r].partial
  <2> DEFINE b == [agent[r] EXCEPT !.stage = "input", !.calls = Append(agent[r].calls, c),
                                   !.left = Pieces(c.copy)]
  <2>1. agent' = [agent EXCEPT ![r] = b] /\ Emit(r, Start(c.tool))
    BY <1>2 DEF MakeCall
  <2>2. agent'[r] = b
    BY <1>1, <2>1
  <2> QED
    BY <1>1, <1>2, <2>1, <2>2 DEF MakeCall, Stage
<1>3. CASE ~agent[r].partial
  BY <1>1, <1>3 DEF MakeCall, Stage
<1> QED
  BY <1>2, <1>3

\* What has been called stays called, and a message that is over stays so.
Closed == {"stopped", "spoken", "finished", "exited"}
LEMMA AgentGoesOn ==
    ASSUME TypeInv, NEW r \in Runs, AgentStep(r)
    PROVE  /\ agent'[r].stage # "none"
           /\ \/ agent'[r].calls = agent[r].calls
              \/ /\ agent[r].stage = "message"
                 /\ \E c \in Call : agent'[r].calls = Append(agent[r].calls, c)
           /\ agent[r].stage \in Closed => agent'[r].stage \in Closed
<1>1. agent[r] \in Agent /\ r \in DOMAIN agent
      /\ DOMAIN agent[r] = {"stage", "partial", "calls", "left"}
  BY AgentIs DEF TypeInv
<1> HIDE DEF TypeInv
<1>2. CASE Boot(r)
  BY <1>1, <1>2 DEF Boot, Stage, Closed
<1>3. CASE Talk(r) \/ EndTalk(r)
  BY <1>1, <1>3 DEF Talk, EndTalk, EnterStage, Stage, Closed
<1>4. ASSUME NEW c \in Call, MakeCall(r, c)
      PROVE  /\ agent[r].stage = "message" /\ agent'[r].stage # "none"
             /\ agent'[r].calls = Append(agent[r].calls, c)
  BY <1>4, Calling DEF TypeInv
<1>5. CASE Input(r)
  BY <1>1, <1>5 DEF Input, EnterStage, Stage, Closed
<1>6. CASE EndMessage(r) \/ Say(r) \/ GiveResult(r) \/ Exit(r)
  BY <1>1, <1>6 DEF EndMessage, Say, GiveResult, Exit, EnterStage, Stage, Closed
<1> QED
  BY <1>2, <1>3, <1>4, <1>5, <1>6 DEF AgentStep, Closed

LEMMA DecidedStays ==
    ASSUME TypeInv, NEW r \in Runs, Follows(r), AgentStep(r), Held(r).returns # "none"
    PROVE  Follows(r)'
<1>1. parser' = parser /\ (pipe' = pipe \/ \E e \in Event : Emit(r, e))
  BY AgentSteps DEF AgentStep, AgentDoes, TypeInv
<1>2. Held(r)' = Held(r)
  BY <1>1, HeldAfter, OnEventAfter DEF Held
<1>3. agent[r].calls \in Seq(Call)
  BY AgentIs DEF TypeInv, CallLists
<1>4. /\ agent'[r].calls # <<>> \/ agent'[r].stage \in Closed
      /\ FirstCallIsOwn(r)' <=> FirstCallIsOwn(r)
  <2>1. Decided(r)
    BY DEF Follows
  <2>2. CASE agent'[r].calls = agent[r].calls
    BY <2>1, <2>2, AgentGoesOn DEF Decided, Closed, FirstCallIsOwn
  <2>3. ASSUME NEW c \in Call, agent[r].stage = "message",
               agent'[r].calls = Append(agent[r].calls, c)
        PROVE  /\ agent'[r].calls # <<>> /\ agent[r].calls # <<>>
               /\ agent'[r].calls[1] = agent[r].calls[1]
    BY <1>3, <2>1, <2>3 DEF Decided
  <2> QED
    BY <2>2, <2>3, AgentGoesOn DEF FirstCallIsOwn, CallsOwn
<1> QED
  BY <1>2, <1>4, AgentGoesOn DEF Follows, Decided, Closed

\* A name is in what was heard once both its pieces are.
LEMMA HearingNames ==
    ASSUME NEW r, NEW copy, NEW json \in Seq(Piece), NEW left \in Seq(Piece),
           json \o left = Pieces(copy)
    PROVE  /\ Names(json, r) => copy = r
           /\ left = <<>> /\ copy = r => Names(json, r)
<1>1. /\ Len(json) \in Nat /\ Len(left) \in Nat /\ Len(json) + Len(left) = 2
      /\ \A i \in 1 .. Len(json) : json[i] = <<copy, i>>
  <2>1. /\ Len(json \o left) = Len(json) + Len(left)
        /\ \A i \in 1 .. Len(json) : json[i] = (json \o left)[i]
    BY ConcatProperties
  <2>2. /\ Len(Pieces(copy)) = 2
        /\ Pieces(copy)[1] = <<copy, 1>> /\ Pieces(copy)[2] = <<copy, 2>>
    BY DEF Pieces
  <2> QED
    BY <2>1, <2>2
<1>2. Names(json, r) => copy = r
  BY <1>1 DEF Names
<1>3. ASSUME left = <<>>, copy = r PROVE Names(json, r)
  <2>1. Len(json) = 2
    BY <1>1, <1>3
  <2> QED
    BY <1>1, <1>3, <2>1 DEF Names
<1> QED
  BY <1>2, <1>3

LEMMA UndecidedStays ==
    ASSUME TypeInv, NEW r \in Runs, Follows(r), AgentStep(r), Held(r).returns = "none"
    PROVE  Follows(r)'
<1> DEFINE a == agent[r]
           st == Held(r)
<1>1. /\ a \in Agent /\ r \in DOMAIN agent
      /\ DOMAIN a = {"stage", "partial", "calls", "left"}
      /\ a.calls \in Seq(Call) /\ a.left \in Seq(Piece)
  BY AgentIs DEF TypeInv, CallLists, PieceLists
<1>2. st \in Parser /\ st.returns = "none" /\ Undecided(r) /\ a.stage # "none"
  BY HeldTyped DEF Follows
<1>3. /\ parser' = parser
      /\ pipe' = pipe => Held(r)' = st
      /\ \A e \in Event : Emit(r, e) => Held(r)' = OnEvent(r, st, e)
  BY HeldAfter DEF AgentStep, Held
<1>4. ASSUME NEW yes \in BOOLEAN
      PROVE  Returning(st, yes).returns = IF yes THEN "yes" ELSE "no"
  BY <1>2 DEF Returning, Parser
<1>5. CASE Boot(r)
  <2>1. /\ a.stage = "booting" /\ pipe' = pipe
        /\ agent'[r].stage = "message" /\ agent'[r].calls = a.calls
    BY <1>1, <1>5 DEF Boot, Stage
  <2> QED
    BY <1>2, <1>3, <2>1 DEF Follows, Undecided
<1>6. CASE Talk(r)
  <2>1. a.stage = "message" /\ a.calls = <<>> /\ agent'[r].calls = a.calls
    BY <1>1, <1>6 DEF Talk, Stage, EnterStage
  <2>2. CASE Emit(r, Start("text")) /\ agent'[r].stage = "text"
    <3>1. Held(r)' = OnStart(st, Start("text"))
      <4>1. Held(r)' = OnEvent(r, st, Start("text"))
        BY <1>3, <2>2, AgentIs
      <4> QED
        BY <1>2, <4>1, OnEventIs
    <3>2. OnStart(st, Start("text")) = st
      BY DEF OnStart, Start
    <3> QED
      BY <1>2, <2>1, <2>2, <3>1, <3>2 DEF Follows, Undecided
  <2>3. CASE Emit(r, Assistant(<<>>)) /\ agent' = agent
    <3>1. <<>> \in CallLists
      BY NumbersAssumption DEF CallLists
    <3>2. Held(r)' = OnMessage(r, st, Assistant(<<>>))
      <4>1. Held(r)' = OnEvent(r, st, Assistant(<<>>))
        BY <1>3, <2>3, <3>1, AgentIs
      <4> QED
        BY <1>2, <4>1, OnEventIs
    <3>3. OnMessage(r, st, Assistant(<<>>)) = st
      BY DEF OnMessage, Assistant
    <3> QED
      BY <1>2, <2>1, <2>3, <3>2, <3>3 DEF Follows, Undecided
  <2> QED
    BY <1>1, <1>6, <2>2, <2>3 DEF Talk, EnterStage
<1>7. CASE EndTalk(r)
  <2>1. /\ a.stage = "text" /\ agent'[r].stage = "message" /\ agent'[r].calls = a.calls
        /\ Emit(r, Plain("block_stop"))
    BY <1>1, <1>7 DEF EndTalk, Stage, EnterStage
  <2>2. Held(r)' = st
    BY <1>2, <1>3, <2>1, AgentIs, OnEventIs DEF OnStop, Plain, Undecided
  <2> QED
    BY <1>2, <2>1, <2>2 DEF Follows, Undecided
<1>8. ASSUME NEW c \in Call, MakeCall(r, c), a.partial PROVE Follows(r)'
  <2>1. /\ a.stage = "message" /\ Emit(r, Start(c.tool))
        /\ agent'[r].stage = "input"
        /\ agent'[r].calls = Append(a.calls, c)
        /\ agent'[r].left = Pieces(c.copy)
    BY <1>8, Calling DEF TypeInv
  <2>2. a.calls = <<>>
    BY <1>2, <1>8, <2>1 DEF Undecided
  <2>3. agent'[r].calls # <<>> /\ Len(agent'[r].calls) = 1 /\ agent'[r].calls[1] = c
    BY <2>1, <2>2
  <2>4. c.tool \in Tools /\ c.tool # "text"
    BY OtherToolsAssumption DEF Call, Tools, TriggerTools
  <2>5. Held(r)' = OnStart(st, Start(c.tool))
    <3>1. Held(r)' = OnEvent(r, st, Start(c.tool))
      BY <1>3, <2>1, <2>4, AgentIs
    <3> QED
      BY <1>2, <3>1, OnEventIs
  <2>6. CASE c.tool \in TriggerTools
    <3>1. Held(r)' = [st EXCEPT !.pending = c.tool, !.heard = <<>>]
      BY <2>4, <2>5, <2>6 DEF OnStart, Start
    <3>2. /\ Held(r)'.pending = c.tool /\ Held(r)'.heard = <<>>
          /\ Held(r)'.returns = "none"
      BY <1>2, <3>1 DEF Parser
    <3>3. <<>> \o agent'[r].left = Pieces(c.copy)
      BY <2>1 DEF Pieces
    <3>4. ~Names(<<>>, r)
      BY DEF Names
    <3>5. Undecided(r)'
      <4>1. Held(r)'.heard \o agent'[r].left = Pieces(agent'[r].calls[1].copy)
        BY <2>3, <3>2, <3>3
      <4>2. ~Names(Held(r)'.heard, r)
        BY <3>2, <3>4
      <4> QED
        BY <2>1, <2>3, <2>6, <3>2, <4>1, <4>2 DEF Undecided
    <3> QED
      BY <2>1, <3>2, <3>5 DEF Follows
  <2>7. CASE c.tool \notin TriggerTools
    <3>1. Held(r)'.returns = "no"
      BY <1>4, <2>4, <2>5, <2>7 DEF OnStart, Start
    <3>2. ~FirstCallIsOwn(r)'
      BY <2>3, <2>7 DEF FirstCallIsOwn, CallsOwn
    <3> QED
      BY <2>1, <2>3, <3>1, <3>2 DEF Follows, Decided
  <2> QED
    BY <2>6, <2>7
<1>9. ASSUME NEW c \in Call, MakeCall(r, c), ~a.partial PROVE Follows(r)'
  <2>1. /\ a.stage = "message" /\ pipe' = pipe
        /\ agent'[r].stage = "message" /\ ~agent'[r].partial
    BY <1>9, Calling DEF TypeInv
  <2> QED
    BY <1>2, <1>3, <2>1 DEF Follows, Undecided
<1>10. CASE Input(r) /\ a.left # <<>>
  <2> DEFINE p == Head(a.left)
             json == Append(st.heard, p)
  <2>1. /\ a.stage = "input" /\ Emit(r, Delta(p))
        /\ agent'[r].stage = a.stage /\ agent'[r].calls = a.calls
        /\ agent'[r].left = Tail(a.left)
    BY <1>1, <1>10 DEF Input, Stage
  <2>2. /\ p \in Piece /\ st.heard \in Seq(Piece)
        /\ json \in Seq(Piece) /\ Tail(a.left) \in Seq(Piece)
    BY <1>1, <1>2, <1>10 DEF Parser
  <2>3. json \o Tail(a.left) = st.heard \o a.left
    BY <1>1, <1>10, <2>2
  <2>4. /\ Len(a.calls) = 1 /\ a.calls # <<>>
        /\ st.pending = a.calls[1].tool /\ st.pending \in TriggerTools
        /\ json \o Tail(a.left) = Pieces(a.calls[1].copy)
    <3>1. /\ Len(a.calls) = 1
          /\ st.pending = a.calls[1].tool /\ st.pending \in TriggerTools
          /\ st.heard \o a.left = Pieces(a.calls[1].copy)
      BY <1>2, <2>1 DEF Undecided
    <3>2. a.calls # <<>>
      BY <1>1, <3>1
    <3> HIDE DEF a, st
    <3> QED
      BY <2>3, <3>1, <3>2
  <2>5. Held(r)' = OnDelta(r, st, Delta(p))
    <3>1. Held(r)' = OnEvent(r, st, Delta(p))
      BY <1>3, <2>1, <2>2, AgentIs
    <3> QED
      BY <1>2, <3>1, OnEventIs
  <2>6. OnDelta(r, st, Delta(p)) = IF Names(json, r) THEN Returning(st, TRUE)
                                   ELSE [st EXCEPT !.heard = json]
    BY <2>4 DEF OnDelta, Delta, TriggerTools
  <2>7. CASE Names(json, r)
    <3>1. Held(r)'.returns = "yes"
      BY <1>4, <2>5, <2>6, <2>7
    <3>2. a.calls[1].copy = r
      <4> HIDE DEF json
      <4> QED
        BY <2>2, <2>4, <2>7, HearingNames
    <3>3. FirstCallIsOwn(r)'
      BY <2>1, <2>4, <3>2 DEF FirstCallIsOwn, CallsOwn
    <3> QED
      BY <2>1, <2>4, <3>1, <3>3 DEF Follows, Decided
  <2>8. CASE ~Names(json, r)
    <3>1. Held(r)' = [st EXCEPT !.heard = json]
      BY <2>5, <2>6, <2>8
    <3>2. /\ Held(r)'.pending = st.pending /\ Held(r)'.heard = json
          /\ Held(r)'.returns = "none"
      BY <1>2, <3>1 DEF Parser
    <3> HIDE DEF json
    <3> QED
      BY <2>1, <2>4, <2>8, <3>2 DEF Follows, Undecided
  <2> QED
    BY <2>7, <2>8
<1>11. CASE Input(r) /\ a.left = <<>>
  <2>1. /\ a.stage = "input" /\ Emit(r, Plain("block_stop"))
        /\ agent'[r].stage = "message" /\ agent'[r].calls = a.calls
    BY <1>1, <1>11 DEF Input, EnterStage, Stage
  <2>2. Held(r)' = OnStop(r, st, Plain("block_stop"))
    <3>1. Held(r)' = OnEvent(r, st, Plain("block_stop"))
      BY <1>3, <2>1, AgentIs
    <3> QED
      BY <1>2, <3>1, OnEventIs
  <2>3. /\ a.calls # <<>> /\ st.pending # "none" /\ ~Names(st.heard, r)
        /\ st.heard \o a.left = Pieces(a.calls[1].copy)
    BY <1>1, <1>2, <2>1 DEF Undecided, TriggerTools
  <2>4. Held(r)'.returns = "no"
    <3>1. OnStop(r, st, Plain("block_stop")) = Returning(st, Names(st.heard, r))
      BY <2>3 DEF OnStop
    <3>2. Names(st.heard, r) = FALSE
      BY <2>3 DEF Names
    <3> QED
      BY <1>4, <2>2, <3>1, <3>2
  <2>5. a.calls[1].copy # r
    BY <1>1, <1>2, <1>11, <2>3, HearingNames DEF Parser
  <2> QED
    BY <2>1, <2>3, <2>4, <2>5 DEF Follows, Decided, FirstCallIsOwn, CallsOwn
<1>12. CASE EndMessage(r) /\ a.partial
  <2>1. /\ a.stage = "message" /\ Emit(r, Plain("message_stop"))
        /\ agent'[r].stage = "stopped" /\ agent'[r].calls = a.calls
    BY <1>1, <1>12 DEF EndMessage, EnterStage, Stage
  <2>2. a.calls = <<>> /\ st.pending = "none"
    BY <1>2, <1>12, <2>1 DEF Undecided
  <2>3. Held(r)' = OnStop(r, st, Plain("message_stop"))
    <3>1. Held(r)' = OnEvent(r, st, Plain("message_stop"))
      BY <1>3, <2>1, AgentIs
    <3> QED
      BY <1>2, <3>1, OnEventIs
  <2>4. Held(r)'.returns = "no"
    BY <1>4, <2>2, <2>3 DEF OnStop, Plain
  <2> QED
    BY <2>1, <2>2, <2>4 DEF Follows, Decided, FirstCallIsOwn
<1>13. CASE EndMessage(r) /\ ~a.partial
  <2>1. /\ a.stage = "message" /\ pipe' = pipe
        /\ agent'[r].stage = "stopped" /\ ~agent'[r].partial
    BY <1>1, <1>13 DEF EndMessage, EnterStage, Stage
  <2> QED
    BY <1>2, <1>3, <2>1 DEF Follows, Undecided
<1>14. CASE Say(r)
  <2>1. /\ a.stage = "stopped" /\ Emit(r, Assistant(a.calls))
        /\ agent'[r].stage = "spoken" /\ agent'[r].calls = a.calls
    BY <1>1, <1>14 DEF Say, EnterStage, Stage
  <2>2. Held(r)' = OnMessage(r, st, Assistant(a.calls))
    <3>1. a.calls \in CallLists
      BY AgentIs DEF TypeInv
    <3>2. Held(r)' = OnEvent(r, st, Assistant(a.calls))
      BY <1>3, <2>1, <3>1, AgentIs
    <3> QED
      BY <1>2, <3>2, OnEventIs
  <2>3. CASE a.calls = <<>>
    <3>1. Held(r)' = st
      BY <2>2, <2>3 DEF OnMessage, Assistant
    <3> QED
      BY <1>2, <2>1, <2>3, <3>1 DEF Follows, Undecided
  <2>4. CASE a.calls # <<>>
    <3>1. Held(r)' = Returning(st, CallsOwn(a.calls, r))
      BY <2>2, <2>4 DEF OnMessage, Assistant
    <3>2. Held(r)'.returns = IF CallsOwn(a.calls, r) THEN "yes" ELSE "no"
      BY <1>4, <3>1 DEF CallsOwn
    <3> QED
      BY <2>1, <2>4, <3>2 DEF Follows, Decided, FirstCallIsOwn
  <2> QED
    BY <2>3, <2>4
<1>15. CASE GiveResult(r)
  <2>1. /\ a.stage = "spoken" /\ Emit(r, Plain("result"))
        /\ agent'[r].stage = "finished" /\ agent'[r].calls = a.calls
    BY <1>1, <1>15 DEF GiveResult, EnterStage, Stage
  <2>2. Held(r)' = Returning(st, FALSE)
    <3>1. Held(r)' = OnEvent(r, st, Plain("result"))
      BY <1>3, <2>1, AgentIs
    <3> QED
      BY <1>2, <3>1, OnEventIs
  <2>3. Held(r)'.returns = "no" /\ a.calls = <<>>
    BY <1>2, <1>4, <2>1, <2>2 DEF Undecided
  <2> QED
    BY <2>1, <2>3 DEF Follows, Decided, FirstCallIsOwn
<1>16. CASE Exit(r)
  <2>1. pipe' = pipe /\ agent'[r].stage = "exited"
    BY <1>1, <1>16 DEF Exit, EnterStage
  <2> QED
    BY <1>2, <1>3, <2>1 DEF Follows, Undecided
<1> QED
  BY <1>5, <1>6, <1>7, <1>8, <1>9, <1>10, <1>11, <1>12, <1>13, <1>14, <1>15, <1>16
  DEF AgentStep

LEMMA ReadInit == Init => ReadInv
BY DEF Init, ReadInv, ReadOK

\* A step that leaves run s and what it reads alone.
LEMMA ReadKept ==
    ASSUME ReadInv, NEW s \in Runs,
           pc'[s] = pc[s], agent'[s] = agent[s], pipe'[s] = pipe[s],
           parser'[s] = parser[s], answer'[s] = answer[s]
    PROVE  ReadOK(s)'
BY DEF ReadInv, ReadOK, Follows, Decided, Undecided, Held, FirstCallIsOwn

LEMMA OthersLeftAlone ==
    ASSUME TypeInv, NEW r \in Runs, NEW s \in Runs \ {r},
           Take(r) \/ Work(r) \/ TimeOut(r) \/ Raise(r) \/ Collect(r) \/ AgentStep(r)
    PROVE  /\ pc'[s] = pc[s] /\ agent'[s] = agent[s] /\ pipe'[s] = pipe[s]
           /\ parser'[s] = parser[s] /\ answer'[s] = answer[s]
<1> USE DEF TypeInv, Goto, GoOn, Leave, EnterStage
<1>1. CASE Take(r) \/ Collect(r)
  BY <1>1 DEF Take, Collect
<1>2. CASE WriteCopy(r) \/ Spawn(r)
  BY <1>2 DEF WriteCopy, Spawn
<1>3. CASE TimeOut(r) \/ Raise(r) \/ Poll(r)
  BY <1>3 DEF TimeOut, Raise, Poll
<1>4. CASE Select(r)
  BY <1>4 DEF Select
<1>5. CASE Kill(r) \/ Unlink(r)
  BY <1>5 DEF Kill, Unlink
<1>6. CASE AgentStep(r)
  <2>1. AgentDoes(r) /\ UNCHANGED <<pc, parser, answer>>
    BY <1>6, AgentSteps DEF AgentStep
  <2> QED
    BY <2>1 DEF AgentDoes, Emit
<1> QED
  BY <1>1, <1>2, <1>3, <1>4, <1>5, <1>6 DEF Work

\* What is read of the pipe, and what is left in it.
LEMMA SelectReads ==
    ASSUME TypeInv, NEW r \in Runs, NEW n \in 1 .. Len(pipe[r])
    PROVE  LET st == OnEvents(r, parser[r], SubSeq(pipe[r], 1, n))
               rest == SubSeq(pipe[r], n + 1, Len(pipe[r]))
           IN  OnEvents(r, st, rest) = Held(r) /\ (st.returns # "none" => st = Held(r))
<1> DEFINE st == OnEvents(r, parser[r], SubSeq(pipe[r], 1, n))
           rest == SubSeq(pipe[r], n + 1, Len(pipe[r]))
<1>1. pipe[r] \in Seq(Event) /\ n \in 0 .. Len(pipe[r]) /\ Len(rest) \in Nat
  BY DEF TypeInv
<1>2. OnEvents(r, st, rest) = Held(r)
  BY <1>1, OnEventsCut, Zenon DEF Held
<1>3. st.returns # "none" => OnEvents(r, st, rest) = st
  BY <1>1, OnEventsDecided
<1> QED
  BY <1>2, <1>3

LEMMA SelectStep ==
    ASSUME TypeInv, NEW r \in Runs, ReadOK(r), Select(r)
    PROVE  ReadOK(r)'
<1>1. agent' = agent /\ pc[r] = "select" /\ Follows(r)
  BY DEF Select, At, ReadOK
<1>2. CASE GoOn(r, "poll")
  <2>1. pc'[r] = "poll" /\ pipe' = pipe /\ parser' = parser
    BY <1>2 DEF GoOn, Goto, TypeInv
  <2> QED
    BY <1>1, <2>1 DEF ReadOK, Follows, Decided, Undecided, Held, FirstCallIsOwn
<1>3. CASE Leave(r, "kill", "no", "end")
  <2>1. pc'[r] = "kill" /\ answer'[r].from = "end"
    BY <1>3 DEF Leave, Goto, TypeInv
  <2> QED
    BY <2>1 DEF ReadOK
<1>4. ASSUME NEW n \in 1 .. Len(pipe[r]),
             LET st == OnEvents(r, parser[r], SubSeq(pipe[r], 1, n))
             IN  \/ st.returns # "none" /\ Leave(r, "kill", st.returns, "events")
                 \/ /\ st.returns = "none" /\ Goto(r, "poll")
                    /\ pipe' = [pipe EXCEPT ![r] = SubSeq(@, n + 1, Len(@))]
                    /\ parser' = [parser EXCEPT ![r] = st]
                    /\ UNCHANGED answer
      PROVE  ReadOK(r)'
  <2> DEFINE st == OnEvents(r, parser[r], SubSeq(pipe[r], 1, n))
             rest == SubSeq(pipe[r], n + 1, Len(pipe[r]))
  <2>1. OnEvents(r, st, rest) = Held(r) /\ (st.returns # "none" => st = Held(r))
    BY SelectReads
  <2> HIDE DEF st, rest
  <2>2. CASE st.returns # "none" /\ Leave(r, "kill", st.returns, "events")
    <3>1. pc'[r] = "kill" /\ answer'[r].is = Held(r).returns
      BY <2>1, <2>2 DEF Leave, Goto, TypeInv
    <3>2. Decided(r)
      BY <1>1, <2>1, <2>2 DEF Follows
    <3> QED
      BY <1>1, <3>1, <3>2 DEF ReadOK, Decided, FirstCallIsOwn
  <2>3. CASE /\ Goto(r, "poll")
             /\ pipe' = [pipe EXCEPT ![r] = rest]
             /\ parser' = [parser EXCEPT ![r] = st]
    <3>1. pc'[r] = "poll" /\ pipe'[r] = rest /\ parser'[r] = st
      BY <2>3 DEF Goto, TypeInv
    <3>2. Held(r)' = Held(r)
      BY <2>1, <3>1 DEF Held
    <3> QED
      BY <1>1, <3>1, <3>2 DEF ReadOK, Follows, Decided, Undecided, FirstCallIsOwn
  <2> QED
    BY <1>4, <2>2, <2>3 DEF st, rest
<1> QED
  BY <1>2, <1>3, <1>4, Zenon DEF Select

LEMMA SpawnStep ==
    ASSUME TypeInv, NEW r \in Runs, ReadOK(r), Spawn(r)
    PROVE  ReadOK(r)'
<1>1. CASE GoOn(r, "poll") /\ EnterStage(r, "booting")
  <2>1. /\ pc'[r] = "poll" /\ agent'[r].stage = "booting" /\ agent'[r].calls = <<>>
        /\ pipe'[r] = <<>> /\ parser'[r] = NewParser
    BY <1>1 DEF Spawn, At, GoOn, Goto, EnterStage, ReadOK, TypeInv, NoAgent
  <2>2. Held(r)' = NewParser
    BY <2>1, OnEventsNone DEF Held
  <2> QED
    BY <2>1, <2>2 DEF ReadOK, Follows, Undecided, NewParser
<1>2. CASE Leave(r, "unlink", "error", "failure")
  BY <1>2 DEF Leave, Goto, ReadOK, TypeInv
<1> QED
  BY <1>1, <1>2 DEF Spawn

LEMMA ReadStep ==
    ASSUME TypeInv, ReadInv, [Next]_vars
    PROVE  ReadInv'
<1>1. CASE UNCHANGED vars \/ Report
  <2>1. UNCHANGED <<pc, agent, pipe, parser, answer>>
    BY <1>1 DEF vars, Report
  <2> QED
    BY <2>1, ReadKept DEF ReadInv
<1>2. ASSUME NEW r \in Runs,
             Take(r) \/ Work(r) \/ TimeOut(r) \/ Raise(r) \/ Collect(r) \/ AgentStep(r)
      PROVE  ReadInv'
  <2>1. ASSUME NEW s \in Runs \ {r} PROVE ReadOK(s)'
    BY <1>2, OthersLeftAlone, ReadKept
  <2>2. ReadOK(r)
    BY DEF ReadInv
  <2>3. CASE Take(r) \/ Collect(r)
    <3>1. /\ UNCHANGED <<agent, pipe, parser>>
          /\ \/ pc[r] = "queued" /\ pc'[r] = "write"
             \/ pc'[r] = "collected"
      BY <2>3 DEF Take, Collect, At, Goto, TypeInv
    <3>2. ReadOK(r)'
      BY <2>2, <3>1 DEF ReadOK
    <3> QED
      BY <2>1, <3>2 DEF ReadInv
  <2>4. CASE WriteCopy(r)
    <3>1. \/ pc'[r] = "unlink"
          \/ /\ pc'[r] = "spawn" /\ pc[r] = "write"
             /\ UNCHANGED <<agent, pipe, parser>>
      BY <2>4 DEF WriteCopy, At, GoOn, Leave, Goto, TypeInv
    <3>2. ReadOK(r)'
      BY <2>2, <3>1 DEF ReadOK
    <3> QED
      BY <2>1, <3>2 DEF ReadInv
  <2>5. CASE Spawn(r)
    BY <2>1, <2>2, <2>5, SpawnStep DEF ReadInv
  <2>6. CASE TimeOut(r) \/ Raise(r) \/ Kill(r) \/ Unlink(r)
    <3>1. \/ pc'[r] = "kill" /\ answer'[r].from \in {"clock", "failure"}
          \/ pc'[r] \in {"unlink", "done"}
      BY <2>6 DEF TimeOut, Raise, Kill, Unlink, Leave, Goto, TypeInv
    <3>2. ReadOK(r)'
      BY <3>1 DEF ReadOK
    <3> QED
      BY <2>1, <3>2 DEF ReadInv
  <2>7. CASE Poll(r)
    <3>1. \/ pc'[r] = "kill" /\ answer'[r].from = "end"
          \/ /\ pc'[r] = "select" /\ pc[r] = "poll"
             /\ UNCHANGED <<agent, pipe, parser>>
      BY <2>7 DEF Poll, At, GoOn, Leave, Goto, TypeInv
    <3>2. ReadOK(r)'
      BY <2>2, <3>1
      DEF ReadOK, Follows, Decided, Undecided, Held, FirstCallIsOwn
    <3> QED
      BY <2>1, <3>2 DEF ReadInv
  <2>8. CASE Select(r)
    BY <2>1, <2>2, <2>8, SelectStep DEF ReadInv
  <2>9. CASE AgentStep(r)
    <3>1. pc' = pc /\ pc[r] \in {"poll", "select"}
      BY <2>9 DEF AgentStep
    <3>2. Follows(r)'
      BY <2>2, <2>9, <3>1, DecidedStays, UndecidedStays DEF ReadOK
    <3>3. ReadOK(r)'
      BY <3>1, <3>2 DEF ReadOK
    <3> QED
      BY <2>1, <3>3 DEF ReadInv
  <2> QED
    BY <1>2, <2>3, <2>4, <2>5, <2>6, <2>7, <2>8, <2>9 DEF Work
<1> QED
  BY <1>1, <1>2 DEF Next

(***************************************************************************)
(* However the events of an agent are cut into chunks, and whatever it     *)
(* goes on to do, an answer that is read off them is yes exactly when the  *)
(* first tool that the agent calls is Skill or Read, on the run's own      *)
(* copy.                                                                   *)
(***************************************************************************)
THEOREM AnswersAreRead == Spec => []EventsAreRead
<1>1. ReadInv => EventsAreRead
  BY DEF ReadInv, ReadOK, EventsAreRead, At
<1> QED
  BY <1>1, TypeInit, TypeStep, ReadInit, ReadStep, PTL DEF Spec

=============================================================================
