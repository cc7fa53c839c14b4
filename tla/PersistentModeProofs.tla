------------------------ MODULE PersistentModeProofs ------------------------
(***************************************************************************)
(* Theorems about PersistentMode, for any number of sessions, workflows,   *)
(* prompts and hours.                                                      *)
(***************************************************************************)
EXTENDS PersistentMode, TLAPS

-----------------------------------------------------------------------------
(***************************************************************************)
(* Types.                                                                  *)
(***************************************************************************)
Pcs == WaitPcs \cup {"working"} \cup PromptPcs \cup StopPcs

LEMMA FileTypes ==
    /\ Absent \in File /\ Empty \in File /\ Torn \in File
    /\ Absent.is = "absent" /\ Empty.is = "empty" /\ Torn.is = "torn"
    /\ 1 \in Workflows
  BY LimitsAssumption DEF File, Absent, Empty, Torn, NoState, Workflows

LEMMA NoHookType == \A pc \in Pcs : NoHook(pc) \in Hook
  BY FileTypes DEF NoHook, Hook, Pcs

LEMMA SessionIdType == \A a \in Agents : SessionId(a) \in Ids
  BY DEF SessionId, Ids

\* Each way a hook moves on keeps the sessions' places well-typed.
LEMMA HookMoves ==
    ASSUME hook \in [Agents -> Hook], NEW a \in Agents
    PROVE  /\ \A pc \in Pcs : Goto(a, pc) \/ Leave(a, pc) => hook' \in [Agents -> Hook]
           /\ Continue(a) => hook' \in [Agents -> Hook]
<1>1. \A pc \in Pcs : Goto(a, pc) => hook' \in [Agents -> Hook]
  BY DEF Goto, Hook, Pcs
<1>2. \A pc \in Pcs : Leave(a, pc) => hook' \in [Agents -> Hook]
  BY NoHookType DEF Leave
<1>3. ASSUME Continue(a) PROVE hook' \in [Agents -> Hook]
  <2>1. NoHook("idle") \in Hook
    BY NoHookType DEF Pcs, WaitPcs
  <2>2. hook[a].wf < NumWorkflows
          => [pc |-> "scan", wf |-> hook[a].wf + 1, seen |-> Absent] \in Hook
    BY FileTypes, LimitsAssumption DEF Hook, StopPcs, Workflows
  <2>3. QED
    BY <1>3, <2>1, <2>2 DEF Continue
<1>4. QED
  BY <1>1, <1>2, <1>3

\* The two halves of writeFileSync keep the files well-typed.
LEMMA FileMoves ==
    ASSUME file \in [Workflows -> File], writers \in [Workflows -> SUBSET Agents],
           NEW a \in Agents, NEW w \in Workflows, NEW state \in File
    PROVE  Open(a, w) \/ Write(a, w, state) =>
               file' \in [Workflows -> File] /\ writers' \in [Workflows -> SUBSET Agents]
  BY FileTypes DEF Open, Write

(***************************************************************************)
(* The state files, the hooks and the counters of every session stay       *)
(* well-typed: the loop of the Stop hook never leaves the list of the      *)
(* persistent workflows.                                                   *)
(***************************************************************************)
THEOREM ModeTypeCorrect == Spec => []TypeOK
<1>1. Init => TypeOK
  BY FileTypes, NoHookType DEF Init, TypeOK, Pcs, WaitPcs
<1>2. TypeOK /\ [Next]_vars => TypeOK'
  <2> SUFFICES ASSUME TypeOK, [Next]_vars PROVE TypeOK'
    OBVIOUS
  <2> USE DEF Pcs, WaitPcs, PromptPcs, StopPcs
  <2>1. ASSUME NEW a \in Agents, NEW w \in Workflows, Activate(a, w) PROVE TypeOK'
    <3>1. [pc |-> "truncate", wf |-> w,
           seen |-> [is |-> "state", sessionId |-> SessionId(a),
                     activatedAt |-> now, count |-> 0]] \in Hook
      BY SessionIdType DEF Hook, File, TypeOK
    <3>2. QED
      BY <2>1, <3>1 DEF Activate, Submit, TypeOK
  <2>2. ASSUME NEW a \in Agents, Talk(a) PROVE TypeOK'
    BY <2>2, HookMoves DEF Talk, Submit, TypeOK
  <2>3. ASSUME NEW a \in Agents, TryStop(a) PROVE TypeOK'
    BY <2>3, NoHookType DEF TryStop, TypeOK
  <2>4. ASSUME NEW a \in Agents, Truncate(a) PROVE TypeOK'
    BY <2>4, HookMoves, FileTypes, FileMoves DEF Truncate, TypeOK, Hook
  <2>5. ASSUME NEW a \in Agents, Fill(a) PROVE TypeOK'
    <3>1. hook[a].wf \in Workflows /\ hook[a].seen \in File
      BY DEF TypeOK, Hook
    <3>2. QED
      BY <2>5, <3>1, HookMoves, FileMoves DEF Fill, TypeOK
  <2>6. ASSUME NEW a \in Agents, Scan(a) PROVE TypeOK'
    <3>1. hook[a].wf \in Workflows /\ file[hook[a].wf] \in File
      BY DEF TypeOK, Hook
    <3>2. hook' \in [Agents -> Hook]
      BY <2>6, <3>1, HookMoves DEF Scan, TypeOK, Hook
    <3>3. QED
      BY <2>6, <3>2 DEF Scan, TypeOK
  <2>7. ASSUME NEW a \in Agents, Decide(a) PROVE TypeOK'
    <3>1. CASE Continue(a) \/ Goto(a, "unlink")
      BY <2>7, <3>1, HookMoves DEF Decide, TypeOK
    <3>2. CASE hook' = [hook EXCEPT ![a].pc = "reopen", ![a].seen.count = @ + 1]
      <4>1. hook[a] \in Hook /\ hook[a].seen.count + 1 \in Nat
        BY DEF TypeOK, Hook, File
      <4>2. hook' \in [Agents -> Hook]
        BY <3>2, <4>1 DEF TypeOK, Hook, File
      <4>3. QED
        BY <2>7, <4>2 DEF Decide, TypeOK
    <3>3. QED
      BY <2>7, <3>1, <3>2 DEF Decide
  <2>8. ASSUME NEW a \in Agents, Unlink(a) PROVE TypeOK'
    BY <2>8, HookMoves, FileTypes DEF Unlink, TypeOK
  <2>9. ASSUME NEW a \in Agents, Reopen(a) PROVE TypeOK'
    BY <2>9, HookMoves, FileTypes, FileMoves DEF Reopen, TypeOK, Hook
  <2>10. ASSUME NEW a \in Agents, Rewrite(a) PROVE TypeOK'
    <3>1. hook[a].wf \in Workflows /\ hook[a].seen \in File
      BY DEF TypeOK, Hook
    <3>2. QED
      BY <2>10, <3>1, HookMoves, FileMoves DEF Rewrite, TypeOK
  <2>11. ASSUME NEW a \in Agents, Block(a) PROVE TypeOK'
    BY <2>11, HookMoves, LimitsAssumption DEF Block, TypeOK, Hook
  <2>12. ASSUME NEW a \in Agents, Timeout(a) PROVE TypeOK'
    BY <2>12, HookMoves DEF Timeout, TypeOK
  <2>13. CASE Tick
    BY <2>13 DEF Tick, TypeOK
  <2>14. CASE UNCHANGED vars
    BY <2>14 DEF vars, TypeOK
  <2>15. QED
    BY <2>1, <2>2, <2>3, <2>4, <2>5, <2>6, <2>7, <2>8, <2>9, <2>10, <2>11, <2>12,
       <2>13, <2>14 DEF Next, HookStep
<1>3. QED
  BY <1>1, <1>2, PTL DEF Spec

-----------------------------------------------------------------------------
(***************************************************************************)
(* The budget of reinforcements.                                           *)
(***************************************************************************)
Own(a, w) == file[w].is = "state" /\ file[w].sessionId = a

\* The count in a session's own state file never falls behind its blocks, and
\* a hook that is about to block has counted the block, too.
FileCounts(a, w) ==
    /\ blocks[a][w] <= MaxReinforcements
    /\ Own(a, w) => blocks[a][w] <= file[w].count

HookCounts(a) ==
    LET seen == hook[a].seen
        w == hook[a].wf
    IN  /\ hook[a].pc \in PromptPcs => seen.sessionId = a
        /\ At(a, "decide") /\ seen.sessionId = a => blocks[a][w] <= seen.count
        /\ hook[a].pc \in {"reopen", "rewrite"} =>
               /\ seen.sessionId = a
               /\ blocks[a][w] < seen.count /\ seen.count <= MaxReinforcements
        /\ At(a, "rewrite") => ~Own(a, w)
        /\ At(a, "block") =>
               /\ blocks[a][w] < MaxReinforcements
               /\ Own(a, w) => blocks[a][w] < file[w].count

BudgetInv == \A a \in Agents : HookCounts(a) /\ \A w \in Workflows : FileCounts(a, w)

\* What a hook writes is a state of its own session, or nobody's.
LEMMA OnlyOwn ==
    ASSUME TypeOK, NEW a \in Agents, NEW w \in Workflows, NEW state \in File,
           state.sessionId = a, Open(a, w) \/ Write(a, w, state)
    PROVE  \A b \in Agents, u \in Workflows : Own(b, u)' =>
               \/ Own(b, u) /\ file'[u] = file[u]
               \/ b = a /\ u = w /\ file'[u] = state
<1> SUFFICES ASSUME NEW b \in Agents, NEW u \in Workflows, Own(b, u)'
             PROVE  \/ Own(b, u) /\ file'[u] = file[u]
                    \/ b = a /\ u = w /\ file'[u] = state
  OBVIOUS
<1>1. CASE u # w
  BY <1>1 DEF Open, Write, Own, TypeOK
<1>2. CASE u = w
  <2>1. file'[w] \in {file[w], state, Empty, Torn}
    BY DEF Open, Write, TypeOK
  <2>2. QED
    BY <1>2, <2>1, FileTypes DEF Own
<1>3. QED
  BY <1>1, <1>2

\* A step that disturbs no file, block or hook of another session than a's.
LEMMA OthersKeep ==
    ASSUME TypeOK, BudgetInv, NEW a \in Agents,
           \A b \in Agents : b # a => hook'[b] = hook[b] /\ blocks'[b] = blocks[b],
           \A b \in Agents, u \in Workflows :
               b # a /\ Own(b, u)' => Own(b, u) /\ file'[u] = file[u]
    PROVE  \A b \in Agents : b # a =>
               HookCounts(b)' /\ \A u \in Workflows : FileCounts(b, u)'
<1> SUFFICES ASSUME NEW b \in Agents, b # a
             PROVE  HookCounts(b)' /\ \A u \in Workflows : FileCounts(b, u)'
  OBVIOUS
<1>1. HookCounts(b) /\ \A u \in Workflows : FileCounts(b, u)
  BY DEF BudgetInv
<1>2. ASSUME NEW u \in Workflows PROVE FileCounts(b, u)'
  BY <1>1 DEF FileCounts
<1>3. hook'[b] = hook[b] /\ hook[b].wf \in Workflows
  BY DEF TypeOK, Hook
<1>4. Own(b, hook[b].wf)' => Own(b, hook[b].wf) /\ file'[hook[b].wf] = file[hook[b].wf]
  BY <1>3
<1>5. HookCounts(b)'
  BY <1>1, <1>3, <1>4 DEF HookCounts, At
<1>6. QED
  BY <1>2, <1>5

\* A step of a that changes neither a file nor a block count.
LEMMA QuietKeeps ==
    ASSUME TypeOK, BudgetInv, NEW a \in Agents, HookCounts(a)',
           \A b \in Agents : b # a => hook'[b] = hook[b],
           UNCHANGED <<file, blocks>>
    PROVE  BudgetInv'
<1>1. \A b \in Agents : b # a => HookCounts(b)' /\ \A u \in Workflows : FileCounts(b, u)'
  BY OthersKeep DEF Own
<1>2. \A u \in Workflows : FileCounts(a, u)'
  BY DEF BudgetInv, FileCounts, Own
<1>3. QED
  BY <1>1, <1>2 DEF BudgetInv

\* Leaving a hook, or going on with the next workflow, owes no count.
LEMMA MovesCount ==
    ASSUME TypeOK, NEW a \in Agents
    PROVE  /\ \A pc : hook'[a].pc = pc /\ pc \in WaitPcs \cup {"working", "scan", "unlink"}
                  => HookCounts(a)'
           /\ \A pc : Leave(a, pc) => hook'[a].pc = pc
           /\ \A pc : Goto(a, pc) => /\ hook'[a].pc = pc
                                     /\ hook'[a].wf = hook[a].wf
                                     /\ hook'[a].seen = hook[a].seen
           /\ Continue(a) => hook'[a].pc \in {"idle", "scan"}
           /\ \A pc : Leave(a, pc) \/ Goto(a, pc) \/ Continue(a)
                  => \A b \in Agents : b # a => hook'[b] = hook[b]
<1>1. \A pc : hook'[a].pc = pc /\ pc \in WaitPcs \cup {"working", "scan", "unlink"}
          => HookCounts(a)'
  BY DEF HookCounts, At, WaitPcs, PromptPcs
<1>2. \A pc : Leave(a, pc) => hook'[a].pc = pc
  BY DEF Leave, NoHook, TypeOK
<1>3. \A pc : Goto(a, pc) => /\ hook'[a].pc = pc
                            /\ hook'[a].wf = hook[a].wf
                            /\ hook'[a].seen = hook[a].seen
  BY DEF Goto, TypeOK, Hook
<1>4. Continue(a) => hook'[a].pc \in {"idle", "scan"}
  BY DEF Continue, NoHook, TypeOK
<1>5. \A pc : Leave(a, pc) \/ Goto(a, pc) \/ Continue(a)
          => \A b \in Agents : b # a => hook'[b] = hook[b]
  BY DEF Leave, Goto, Continue, TypeOK
<1>6. QED
  BY <1>1, <1>2, <1>3, <1>4, <1>5

\* What is known of a session before its step.
Known(a) ==
    /\ SessionId(a) = a
    /\ hook[a] \in Hook /\ hook[a].wf \in Workflows /\ hook[a].seen \in File
    /\ file[hook[a].wf] \in File
    /\ blocks[a][hook[a].wf] \in Nat /\ hook[a].seen.count \in Nat
    /\ HookCounts(a) /\ \A w \in Workflows : FileCounts(a, w)

LEMMA KnownFacts ==
    ASSUME Identified, TypeOK, BudgetInv, NEW a \in Agents
    PROVE  Known(a)
  BY DEF Identified, SessionId, BudgetInv, TypeOK, Hook, File, Known

LEMMA BudgetStep ==
    ASSUME Identified, TypeOK, BudgetInv, [Next]_vars
    PROVE  BudgetInv'
<1> USE DEF WaitPcs, PromptPcs, StopPcs, Known
<1>1. ASSUME NEW a \in Agents, NEW w \in Workflows, Activate(a, w) PROVE BudgetInv'
  <2>0. Known(a)
    BY KnownFacts
  <2>1. hook'[a].pc = "truncate" /\ hook'[a].seen.sessionId = a
    BY <2>0, <1>1 DEF Activate, TypeOK
  <2>2. HookCounts(a)'
    BY <2>1 DEF HookCounts, At
  <2>3. QED
    BY <1>1, <2>2, QuietKeeps DEF Activate, TypeOK
<1>2. ASSUME NEW a \in Agents, Talk(a) PROVE BudgetInv'
  BY <1>2, MovesCount, QuietKeeps DEF Talk
<1>3. ASSUME NEW a \in Agents, TryStop(a) PROVE BudgetInv'
  <2>1. hook'[a].pc = "scan"
    BY <1>3 DEF TryStop, TypeOK, NoHook
  <2>2. QED
    BY <1>3, <2>1, MovesCount, QuietKeeps DEF TryStop, TypeOK
<1>4. ASSUME NEW a \in Agents, Truncate(a) PROVE BudgetInv'
  <2>0. Known(a)
    BY KnownFacts
  <2>1. HookCounts(a)'
    BY <2>0, <1>4, MovesCount DEF Truncate, HookCounts, At, Hook
  <2>2. \A b \in Agents, u \in Workflows : Own(b, u)' => Own(b, u) /\ file'[u] = file[u]
    BY <2>0, <1>4, FileTypes DEF Truncate, Open, Own, TypeOK
  <2>3. QED
    BY <2>0, <1>4, <2>1, <2>2, MovesCount, OthersKeep DEF Truncate, BudgetInv, FileCounts
<1>5. ASSUME NEW a \in Agents, Fill(a) PROVE BudgetInv'
  <2>0. Known(a)
    BY KnownFacts
  <2> DEFINE w == hook[a].wf
  <2>1. hook[a].seen.sessionId = a /\ Write(a, w, hook[a].seen)
    BY <2>0, <1>5 DEF Fill, HookCounts, At
  <2>2. \A b \in Agents, u \in Workflows : Own(b, u)' =>
            \/ Own(b, u) /\ file'[u] = file[u]
            \/ b = a /\ u = w /\ file'[u] = hook[a].seen
    BY <2>0, <2>1, OnlyOwn
  <2>3. ASSUME NEW u \in Workflows PROVE FileCounts(a, u)'
    <3>1. CASE u = w
      <4>1. blocks'[a][u] = 0
        BY <1>5, <3>1 DEF Fill, TypeOK
      <4>2. Own(a, u)' => file'[u].count \in Nat
        BY <2>0, <2>2, <3>1 DEF TypeOK, File
      <4>3. QED
        BY <4>1, <4>2, LimitsAssumption DEF FileCounts
    <3>2. CASE u # w
      <4>1. blocks'[a][u] = blocks[a][u]
        BY <1>5, <3>2 DEF Fill, TypeOK
      <4>2. QED
        BY <2>0, <2>2, <3>2, <4>1 DEF FileCounts
    <3>3. QED
      BY <3>1, <3>2
  <2>4. \A b \in Agents : b # a => hook'[b] = hook[b] /\ blocks'[b] = blocks[b]
    BY <1>5, MovesCount DEF Fill, TypeOK
  <2>5. HookCounts(a)'
    BY <1>5, MovesCount DEF Fill
  <2>6. QED
    BY <2>2, <2>3, <2>4, <2>5, OthersKeep DEF BudgetInv
<1>6. ASSUME NEW a \in Agents, Scan(a) PROVE BudgetInv'
  <2>0. Known(a)
    BY KnownFacts
  <2>1. HookCounts(a)'
    <3>1. CASE Continue(a)
      BY <3>1, MovesCount
    <3>2. CASE /\ file[hook[a].wf].is = "state"
               /\ hook' = [hook EXCEPT ![a].pc = "decide", ![a].seen = file[hook[a].wf]]
      <4>1. /\ hook'[a].pc = "decide" /\ hook'[a].seen = file[hook[a].wf]
            /\ hook'[a].wf = hook[a].wf
        BY <2>0, <3>2 DEF TypeOK, Hook
      <4>2. QED
        BY <2>0, <1>6, <3>2, <4>1 DEF Scan, HookCounts, FileCounts, Own, At
    <3>3. QED
      BY <1>6, <3>1, <3>2 DEF Scan
  <2>2. QED
    BY <1>6, <2>1, MovesCount, QuietKeeps DEF Scan, TypeOK
<1>7. ASSUME NEW a \in Agents, Decide(a) PROVE BudgetInv'
  <2>0. Known(a)
    BY KnownFacts
  <2> DEFINE seen == hook[a].seen
  <2>1. HookCounts(a)'
    <3>1. CASE Continue(a) \/ Goto(a, "unlink")
      BY <2>0, <3>1, MovesCount DEF Hook
    <3>2. CASE /\ ~Expired(seen) /\ seen.sessionId = SessionId(a)
               /\ hook' = [hook EXCEPT ![a].pc = "reopen", ![a].seen.count = @ + 1]
      <4>1. /\ hook'[a].pc = "reopen" /\ hook'[a].wf = hook[a].wf
            /\ hook'[a].seen.count = seen.count + 1
            /\ hook'[a].seen.sessionId = seen.sessionId
        BY <2>0, <3>2 DEF TypeOK, Hook, File
      <4>2. seen.count \in Nat /\ seen.count < MaxReinforcements
        BY <2>0, <3>2, LimitsAssumption DEF Expired, File
      <4>3. blocks[a][hook[a].wf] <= seen.count /\ blocks[a][hook[a].wf] \in Nat
        BY <2>0, <1>7, <3>2 DEF Decide, HookCounts, TypeOK
      <4>4. QED
        BY <2>0, <1>7, <3>2, <4>1, <4>2, <4>3, LimitsAssumption DEF Decide, HookCounts, At
    <3>3. QED
      BY <1>7, <3>1, <3>2 DEF Decide
  <2>2. QED
    BY <1>7, <2>1, MovesCount, QuietKeeps DEF Decide, TypeOK
<1>8. ASSUME NEW a \in Agents, Unlink(a) PROVE BudgetInv'
  <2>0. Known(a)
    BY KnownFacts
  <2>1. HookCounts(a)'
    BY <1>8, MovesCount DEF Unlink
  <2>2. \A b \in Agents, u \in Workflows : Own(b, u)' => Own(b, u) /\ file'[u] = file[u]
    BY <2>0, <1>8, FileTypes DEF Unlink, Own, TypeOK
  <2>3. QED
    BY <2>0, <1>8, <2>1, <2>2, MovesCount, OthersKeep DEF Unlink, BudgetInv, FileCounts
<1>9. ASSUME NEW a \in Agents, Reopen(a) PROVE BudgetInv'
  <2>0. Known(a)
    BY KnownFacts
  <2>1. file'[hook[a].wf] = Empty
    BY <2>0, <1>9 DEF Reopen, Open, TypeOK
  <2>2. HookCounts(a)'
    BY <2>0, <1>9, <2>1, FileTypes, MovesCount DEF Reopen, HookCounts, At, Hook, Own
  <2>3. \A b \in Agents, u \in Workflows : Own(b, u)' => Own(b, u) /\ file'[u] = file[u]
    BY <2>0, <1>9, FileTypes DEF Reopen, Open, Own, TypeOK
  <2>4. QED
    BY <2>0, <1>9, <2>2, <2>3, MovesCount, OthersKeep DEF Reopen, BudgetInv, FileCounts
<1>10. ASSUME NEW a \in Agents, Rewrite(a) PROVE BudgetInv'
  <2>0. Known(a)
    BY KnownFacts
  <2> DEFINE w == hook[a].wf
             seen == hook[a].seen
  <2>1. /\ seen.sessionId = a /\ Write(a, w, seen)
        /\ blocks[a][w] < seen.count /\ seen.count <= MaxReinforcements
        /\ ~Own(a, w)
    BY <2>0, <1>10 DEF Rewrite, HookCounts, At
  <2>2. blocks[a][w] \in Nat /\ seen.count \in Nat
    BY <2>0 DEF TypeOK, File
  <2>3. \A b \in Agents, u \in Workflows : Own(b, u)' =>
            \/ Own(b, u) /\ file'[u] = file[u]
            \/ b = a /\ u = w /\ file'[u] = seen
    BY <2>0, <2>1, OnlyOwn
  <2>4. hook'[a].pc = "block" /\ hook'[a].wf = w /\ blocks' = blocks
    BY <2>0, <1>10, MovesCount DEF Rewrite, Hook
  <2>5. HookCounts(a)'
    BY <2>0, <2>1, <2>2, <2>3, <2>4, LimitsAssumption DEF HookCounts, At
  <2>6. \A u \in Workflows : FileCounts(a, u)'
    BY <2>0, <2>1, <2>2, <2>3, <2>4 DEF FileCounts
  <2>7. QED
    BY <1>10, <2>3, <2>4, <2>5, <2>6, MovesCount, OthersKeep DEF Rewrite, BudgetInv
<1>11. ASSUME NEW a \in Agents, Block(a) PROVE BudgetInv'
  <2>0. Known(a)
    BY KnownFacts
  <2> DEFINE w == hook[a].wf
  <2>1. /\ blocks[a][w] < MaxReinforcements
        /\ Own(a, w) => blocks[a][w] < file[w].count
    BY <2>0, <1>11 DEF Block, HookCounts, At
  <2>2. blocks[a][w] \in Nat /\ blocks'[a][w] = blocks[a][w] + 1 /\ file' = file
    BY <2>0, <1>11, <2>1, LimitsAssumption DEF Block, TypeOK
  <2>3. \A u \in Workflows : u # w => blocks'[a][u] = blocks[a][u]
    BY <1>11 DEF Block, TypeOK
  <2>4. \A b \in Agents : b # a => hook'[b] = hook[b] /\ blocks'[b] = blocks[b]
    BY <1>11, MovesCount DEF Block, TypeOK
  <2>5. ASSUME NEW u \in Workflows PROVE FileCounts(a, u)'
    <3>1. file[u].count \in Nat
      BY DEF TypeOK, File
    <3>2. QED
      BY <2>0, <2>1, <2>2, <2>3, <3>1, LimitsAssumption DEF FileCounts, Own
  <2>6. HookCounts(a)'
    BY <1>11, MovesCount DEF Block
  <2>7. QED
    BY <2>2, <2>4, <2>5, <2>6, OthersKeep DEF BudgetInv, Own
<1>12. ASSUME NEW a \in Agents, Timeout(a) PROVE BudgetInv'
  <2>1. HookCounts(a)'
    BY <1>12, MovesCount DEF Timeout
  <2>2. QED
    BY <1>12, <2>1, MovesCount, QuietKeeps DEF Timeout
<1>13. CASE Tick
  BY <1>13 DEF Tick, BudgetInv, HookCounts, FileCounts, Own, At
<1>14. CASE UNCHANGED vars
  BY <1>14 DEF vars, BudgetInv, HookCounts, FileCounts, Own, At
<1>15. QED
  BY <1>1, <1>2, <1>3, <1>4, <1>5, <1>6, <1>7, <1>8, <1>9, <1>10, <1>11, <1>12,
     <1>13, <1>14 DEF Next, HookStep

LEMMA InitBudget == Init => BudgetInv
<1>1. ASSUME Init PROVE BudgetInv
  <2>1. ASSUME NEW a \in Agents PROVE HookCounts(a)
    BY <1>1, <2>1 DEF Init, HookCounts, At, NoHook, PromptPcs
  <2>2. ASSUME NEW a \in Agents, NEW w \in Workflows PROVE FileCounts(a, w)
    BY <1>1, <2>2, FileTypes, LimitsAssumption DEF Init, FileCounts, Own
  <2>3. QED
    BY <2>1, <2>2 DEF BudgetInv
<1>2. QED
  BY <1>1

(***************************************************************************)
(* When every session has an id of its own, no workflow keeps a session    *)
(* from stopping more than MAX_REINFORCEMENTS times, however the hooks of  *)
(* any number of sessions interleave on the state files.                   *)
(***************************************************************************)
THEOREM NoFreshBudget ==
    ASSUME Identified
    PROVE  Spec => []BlocksBounded
<1>1. Init => BudgetInv
  BY InitBudget
<1>2. TypeOK /\ BudgetInv /\ [Next]_vars => BudgetInv'
  BY BudgetStep
<1>3. BudgetInv => BlocksBounded
  BY DEF BudgetInv, FileCounts, BlocksBounded
<1>4. QED
  BY <1>1, <1>2, <1>3, ModeTypeCorrect, PTL DEF Spec

-----------------------------------------------------------------------------
(***************************************************************************)
(* The gate.                                                               *)
(***************************************************************************)

\* The workflows that the Stop hook has left behind stay inactive.
GateInv ==
    \A a \in Agents : hook[a].pc \in StopPcs =>
        \A w \in Workflows : w < hook[a].wf => ~Active(a, w)

\* Only a session's own prompt and Stop hook make one of its states active.
LEMMA OthersActivateNothing ==
    ASSUME Identified, TypeOK, BudgetInv, NEW a \in Agents, NEW b \in Agents, a # b,
           (\E v \in Workflows : Activate(b, v)) \/ Talk(b) \/ TryStop(b) \/ HookStep(b) \/ Timeout(b),
           NEW w \in Workflows, Active(a, w)'
    PROVE  Active(a, w)
<1>1. Own(a, w)' => Own(a, w) /\ file'[w] = file[w]
  <2>0. Known(b)
    BY KnownFacts
  <2>1. CASE UNCHANGED file
    BY <2>1 DEF Own
  <2>2. CASE Open(b, hook[b].wf)
    BY <2>2, FileTypes DEF Open, Own, TypeOK
  <2>3. CASE Write(b, hook[b].wf, hook[b].seen) /\ hook[b].seen.sessionId = b
    BY <2>0, <2>3, OnlyOwn DEF Known
  <2>4. CASE file' = [file EXCEPT ![hook[b].wf] = Absent]
    BY <2>4, FileTypes DEF Own, TypeOK
  <2>5. QED
    BY <2>0, <2>1, <2>2, <2>3, <2>4
       DEF Activate, Talk, TryStop, HookStep, Timeout, Truncate, Fill, Scan, Decide,
           Unlink, Reopen, Rewrite, Block, Known, HookCounts, At, PromptPcs
<1>2. now' = now
  BY DEF Activate, Talk, TryStop, HookStep, Timeout, Submit, Truncate, Fill, Scan, Decide,
         Unlink, Reopen, Rewrite, Block
<1>3. QED
  BY <1>1, <1>2 DEF Active, Own, Expired, Stale, SessionId, Identified

\* A step of its Stop hook leaves the files of the other workflows alone, and
\* goes on with the next workflow only if this one is not active.
LEMMA StopStep ==
    ASSUME TypeOK, NEW a \in Agents, hook[a].pc \in StopPcs, HookStep(a) \/ Timeout(a)
    PROVE  /\ now' = now
           /\ \A w \in Workflows : w # hook[a].wf => file'[w] = file[w]
           /\ \/ hook'[a].pc \notin StopPcs \cup {"idle"}
              \/ hook'[a].wf = hook[a].wf /\ hook'[a].pc \in StopPcs
              \/ /\ Continue(a)
                 /\ file'[hook[a].wf].is # "state"
<1> USE DEF StopPcs, PromptPcs, WaitPcs
<1>0. hook[a] \in Hook /\ hook[a].wf \in Workflows
  BY DEF TypeOK, Hook
<1>1. CASE Scan(a)
  BY <1>0, <1>1 DEF Scan, At, TypeOK, Hook
<1>2. CASE Decide(a)
  <2>1. CASE hook' = [hook EXCEPT ![a].pc = "reopen", ![a].seen.count = @ + 1]
    BY <1>0, <1>2, <2>1 DEF Decide, TypeOK, Hook, File
  <2>2. CASE file[hook[a].wf].is = "absent" /\ Continue(a)
    BY <1>2, <2>2 DEF Decide
  <2>3. CASE Goto(a, "unlink")
    BY <1>2, <2>3, MovesCount DEF Decide
  <2>4. QED
    BY <1>2, <2>1, <2>2, <2>3 DEF Decide
<1>3. CASE Unlink(a)
  BY <1>0, <1>3, FileTypes, MovesCount DEF Unlink, TypeOK
<1>4. CASE Reopen(a) \/ Rewrite(a)
  <2>1. hook'[a].wf = hook[a].wf /\ hook'[a].pc \in StopPcs /\ now' = now
    BY <1>4, MovesCount DEF Reopen, Rewrite
  <2>2. \A w \in Workflows : w # hook[a].wf => file'[w] = file[w]
    BY <1>0, <1>4 DEF Reopen, Rewrite, Open, Write, TypeOK
  <2>3. QED
    BY <2>1, <2>2
<1>5. CASE Block(a)
  BY <1>5, MovesCount DEF Block
<1>6. CASE Timeout(a)
  BY <1>6, MovesCount DEF Timeout
<1>7. QED
  BY <1>1, <1>2, <1>3, <1>4, <1>5, <1>6 DEF HookStep, Truncate, Fill, At

\* What a step of a session's own Stop hook does to the gate.
LEMMA OwnGate ==
    ASSUME Identified, TypeOK, GateInv, NEW a \in Agents, hook[a].pc \in StopPcs,
           HookStep(a) \/ Timeout(a)
    PROVE  /\ hook'[a].pc \in StopPcs =>
                  \A w \in Workflows : w < hook'[a].wf => ~Active(a, w)'
           /\ At(a, "idle")' => \A w \in Workflows : ~Active(a, w)'
<1> USE DEF StopPcs
<1>0. hook[a].wf \in Workflows /\ \A w \in Workflows : w < hook[a].wf => ~Active(a, w)
  BY DEF TypeOK, Hook, GateInv
<1>1. \A w \in Workflows : w < hook[a].wf => ~Active(a, w)'
  BY <1>0, StopStep DEF Active, Expired, Stale, Workflows
<1>2. CASE hook'[a].pc \notin StopPcs \cup {"idle"}
  BY <1>2 DEF At
<1>3. CASE hook'[a].wf = hook[a].wf /\ hook'[a].pc \in StopPcs
  BY <1>1, <1>3 DEF At
<1>4. CASE Continue(a) /\ file'[hook[a].wf].is # "state"
  <2>1. \A w \in Workflows : w <= hook[a].wf => ~Active(a, w)'
    BY <1>0, <1>1, <1>4 DEF Active, Workflows
  <2>2. CASE hook[a].wf < NumWorkflows
    <3>1. hook'[a].pc = "scan" /\ hook'[a].wf = hook[a].wf + 1
      BY <1>4, <2>2 DEF Continue, TypeOK
    <3>2. QED
      BY <1>0, <2>1, <3>1, LimitsAssumption DEF Workflows, At
  <2>3. CASE ~(hook[a].wf < NumWorkflows)
    <3>1. hook'[a].pc = "idle"
      BY <1>4, <2>3 DEF Continue, NoHook, TypeOK
    <3>2. QED
      BY <1>0, <2>1, <2>3, <3>1, LimitsAssumption DEF Workflows
  <2>4. QED
    BY <2>2, <2>3
<1>5. QED
  BY <1>2, <1>3, <1>4, StopStep

\* A transition of one session.
SessionStep(a) ==
    \/ \E w \in Workflows : Activate(a, w)
    \/ Talk(a) \/ TryStop(a) \/ HookStep(a) \/ Timeout(a)

GatedExit ==
    \A a \in Agents : hook[a].pc \in StopPcs /\ At(a, "idle")'
        => \A w \in Workflows : ~Active(a, w)'

LEMMA SessionGate ==
    ASSUME Identified, TypeOK, BudgetInv, GateInv, NEW b \in Agents, SessionStep(b)
    PROVE  GateInv' /\ GatedExit
<1> USE DEF StopPcs
<1>1. \A a \in Agents : a # b => hook'[a] = hook[a]
  BY MovesCount
     DEF SessionStep, Activate, Talk, TryStop, HookStep, Timeout, Truncate, Fill, Scan,
         Decide, Unlink, Reopen, Rewrite, Block, TypeOK
<1>2. ASSUME NEW a \in Agents, a # b, hook'[a].pc \in StopPcs, NEW w \in Workflows,
             w < hook'[a].wf
      PROVE  ~Active(a, w)'
  BY <1>1, <1>2, OthersActivateNothing DEF SessionStep, GateInv
<1>3. ASSUME hook[b].pc \in StopPcs
      PROVE  /\ hook'[b].pc \in StopPcs =>
                    \A w \in Workflows : w < hook'[b].wf => ~Active(b, w)'
             /\ At(b, "idle")' => \A w \in Workflows : ~Active(b, w)'
  <2>1. HookStep(b) \/ Timeout(b)
    BY <1>3 DEF SessionStep, Activate, Talk, TryStop, Submit, At, WaitPcs
  <2>2. QED
    BY <1>3, <2>1, OwnGate
<1>4. ASSUME hook[b].pc \notin StopPcs, hook'[b].pc \in StopPcs
      PROVE  hook'[b].wf = 1
  <2>1. CASE TryStop(b)
    BY <2>1 DEF TryStop, NoHook, TypeOK
  <2>2. CASE (\E w \in Workflows : Activate(b, w)) \/ Talk(b) \/ Fill(b) \/ Truncate(b) \/ Timeout(b)
    BY <1>4, <2>2, MovesCount
       DEF Activate, Talk, Fill, Truncate, Timeout, PromptPcs, WaitPcs, TypeOK
  <2>3. QED
    BY <1>4, <2>1, <2>2
       DEF SessionStep, HookStep, Scan, Decide, Unlink, Reopen, Rewrite, Block, At
<1>5. GateInv'
  BY <1>2, <1>3, <1>4 DEF GateInv, Workflows
<1>6. GatedExit
  BY <1>1, <1>3 DEF GatedExit, At
<1>7. QED
  BY <1>5, <1>6

LEMMA GateStep ==
    ASSUME Identified, TypeOK, BudgetInv, GateInv, [Next]_vars
    PROVE  GateInv' /\ [GatedExit]_vars
<1>1. ASSUME NEW b \in Agents, SessionStep(b) PROVE GateInv' /\ [GatedExit]_vars
  BY <1>1, SessionGate
<1>2. CASE Tick
  <2>1. \A a \in Agents, w \in Workflows : Active(a, w)' => Active(a, w)
    BY <1>2, LimitsAssumption DEF Tick, Active, Expired, Stale, TypeOK, File
  <2>2. GateInv'
    BY <1>2, <2>1 DEF Tick, GateInv
  <2>3. GatedExit
    BY <1>2 DEF Tick, GatedExit, At, StopPcs
  <2>4. QED
    BY <2>2, <2>3
<1>3. CASE UNCHANGED vars
  BY <1>3 DEF vars, GateInv, Active, Expired, Stale
<1>4. QED
  BY <1>1, <1>2, <1>3 DEF Next, SessionStep

(***************************************************************************)
(* When every session has an id of its own, a Stop hook that runs to its   *)
(* end lets the agent stop only if nothing is active for its session at    *)
(* that moment, whatever time and other sessions did while it ran.         *)
(***************************************************************************)
THEOREM ExitsAreGated ==
    ASSUME Identified
    PROVE  Spec => StopGated
<1>1. Init => BudgetInv /\ GateInv
  BY InitBudget DEF Init, GateInv, NoHook, StopPcs
<1>2. TypeOK /\ BudgetInv /\ GateInv /\ [Next]_vars
          => BudgetInv' /\ GateInv' /\ [GatedExit]_vars
  BY BudgetStep, GateStep
<1>3. QED
  BY <1>1, <1>2, ModeTypeCorrect, PTL DEF Spec, StopGated, GatedExit

=============================================================================
