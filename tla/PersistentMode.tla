--------------------------- MODULE PersistentMode ---------------------------
(***************************************************************************)
(* The hooks of the agent sessions of one project: keyword-detector.ts, run *)
(* on every prompt, switches a long-running workflow on by writing         *)
(* .agents/state/<workflow>-state.json; persistent-mode.ts, run whenever   *)
(* an agent wants to stop, reads these files and lets it stop or makes it  *)
(* go on.  Every session's hooks work on the same files, without locks; a  *)
(* step is one file-system call.  writeFileSync is two of them: it opens   *)
(* the file, which empties it, and fills it; what is written to a file     *)
(* that was unlinked in between is lost.                                   *)
(***************************************************************************)
EXTENDS Naturals

CONSTANTS
    Agents,             \* agent sessions
    Anonymous,          \* sessions whose hook input has no session id
    Unknown,            \* "unknown", the id of all of these
    NoId,               \* no id
    NumWorkflows,       \* PERSISTENT_WORKFLOWS (3), numbered in loop order
    MaxReinforcements,  \* MAX_REINFORCEMENTS (20)
    StaleHours,         \* STALE_HOURS (2)
    MaxTime,            \* bound: hours
    MaxPrompts          \* bound: prompts

ASSUME IdsAssumption ==
    Anonymous \subseteq Agents /\ Unknown \notin Agents
    /\ NoId \notin Agents \cup {Unknown}
ASSUME LimitsAssumption ==
    /\ NumWorkflows \in Nat \ {0} /\ MaxReinforcements \in Nat
    /\ StaleHours \in Nat /\ MaxTime \in Nat /\ MaxPrompts \in Nat

VARIABLES
    file,     \* <workflow>-state.json
    writers,  \* the sessions that have it open for writing
    now,      \* the hour
    hook,     \* where each session is, and what its hook holds
    prompts,  \* prompts so far
    blocks    \* history: how often a workflow kept a session from stopping
              \* since the session switched the workflow on (bound: counted
              \* up to one more than MaxReinforcements)

vars == <<file, writers, now, hook, prompts, blocks>>

Workflows == 1 .. NumWorkflows
Ids == Agents \cup {Unknown}

\* getSessionId
SessionId(a) == IF a \in Anonymous THEN Unknown ELSE a

(***************************************************************************)
(* A state file is absent, holds a ModeState, or is one that JSON.parse    *)
(* throws on: empty, or torn (a ModeState and the end of a longer one).    *)
(***************************************************************************)
File == [is : {"absent", "empty", "torn", "state"}, sessionId : Ids \cup {NoId},
         activatedAt : Nat, count : Nat]

NoState(is) == [is |-> is, sessionId |-> NoId, activatedAt |-> 0, count |-> 0]
Absent == NoState("absent")
Empty == NoState("empty")
Torn == NoState("torn")

Stale(s) == now > s.activatedAt + StaleHours
\* (a faulty variant: one reinforcement too many)
FaultyExpired(s) == Stale(s) \/ s.count > MaxReinforcements
Expired(s) == Stale(s) \/ s.count >= MaxReinforcements

\* What the Stop hook of a would block on.
Active(a, w) ==
    /\ file[w].is = "state"
    /\ file[w].sessionId = SessionId(a)
    /\ ~Expired(file[w])

(***************************************************************************)
(* Control: a session waits for its user (its last stop was allowed by the *)
(* hook's exit 0, "threw" when an exception was behind it, or "cut" when   *)
(* the hook ran into its timeout), works, or is inside one of its hooks.   *)
(***************************************************************************)
WaitPcs == {"idle", "threw", "cut"}
PromptPcs == {"truncate", "fill"}
StopPcs == {"scan", "decide", "unlink", "reopen", "rewrite", "block"}

Hook == [pc : WaitPcs \cup {"working"} \cup PromptPcs \cup StopPcs,
         wf : Workflows, seen : File]

At(a, pc) == hook[a].pc = pc
Goto(a, pc) == hook' = [hook EXCEPT ![a].pc = pc]

NoHook(pc) == [pc |-> pc, wf |-> 1, seen |-> Absent]
Leave(a, pc) == hook' = [hook EXCEPT ![a] = NoHook(pc)]  \* the hook exits

Init ==
    /\ file = [w \in Workflows |-> Absent]
    /\ writers = [w \in Workflows |-> {}]
    /\ now = 0
    /\ hook = [a \in Agents |-> NoHook("idle")]
    /\ prompts = 0
    /\ blocks = [a \in Agents |-> [w \in Workflows |-> 0]]

\* The two halves of writeFileSync(<w>-state.json, state).  A file that another
\* session has written to since it was emptied is overwritten from its start.
Open(a, w) ==
    /\ file' = [file EXCEPT ![w] = Empty]
    /\ writers' = [writers EXCEPT ![w] = @ \cup {a}]

Write(a, w, state) ==
    /\ writers' = [writers EXCEPT ![w] = @ \ {a}]
    /\ \/ a \notin writers[w] /\ UNCHANGED file
       \/ a \in writers[w] /\ file' = [file EXCEPT ![w] = state]
       \/ a \in writers[w] /\ file[w] # Empty /\ file' = [file EXCEPT ![w] = Torn]

-----------------------------------------------------------------------------
(***************************************************************************)
(* keyword-detector.ts                                                     *)
(***************************************************************************)
Submit(a) ==
    /\ hook[a].pc \in WaitPcs \cup {"working"}
    /\ prompts < MaxPrompts /\ prompts' = prompts + 1

\* A prompt that names workflow w outside an informational context.
Activate(a, w) ==
    /\ Submit(a)
    /\ hook' = [hook EXCEPT ![a] =
           [pc |-> "truncate", wf |-> w,
            seen |-> [is |-> "state", sessionId |-> SessionId(a),
                      activatedAt |-> now, count |-> 0]]]
    /\ UNCHANGED <<file, writers, now, blocks>>

\* Any other prompt, "workflow done" among them, changes nothing.
Talk(a) ==
    /\ Submit(a)
    /\ Leave(a, "working")
    /\ UNCHANGED <<file, writers, now, blocks>>

Truncate(a) ==
    /\ At(a, "truncate") /\ Goto(a, "fill")
    /\ Open(a, hook[a].wf)
    /\ UNCHANGED <<now, prompts, blocks>>

Fill(a) ==
    /\ At(a, "fill") /\ Leave(a, "working")
    /\ Write(a, hook[a].wf, hook[a].seen)
    /\ blocks' = [blocks EXCEPT ![a][hook[a].wf] = 0]
    /\ UNCHANGED <<now, prompts>>

-----------------------------------------------------------------------------
(***************************************************************************)
(* persistent-mode.ts                                                      *)
(***************************************************************************)

\* (a faulty variant: the loop runs past the last workflow)
FaultyContinue(a) ==
    hook' = [hook EXCEPT ![a] =
        IF @.wf <= NumWorkflows
        THEN [pc |-> "scan", wf |-> @.wf + 1, seen |-> Absent] ELSE NoHook("idle")]

\* the next workflow, or exit 0
Continue(a) ==
    hook' = [hook EXCEPT ![a] =
        IF @.wf < NumWorkflows
        THEN [pc |-> "scan", wf |-> @.wf + 1, seen |-> Absent] ELSE NoHook("idle")]

TryStop(a) ==
    /\ At(a, "working")
    /\ hook' = [hook EXCEPT ![a] = NoHook("scan")]
    /\ UNCHANGED <<file, writers, now, prompts, blocks>>

\* readModeState: null for a file that is absent or torn
Scan(a) ==
    LET f == file[hook[a].wf] IN
    /\ At(a, "scan")
    /\ \/ f.is # "state" /\ Continue(a)
       \/ f.is = "state" /\ hook' = [hook EXCEPT ![a].pc = "decide", ![a].seen = f]
    /\ UNCHANGED <<file, writers, now, prompts, blocks>>

\* (a faulty variant: the reinforcement is not counted)
FaultyDecide(a) ==
    LET seen == hook[a].seen IN
    /\ At(a, "decide")
    /\ IF Expired(seen) \/ seen.sessionId # SessionId(a)
       THEN IF file[hook[a].wf].is = "absent" THEN Continue(a) ELSE Goto(a, "unlink")
       ELSE Goto(a, "reopen")
    /\ UNCHANGED <<file, writers, now, prompts, blocks>>

\* Expired and other sessions' states are deactivated (existsSync here, the
\* unlink next); its own makes the hook count one more reinforcement.
Decide(a) ==
    LET seen == hook[a].seen IN
    /\ At(a, "decide")
    /\ \/ /\ Expired(seen) \/ seen.sessionId # SessionId(a)
          /\ IF file[hook[a].wf].is = "absent" THEN Continue(a) ELSE Goto(a, "unlink")
       \/ /\ ~Expired(seen) /\ seen.sessionId = SessionId(a)
          /\ hook' = [hook EXCEPT ![a].pc = "reopen", ![a].seen.count = @ + 1]
    /\ UNCHANGED <<file, writers, now, prompts, blocks>>

\* (a faulty variant: the hook exits once it has deactivated a workflow)
FaultyUnlink(a) ==
    /\ At(a, "unlink") /\ Leave(a, "idle")
    /\ file' = [file EXCEPT ![hook[a].wf] = Absent]
    /\ writers' = [writers EXCEPT ![hook[a].wf] = {}]
    /\ UNCHANGED <<now, prompts, blocks>>

\* unlinkSync throws if the file has gone meanwhile: main().catch, exit 0
Unlink(a) ==
    /\ At(a, "unlink")
    /\ \/ /\ file[hook[a].wf].is = "absent"
          /\ Leave(a, "threw") /\ UNCHANGED <<file, writers>>
       \/ /\ file[hook[a].wf].is # "absent"
          /\ Continue(a)
          /\ file' = [file EXCEPT ![hook[a].wf] = Absent]
          /\ writers' = [writers EXCEPT ![hook[a].wf] = {}]
    /\ UNCHANGED <<now, prompts, blocks>>

\* incrementReinforcement writes back the state the hook read earlier.
Reopen(a) ==
    /\ At(a, "reopen") /\ Goto(a, "rewrite")
    /\ Open(a, hook[a].wf)
    /\ UNCHANGED <<now, prompts, blocks>>

Rewrite(a) ==
    /\ At(a, "rewrite") /\ Goto(a, "block")
    /\ Write(a, hook[a].wf, hook[a].seen)
    /\ UNCHANGED <<now, prompts, blocks>>

\* decision "block", exit 2
Block(a) ==
    /\ At(a, "block") /\ Leave(a, "working")
    /\ blocks' = [blocks EXCEPT ![a][hook[a].wf] =
                     IF @ > MaxReinforcements THEN @ ELSE @ + 1]
    /\ UNCHANGED <<file, writers, now, prompts>>

-----------------------------------------------------------------------------
\* The session ends a hook that takes longer than its 5 seconds.
Timeout(a) ==
    /\ hook[a].pc \in PromptPcs \cup StopPcs
    /\ Leave(a, IF hook[a].pc \in PromptPcs THEN "working" ELSE "cut")
    /\ writers' = [w \in Workflows |-> writers[w] \ {a}]
    /\ UNCHANGED <<file, now, prompts, blocks>>

Tick ==
    /\ now < MaxTime /\ now' = now + 1
    /\ UNCHANGED <<file, writers, hook, prompts, blocks>>

HookStep(a) ==
    \/ Truncate(a) \/ Fill(a)
    \/ Scan(a) \/ Decide(a) \/ Unlink(a) \/ Reopen(a) \/ Rewrite(a) \/ Block(a)

Next ==
    \/ \E a \in Agents :
          \/ \E w \in Workflows : Activate(a, w)
          \/ Talk(a) \/ TryStop(a) \/ HookStep(a) \/ Timeout(a)
    \/ Tick

Spec == Init /\ [][Next]_vars

\* An agent comes to the end of what it does, and a hook to its exit.
FairSpec == Spec /\ \A a \in Agents : WF_vars(TryStop(a) \/ HookStep(a))

-----------------------------------------------------------------------------
TypeOK ==
    /\ file \in [Workflows -> File]
    /\ writers \in [Workflows -> SUBSET Agents]
    /\ now \in Nat
    /\ hook \in [Agents -> Hook]
    /\ prompts \in Nat
    /\ blocks \in [Agents -> [Workflows -> Nat]]

\* Every session has an id of its own.
Identified == Anonymous = {}

(***************************************************************************)
(* A workflow keeps the session that switched it on from stopping at most  *)
(* MAX_REINFORCEMENTS times, whatever other sessions do to its file: no    *)
(* write-back of an older state hands the session a fresh budget.          *)
(***************************************************************************)
BlocksBounded ==
    \A a \in Agents, w \in Workflows : blocks[a][w] <= MaxReinforcements

(***************************************************************************)
(* A Stop hook that runs to its end lets the agent stop only if no state   *)
(* file is active for the session, at that moment, for any workflow: those *)
(* it looked at first included, and those that time or other sessions have *)
(* changed since it looked.  An exception or the timeout also ends a hook, *)
(* and then lets the agent stop whatever is active.                        *)
(***************************************************************************)
StopGated ==
    [][\A a \in Agents : hook[a].pc \in StopPcs /\ At(a, "idle")'
           => \A w \in Workflows : ~Active(a, w)']_vars

(***************************************************************************)
(* No session is kept working for ever: prompts apart, one that works will *)
(* wait for its user again.                                                *)
(***************************************************************************)
StopsEventually ==
    \A a \in Agents : At(a, "working") ~> hook[a].pc \in WaitPcs

\* What the hook says of itself (see the README for what the run of this shows):
\* "Prevents the agent from stopping while a long-running workflow is active"
\* (lines 7-8): the Stop hook of one session leaves active what is active for
\* another.
StopHookSparesOthers ==
    [][\A a, b \in Agents, w \in Workflows :
           a # b /\ hook[b].pc \in StopPcs /\ hook'[b] # hook[b] /\ Active(a, w)
               => Active(a, w)']_vars

=============================================================================
