---------------------------- MODULE TriggerEval ----------------------------
(***************************************************************************)
(* run_eval.py of the skill-creator: does an agent that is given a query   *)
(* call the skill under test?  A pool of workers runs every query several  *)
(* times.  A run puts its own copy of the skill (the command file          *)
(* <skill>-skill-<unique id>.md) into the .claude/commands directory of    *)
(* the project, which all the runs share, starts an agent there and reads  *)
(* the events that the agent writes, until one of them tells whether the   *)
(* agent calls the run's copy.  The main process counts the answers.       *)
(*                                                                         *)
(* The agent (the claude command) is external: it writes any sequence of   *)
(* events that its stream format allows, ends or fails at any moment, or   *)
(* falls silent for ever.                                                  *)
(***************************************************************************)
EXTENDS Naturals, Sequences, FiniteSets

CONSTANTS
    Queries,         \* the eval set; its queries are distinct
    ShouldTrigger,   \* those that are to trigger the skill
    RunsPerQuery,    \* runs_per_query
    NumWorkers,      \* num_workers
    ThresholdNum,    \* trigger_threshold, a fraction
    ThresholdDen,
    OtherTools,      \* what an agent may call besides Skill and Read
    NoCopy,          \* the target of a call that names no copy of the skill
    PipeCap,         \* bound: events in a pipe
    MaxCalls         \* bound: calls in a message

ASSUME EvalSetAssumption == IsFiniteSet(Queries) /\ ShouldTrigger \subseteq Queries
ASSUME NumbersAssumption ==
    /\ RunsPerQuery \in Nat \ {0} /\ NumWorkers \in Nat \ {0}
    /\ ThresholdNum \in Nat /\ ThresholdDen \in Nat \ {0}
    /\ PipeCap \in Nat \ {0} /\ MaxCalls \in Nat

\* (what is no tool call in a message is a block of text)
ASSUME OtherToolsAssumption == "text" \notin OtherTools

Runs == Queries \X (1 .. RunsPerQuery)
ASSUME NoCopyAssumption == NoCopy \notin Runs

VARIABLES
    pc,       \* where each run of run_single_query is
    files,    \* the copies in .claude/commands
    agent,    \* the agent of each run
    pipe,     \* what each agent has written and its run has not read
    buffer,   \* what each run has read and not looked at
    parser,   \* what each run has made of the events so far
    answer,   \* what each run returns, and what made it return
    tally,    \* query_triggers: for each query, the answers and the yeses
    report    \* the queries that pass, once they are known

vars == <<pc, files, agent, pipe, buffer, parser, answer, tally, report>>
results == <<tally, report>>

TriggerTools == {"Skill", "Read"}
Tools == TriggerTools \cup OtherTools

(***************************************************************************)
(* Events.  The name of a copy reaches its reader in two pieces.           *)
(***************************************************************************)
Targets == Runs \cup {NoCopy}
Call == [tool : Tools, copy : Targets]
Piece == Targets \X {1, 2}
Pieces(copy) == <<<<copy, 1>>, <<copy, 2>>>>

Start(tool) == [type |-> "block_start", tool |-> tool]   \* a tool, or "text"
Delta(piece) == [type |-> "delta", piece |-> piece]
Assistant(calls) == [type |-> "assistant", calls |-> calls]
Plain(type) == [type |-> type]

Event ==
    {Start(tool) : tool \in Tools \cup {"text"}} \cup {Delta(p) : p \in Piece}
    \cup {Assistant(calls) : calls \in UNION {[1 .. n -> Call] : n \in 0 .. MaxCalls}}
    \cup {Plain("block_stop"), Plain("message_stop"), Plain("result")}

-----------------------------------------------------------------------------
(***************************************************************************)
(* The agent.  With partial messages it writes the parts of a message      *)
(* before the message as a whole, without them only the latter.            *)
(***************************************************************************)
LiveStages == {"booting", "message", "text", "input", "stopped", "spoken", "finished"}
Agent == [stage : LiveStages \cup {"none", "exited"}, partial : BOOLEAN,
          calls : UNION {[1 .. n -> Call] : n \in 0 .. MaxCalls},
          left : UNION {[1 .. n -> Piece] : n \in 0 .. 2}]

NoAgent(stage) == [stage |-> stage, partial |-> FALSE,
                   calls |-> <<>>, left |-> <<>>]
Live(r) == agent[r].stage \in LiveStages
Stage(r, stage) == agent[r].stage = stage
EnterStage(r, stage) == agent' = [agent EXCEPT ![r].stage = stage]

Emit(r, event) ==
    /\ Len(pipe[r]) < PipeCap
    /\ pipe' = [pipe EXCEPT ![r] = Append(@, event)]

Boot(r) ==
    /\ Stage(r, "booting")
    /\ \E partial \in BOOLEAN :
          agent' = [agent EXCEPT ![r].stage = "message", ![r].partial = partial]
    /\ UNCHANGED pipe

\* Text before the calls; a message of its own, without partial messages.
Talk(r) ==
    /\ Stage(r, "message") /\ agent[r].calls = <<>>
    /\ \/ agent[r].partial /\ Emit(r, Start("text")) /\ EnterStage(r, "text")
       \/ ~agent[r].partial /\ Emit(r, Assistant(<<>>)) /\ UNCHANGED agent

EndTalk(r) ==
    /\ Stage(r, "text")
    /\ Emit(r, Plain("block_stop")) /\ EnterStage(r, "message")

\* The agent calls a tool on its run's copy, on one that it has seen of another
\* run (all bear the same description), or on something else.
MakeCall(r, c) ==
    /\ Stage(r, "message") /\ Len(agent[r].calls) < MaxCalls
    /\ IF agent[r].partial
       THEN /\ Emit(r, Start(c.tool))
            /\ agent' = [agent EXCEPT ![r].stage = "input",
                                      ![r].calls = Append(@, c),
                                      ![r].left = Pieces(c.copy)]
       ELSE /\ agent' = [agent EXCEPT ![r].calls = Append(@, c)]
            /\ UNCHANGED pipe

Input(r) ==
    /\ Stage(r, "input")
    /\ \/ /\ agent[r].left # <<>>
          /\ Emit(r, Delta(Head(agent[r].left)))
          /\ agent' = [agent EXCEPT ![r].left = Tail(@)]
       \/ /\ agent[r].left = <<>>
          /\ Emit(r, Plain("block_stop"))
          /\ EnterStage(r, "message")

EndMessage(r) ==
    /\ Stage(r, "message") /\ EnterStage(r, "stopped")
    /\ IF agent[r].partial THEN Emit(r, Plain("message_stop")) ELSE UNCHANGED pipe

Say(r) ==
    /\ Stage(r, "stopped")
    /\ Emit(r, Assistant(agent[r].calls)) /\ EnterStage(r, "spoken")

GiveResult(r) ==
    /\ Stage(r, "spoken")
    /\ Emit(r, Plain("result")) /\ EnterStage(r, "finished")

Exit(r) == Live(r) /\ EnterStage(r, "exited") /\ UNCHANGED pipe

\* (what it does when its run has its answer, nobody reads)
AgentStep(r) ==
    /\ pc[r] \in {"poll", "select"}
    /\ \/ Boot(r) \/ Talk(r) \/ EndTalk(r) \/ (\E c \in Call : MakeCall(r, c))
       \/ Input(r) \/ EndMessage(r) \/ Say(r) \/ GiveResult(r) \/ Exit(r)
    /\ UNCHANGED <<pc, files, buffer, parser, answer, results>>

-----------------------------------------------------------------------------
(***************************************************************************)
(* The reader of the events: pending_tool_name, accumulated_json (the      *)
(* pieces of names in it), and the value returned, if any yet.             *)
(***************************************************************************)
Parser == [pending : {"none"} \cup TriggerTools, heard : Seq(Piece),
           returns : {"none", "yes", "no"}]
NewParser == [pending |-> "none", heard |-> <<>>, returns |-> "none"]

Returning(st, yes) == [st EXCEPT !.returns = IF yes THEN "yes" ELSE "no"]

\* clean_name in accumulated_json
Names(json, r) ==
    \E i \in 1 .. Len(json) - 1 : json[i] = <<r, 1>> /\ json[i + 1] = <<r, 2>>

OnStart(st, e) ==
    IF e.tool = "text" THEN st
    ELSE IF e.tool \in TriggerTools
    THEN [st EXCEPT !.pending = e.tool, !.heard = <<>>]
    ELSE Returning(st, FALSE)

\* (a faulty variant: looks for the name in one delta at a time)
FaultyOnDelta(r, st, e) ==
    IF st.pending # "none" /\ Names(<<e.piece>>, r) THEN Returning(st, TRUE) ELSE st
OnDelta(r, st, e) ==
    LET json == Append(st.heard, e.piece)
    IN  IF st.pending = "none" THEN st
        ELSE IF Names(json, r) THEN Returning(st, TRUE)
        ELSE [st EXCEPT !.heard = json]

OnStop(r, st, e) ==
    IF st.pending # "none" THEN Returning(st, Names(st.heard, r))
    ELSE IF e.type = "message_stop" THEN Returning(st, FALSE)
    ELSE st

\* The fallback, a whole message: the first tool that it calls decides.
CallsOwn(calls, r) == calls[1].tool \in TriggerTools /\ calls[1].copy = r
OnMessage(r, st, e) ==
    IF e.calls = <<>> THEN st ELSE Returning(st, CallsOwn(e.calls, r))

OnEvent(r, st, e) ==
    IF st.returns # "none" THEN st
    ELSE CASE e.type = "block_start" -> OnStart(st, e)
           [] e.type = "delta" -> OnDelta(r, st, e)
           [] e.type \in {"block_stop", "message_stop"} -> OnStop(r, st, e)
           [] e.type = "assistant" -> OnMessage(r, st, e)
           [] e.type = "result" -> Returning(st, FALSE)

OnEvents(r, st, events) ==
    LET read[n \in 0 .. Len(events)] ==
            IF n = 0 THEN st ELSE OnEvent(r, read[n - 1], events[n])
    IN  read[Len(events)]

-----------------------------------------------------------------------------
(***************************************************************************)
(* run_single_query, in a worker.                                          *)
(***************************************************************************)
WorkPcs == {"write", "spawn", "poll", "select", "kill", "unlink"}
Answer == [is : {"none", "yes", "no", "error"},
           from : {"none", "events", "clock", "end", "failure"}]

At(r, p) == pc[r] = p
Goto(r, p) == pc' = [pc EXCEPT ![r] = p]

\* return or raise, to the finally blocks, from p on.  What is in the pipe, and
\* what the events amounted to, is not looked at any more.
Leave(r, p, is, from) ==
    /\ Goto(r, p)
    /\ answer' = [answer EXCEPT ![r] = [is |-> is, from |-> from]]
    /\ pipe' = [pipe EXCEPT ![r] = <<>>]
    /\ parser' = [parser EXCEPT ![r] = NewParser]
GoOn(r, p) == Goto(r, p) /\ UNCHANGED <<answer, pipe, parser>>

\* A worker takes up a run.
Take(r) ==
    /\ At(r, "queued")
    /\ Cardinality({q \in Runs : pc[q] \in WorkPcs}) < NumWorkers
    /\ Goto(r, "write")
    /\ UNCHANGED <<files, agent, pipe, buffer, parser, answer, results>>

\* mkdir and write_text; either may fail, write_text with the file there already.
WriteCopy(r) ==
    /\ At(r, "write")
    /\ \/ GoOn(r, "spawn") /\ files' = files \cup {r}
       \/ Leave(r, "unlink", "error", "failure") /\ files' \in {files, files \cup {r}}
    /\ UNCHANGED <<agent, buffer, results>>

\* Popen, which fails when there is no claude command.
Spawn(r) ==
    /\ At(r, "spawn")
    /\ \/ GoOn(r, "poll") /\ EnterStage(r, "booting")
       \/ Leave(r, "unlink", "error", "failure") /\ UNCHANGED agent
    /\ UNCHANGED <<files, buffer, results>>

\* (a faulty variant: the clock is looked at only after a chunk)
FaultyTimeOut(r) ==
    /\ At(r, "poll") /\ pipe[r] # <<>> /\ Leave(r, "kill", "no", "clock")
    /\ UNCHANGED <<files, agent, buffer, results>>
\* The head of the loop finds that the time is up.
TimeOut(r) ==
    /\ At(r, "poll") /\ Leave(r, "kill", "no", "clock")
    /\ UNCHANGED <<files, agent, buffer, results>>

\* process.poll().  What an agent that has exited left in the pipe goes into the
\* buffer, and the loop ends.
Poll(r) ==
    /\ At(r, "poll")
    /\ \/ /\ Stage(r, "exited") /\ Leave(r, "kill", "no", "end")
          /\ buffer' = [buffer EXCEPT ![r] = pipe[r]]
       \/ Live(r) /\ GoOn(r, "select") /\ UNCHANGED buffer
    /\ UNCHANGED <<files, agent, results>>

\* select and os.read: nothing for a second, the end of the file, or a chunk of
\* events, which the inner loop goes through.
Select(r) ==
    /\ At(r, "select")
    /\ \/ pipe[r] = <<>> /\ Live(r) /\ GoOn(r, "poll")
       \/ pipe[r] = <<>> /\ Stage(r, "exited") /\ Leave(r, "kill", "no", "end")
       \/ \E n \in 1 .. Len(pipe[r]) :
             LET st == OnEvents(r, parser[r], SubSeq(pipe[r], 1, n))
             IN  \/ st.returns # "none" /\ Leave(r, "kill", st.returns, "events")
                 \/ /\ st.returns = "none" /\ Goto(r, "poll")
                    /\ pipe' = [pipe EXCEPT ![r] = SubSeq(@, n + 1, Len(@))]
                    /\ parser' = [parser EXCEPT ![r] = st]
                    /\ UNCHANGED answer
    /\ UNCHANGED <<files, agent, buffer, results>>

\* (a faulty variant: the exception passes the outer finally block only)
FaultyRaise(r) ==
    /\ pc[r] \in {"poll", "select"} /\ Leave(r, "unlink", "error", "failure")
    /\ UNCHANGED <<files, agent, buffer, results>>
\* An exception in the inner try: poll, select or a read fails, or a line is JSON but
\* not what the loop takes for granted, such as null, or a field that is null.
Raise(r) ==
    /\ pc[r] \in {"poll", "select"} /\ Leave(r, "kill", "error", "failure")
    /\ UNCHANGED <<files, agent, buffer, results>>

\* The inner finally block: poll, kill and wait.
Kill(r) ==
    /\ At(r, "kill") /\ Goto(r, "unlink")
    /\ EnterStage(r, "exited")
    /\ UNCHANGED <<files, pipe, buffer, parser, answer, results>>

\* The outer finally block; the run's variables end with it.
Unlink(r) ==
    /\ At(r, "unlink") /\ Goto(r, "done")
    /\ files' = files \ {r}
    /\ agent' = [agent EXCEPT ![r] = IF Live(r) THEN @ ELSE NoAgent("none")]
    /\ buffer' = [buffer EXCEPT ![r] = <<>>]
    /\ UNCHANGED <<pipe, parser, answer, results>>

Work(r) ==
    WriteCopy(r) \/ Spawn(r) \/ Poll(r) \/ Select(r) \/ Kill(r) \/ Unlink(r)

-----------------------------------------------------------------------------
(***************************************************************************)
(* run_eval, in the main process.                                          *)
(***************************************************************************)
\* (a faulty variant: a run that raised an exception is only logged)
FaultyCollect(r) ==
    /\ At(r, "done") /\ Goto(r, "collected")
    /\ tally' = [tally EXCEPT ![r[1]] =
          [runs |-> @.runs + (IF answer[r].is = "error" THEN 0 ELSE 1),
           yes |-> @.yes + (IF answer[r].is = "yes" THEN 1 ELSE 0)]]
    /\ UNCHANGED <<files, agent, pipe, buffer, parser, answer, report>>
\* (another: a run that ended with others is counted again)
FaultyRecount(r) ==
    /\ At(r, "done") /\ pc' \in {pc, [pc EXCEPT ![r] = "collected"]}
    /\ tally' = [tally EXCEPT ![r[1]] =
          [runs |-> @.runs + 1,
           yes |-> @.yes + (IF answer[r].is = "yes" THEN 1 ELSE 0)]]
    /\ UNCHANGED <<files, agent, pipe, buffer, parser, answer, report>>
\* as_completed: a run that raised an exception counts as one that answered no.
Collect(r) ==
    /\ At(r, "done") /\ Goto(r, "collected")
    /\ tally' = [tally EXCEPT ![r[1]] =
          [runs |-> @.runs + 1,
           yes |-> @.yes + (IF answer[r].is = "yes" THEN 1 ELSE 0)]]
    /\ UNCHANGED <<files, agent, pipe, buffer, parser, answer, report>>

\* trigger_rate >= trigger_threshold
Reached(t) == t.yes * ThresholdDen >= ThresholdNum * t.runs
Passes(q) == (q \in ShouldTrigger) <=> Reached(tally[q])

Report ==
    /\ \A r \in Runs : At(r, "collected")
    /\ ~report.known
    /\ report' = [known |-> TRUE, passed |-> {q \in Queries : Passes(q)}]
    /\ UNCHANGED <<pc, files, agent, pipe, buffer, parser, answer, tally>>

Init ==
    /\ pc = [r \in Runs |-> "queued"]
    /\ files = {}
    /\ agent = [r \in Runs |-> NoAgent("none")]
    /\ pipe = [r \in Runs |-> <<>>]
    /\ buffer = [r \in Runs |-> <<>>]
    /\ parser = [r \in Runs |-> NewParser]
    /\ answer = [r \in Runs |-> [is |-> "none", from |-> "none"]]
    /\ tally = [q \in Queries |-> [runs |-> 0, yes |-> 0]]
    /\ report = [known |-> FALSE, passed |-> {}]

Next ==
    \/ \E r \in Runs : Take(r) \/ Work(r) \/ TimeOut(r) \/ Raise(r) \/ Collect(r) \/ AgentStep(r)
    \/ Report

Spec == Init /\ [][Next]_vars

(***************************************************************************)
(* The workers and the main process keep going, and a worker that comes to *)
(* the head of its loop again and again comes there with its time up.  An  *)
(* agent need not do anything.                                             *)
(***************************************************************************)
Fairness ==
    /\ \A r \in Runs : /\ WF_vars(Take(r)) /\ WF_vars(Work(r))
                       /\ SF_vars(TimeOut(r)) /\ WF_vars(Collect(r))
    /\ WF_vars(Report)
FairSpec == Spec /\ Fairness

-----------------------------------------------------------------------------
TypeOK ==
    /\ pc \in [Runs -> {"queued", "done", "collected"} \cup WorkPcs]
    /\ files \subseteq Runs
    /\ agent \in [Runs -> Agent]
    /\ \A r \in Runs : /\ pipe[r] \in Seq(Event) /\ Len(pipe[r]) <= PipeCap
                       /\ buffer[r] \in Seq(Event)
    /\ parser \in [Runs -> Parser]
    /\ answer \in [Runs -> Answer]
    /\ tally \in [Queries -> [runs : 0 .. RunsPerQuery, yes : 0 .. RunsPerQuery]]
    /\ report \in [known : BOOLEAN, passed : SUBSET Queries]

FirstCallIsOwn(r) == agent[r].calls # <<>> /\ CallsOwn(agent[r].calls, r)

(***************************************************************************)
(* An answer that was read off the events is right, however the events     *)
(* were cut into chunks, with partial messages or without, and whatever    *)
(* the agent calls later: yes if and only if the first tool that the agent *)
(* calls is Skill or Read, on this run's own copy.                         *)
(***************************************************************************)
EventsAreRead ==
    \A r \in Runs : At(r, "kill") /\ answer[r].from = "events" =>
        (answer[r].is = "yes" <=> FirstCallIsOwn(r))

(***************************************************************************)
(* Clean-up on every path, early return, time limit and exception, before  *)
(* the agent is started and while its events are read: the copy of a run   *)
(* is there for as long as its agent lives, and when the run is over       *)
(* neither the copy nor the agent is left.                                 *)
(***************************************************************************)
CopyOutlivesAgent ==
    \A r \in Runs : /\ Live(r) => r \in files
                    /\ pc[r] \in {"done", "collected"} => r \notin files /\ ~Live(r)

(***************************************************************************)
(* The report counts every run of every query once, failed ones included,  *)
(* whatever the order in which the runs end.                               *)
(***************************************************************************)
Yes(q) == {i \in 1 .. RunsPerQuery : answer[<<q, i>>].is = "yes"}
ReportIsRight ==
    report.known => \A q \in Queries :
        (q \in report.passed) <=>
            ((q \in ShouldTrigger) <=>
                Cardinality(Yes(q)) * ThresholdDen >= ThresholdNum * RunsPerQuery)

(***************************************************************************)
(* The evaluation ends with a report, even if agents fall silent or fail.  *)
(***************************************************************************)
EvalEnds == <>report.known

(***************************************************************************)
(* What run_single_query's documentation promises: "Run a single query and *)
(* return whether the skill was triggered."  An agent that has ended in    *)
(* time and has written that it calls the run's own copy first is not      *)
(* reported as one that has not called it.                                 *)
(***************************************************************************)
TriggerIsReported ==
    \A r \in Runs :
        At(r, "kill") /\ answer[r].from = "end"
        /\ (\E i \in 1 .. Len(buffer[r]) :
               buffer[r][i].type = "assistant" /\ buffer[r][i].calls # <<>>
               /\ CallsOwn(buffer[r][i].calls, r))
            => answer[r].is = "yes"

=============================================================================
