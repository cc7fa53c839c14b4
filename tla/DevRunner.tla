------------------------------ MODULE DevRunner ------------------------------
(***************************************************************************)
(* dev-runner.js: a Node process that runs the development command of an   *)
(* application, under Infisical if that is usable, hands it SIGINT and     *)
(* SIGTERM, and ends as the command ends.  A step of the wrapper is what   *)
(* it does between two moments at which a signal can make a difference:    *)
(* the calls of its script, then one callback of the event loop at a time. *)
(***************************************************************************)
EXTENDS Naturals

CONSTANTS
    Codes,      \* exit codes of the command
    Zero, One,  \* 0 and 1
    Null,       \* no code, or no signal
    MaxSignals  \* bound: signals from outside

Handled == {"SIGINT", "SIGTERM"}
Fatal == {"SIGHUP", "SIGKILL"}  \* those that end the wrapper
Crash == "SIGSEGV"              \* what the command may do to itself
Ignored == {"SIGPIPE"}          \* those that Node ignores, and the command need not
Survived == Handled \cup Ignored
Signals == Survived \cup Fatal \cup {Crash}

ASSUME CodesAssumption ==
    /\ Zero \in Codes /\ One \in Codes /\ Zero # One
    /\ Null \notin Codes \cup Signals /\ Codes \cap Signals = {}
    /\ MaxSignals \in Nat

VARIABLES
    tools,  \* the state of Infisical: cli, login, config
    node,   \* the wrapper: pc, handlers it has installed, signals that wait for
            \* them, whether child.kill has succeeded (killed), end, and who
            \* caused it
    child,  \* the command: program, st, signals it has received (got), those of
            \* them that the wrapper sent (relayed), end
    sent    \* how many signals there were

vars == <<tools, node, child, sent>>

\* As Node reports it: (code, signal), one of them null.
End == [code : Codes \cup {Null}, signal : Signals \cup {Null}]
Exited(code) == [code |-> code, signal |-> Null]
KilledBy(s) == [code |-> Null, signal |-> s]
Running == KilledBy(Null)

Tools == [cli : BOOLEAN, login : BOOLEAN,
          config : {"absent", "broken", "blank", "valid"}]

\* (a faulty variant: .infisical.json only has to be there)
FaultyCanUseInfisical == tools.cli /\ tools.login /\ tools.config # "absent"

CanUseInfisical == tools.cli /\ tools.login /\ tools.config = "valid"

Init ==
    /\ tools \in Tools
    /\ node = [pc |-> "check", handlers |-> {}, pending |-> {}, killed |-> FALSE,
               end |-> Running, by |-> "nobody"]
    /\ child = [program |-> "none", st |-> "none", got |-> {}, relayed |-> {},
              end |-> Running]
    /\ sent = 0

At(pc) == node.pc = pc
Finish(end) == node' = [node EXCEPT !.pc = "ended", !.end = end, !.by = "itself"]

-----------------------------------------------------------------------------
(***************************************************************************)
(* The script                                                              *)
(***************************************************************************)
Check ==
    /\ At("check")
    /\ node' = [node EXCEPT !.pc = "spawn"]
    /\ child' = [child EXCEPT !.program = IF CanUseInfisical THEN "infisical" ELSE "command"]
    /\ UNCHANGED <<tools, sent>>

\* Infisical is there; the command itself may not be.
Spawn ==
    /\ At("spawn")
    /\ node' = [node EXCEPT !.pc = "listen"]
    /\ \/ child' = [child EXCEPT !.st = "running"]
       \/ child.program = "command" /\ child' = [child EXCEPT !.st = "failed"]
    /\ UNCHANGED <<tools, sent>>

\* process.on for one signal, then for the other
Listen ==
    /\ At("listen")
    /\ node' = IF node.handlers = {} THEN [node EXCEPT !.handlers = {"SIGINT"}]
               ELSE [node EXCEPT !.handlers = Handled, !.pc = "loop"]
    /\ UNCHANGED <<tools, child, sent>>

-----------------------------------------------------------------------------
(***************************************************************************)
(* The event loop                                                          *)
(***************************************************************************)

\* (a faulty variant: the signal is only noted)
FaultyForward(s) ==
    /\ At("loop") /\ s \in node.pending
    /\ node' = [node EXCEPT !.pending = @ \ {s}, !.killed = TRUE]
    /\ UNCHANGED <<tools, child, sent>>

\* (a faulty variant: the handler exits, too)
FaultyHandler(s) ==
    /\ At("loop") /\ s \in node.pending
    /\ Finish(KilledBy(s))
    /\ child' = IF child.st # "running" THEN child ELSE [child EXCEPT !.got = @ \cup {s}]
    /\ UNCHANGED <<tools, sent>>

\* forward: child.kill succeeds for a process whose end has not been handled yet, and
\* is never called again.
Forward(s) ==
    /\ At("loop") /\ s \in node.pending
    /\ node' = [node EXCEPT !.pending = @ \ {s}, !.killed = @ \/ child.st # "failed"]
    /\ child' = IF node.killed \/ child.st # "running" THEN child
                ELSE [child EXCEPT !.got = @ \cup {s}, !.relayed = @ \cup {s}]
    /\ UNCHANGED <<tools, sent>>

\* (a faulty variant: code ?? 0 alone)
FaultyOnExit ==
    /\ At("loop") /\ child.st = "dead"
    /\ Finish(Exited(IF child.end.code = Null THEN Zero ELSE child.end.code))
    /\ UNCHANGED <<tools, child, sent>>

\* (a faulty variant: a signal that does not end the wrapper is not dealt with)
FaultyReraise ==
    LET signal == child.end.signal IN
    /\ At("loop") /\ child.st = "dead"
    /\ \/ signal = Null /\ Finish(child.end)
       \/ signal \notin Survived \cup {Null} /\ Finish(KilledBy(signal))
    /\ UNCHANGED <<tools, child, sent>>

\* on exit: the wrapper exits with the code, or sends itself the signal, which ends
\* it unless its own handler takes it or Node ignores it.
OnExit ==
    LET signal == child.end.signal IN
    /\ At("loop") /\ child.st = "dead"
    /\ \/ signal = Null /\ Finish(child.end)
       \/ signal \in Survived /\ node' = [node EXCEPT !.pc = "drain"]
       \/ signal \notin Survived \cup {Null} /\ Finish(KilledBy(signal))
    /\ UNCHANGED <<tools, child, sent>>

\* The handler has nobody to kill, and the loop nothing to wait for: exit code 0.
Drain ==
    /\ At("drain") /\ Finish(Exited(Zero))
    /\ UNCHANGED <<tools, child, sent>>

\* on error: the command could not be started
OnError ==
    /\ At("loop") /\ child.st = "failed" /\ Finish(Exited(One))
    /\ UNCHANGED <<tools, child, sent>>

-----------------------------------------------------------------------------
(***************************************************************************)
(* The command, the terminal, and whoever supervises the wrapper           *)
(***************************************************************************)

\* The command ends by itself, or of a signal that it has received or caused.
ChildEnds ==
    /\ child.st = "running"
    /\ \E e \in {Exited(c) : c \in Codes} \cup {KilledBy(s) : s \in child.got \cup {Crash} \cup Ignored} :
          child' = [child EXCEPT !.st = "dead", !.end = e]
    /\ UNCHANGED <<tools, node, sent>>

\* A signal for the wrapper: it waits for its handler or ends the wrapper.  Ctrl+C and
\* the end of the terminal are signals for both.
Signal(s, both) ==
    /\ sent < MaxSignals /\ sent' = sent + 1
    /\ ~At("ended")
    /\ node' = IF s \in node.handlers THEN [node EXCEPT !.pending = @ \cup {s}]
               ELSE [node EXCEPT !.pc = "ended", !.end = KilledBy(s), !.by = "others"]
    /\ child' = IF both /\ child.st = "running" THEN [child EXCEPT !.got = @ \cup {s}] ELSE child
    /\ UNCHANGED tools

Script == Check \/ Spawn \/ Listen \/ OnExit \/ Drain \/ OnError
Wrapper == Script \/ \E s \in Handled : Forward(s)

Next ==
    \/ Wrapper \/ ChildEnds
    \/ \E s \in Handled \cup Fatal : Signal(s, FALSE)
    \/ \E s \in {"SIGINT", "SIGHUP"} : Signal(s, TRUE)

Spec == Init /\ [][Next]_vars

\* The wrapper does what it can do, and the loop serves every signal.
FairSpec == Spec /\ WF_vars(Script) /\ \A s \in Handled : WF_vars(Forward(s))

-----------------------------------------------------------------------------
(***************************************************************************)
(* Types; what runs under Infisical finds a workspace there.               *)
(***************************************************************************)
TypeOK ==
    /\ tools \in Tools
    /\ node \in [pc : {"check", "spawn", "listen", "loop", "drain", "ended"},
                 handlers : SUBSET Handled, pending : SUBSET Handled, killed : BOOLEAN,
                 end : End, by : {"nobody", "itself", "others"}]
    /\ child \in [program : {"none", "infisical", "command"},
                  st : {"none", "running", "failed", "dead"}, got : SUBSET Signals,
                  relayed : SUBSET Handled, end : End]
    /\ child.program = "infisical" => tools = [cli |-> TRUE, login |-> TRUE, config |-> "valid"]
    /\ sent \in 0 .. MaxSignals

(***************************************************************************)
(* A wrapper that ends by itself ends as the command did: with its code,   *)
(* or of its signal; with 1 if there was no command, and with 0 if it was  *)
(* ended by a signal that does not end the wrapper, whatever signals came  *)
(* in between.                                                             *)
(***************************************************************************)
EndsAsChild ==
    node.by = "itself" =>
        \/ child.st = "failed" /\ node.end = Exited(One)
        \/ /\ child.st = "dead"
           /\ node.end = IF child.end.signal \in Survived THEN Exited(Zero) ELSE child.end

(***************************************************************************)
(* No command is left behind by a wrapper that listens, except by signals  *)
(* that nothing forwards.                                                  *)
(***************************************************************************)
NoOrphan ==
    At("ended") /\ child.st = "running" =>
        node.end.signal \in Fatal \/ node.handlers # Handled

(***************************************************************************)
(* Of the signals that the wrapper takes the first one is sent on to the   *)
(* command, by the wrapper itself and not only by a terminal that signals  *)
(* both, unless the command or the wrapper ends first.  Those after it are *)
(* dropped, whatever they are: child.killed is set by the first, although  *)
(* the comment above forward says that signals are propagated as they are. *)
(***************************************************************************)
SignalsReach ==
    node.pending # {} ~>
        child.relayed # {} \/ child.st \in {"dead", "failed"} \/ At("ended")

(***************************************************************************)
(* The wrapper does not outlive the command, nor wait for one that could   *)
(* not be started.                                                         *)
(***************************************************************************)
EndsToo == child.st \in {"dead", "failed"} ~> At("ended")

=============================================================================
