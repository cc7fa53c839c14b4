------------------------- MODULE ServerDeployProofs -------------------------
(***************************************************************************)
(* Theorems about ServerDeploy, for every set of invocations and versions, *)
(* every Keep and every bound.                                             *)
(***************************************************************************)
EXTENDS ServerDeploy, TLAPS

Pcs == DeployPcs \cup RollbackPcs \cup PM2Pcs \cup EndPcs

(***************************************************************************)
(* Moving on within a deployment, within a rollback, or to the steps both  *)
(* share keeps the directories an invocation works on.                     *)
(***************************************************************************)
LEMMA GotoKeepsRun ==
    ASSUME RunOK, NEW p \in Procs, NEW pc \in Pcs, Goto(p, pc),
           pc \in DeployPcs => run[p].pc \in DeployPcs,
           pc \in RollbackPcs => run[p].pc \in RollbackPcs
    PROVE  RunOK'
BY DEF RunOK, Goto, Run, Pcs

LEMMA FailKeepsRun ==
    ASSUME RunOK, NEW p \in Procs, Fail(p) PROVE RunOK'
BY GotoKeepsRun DEF Fail, Pcs, DeployPcs, RollbackPcs, EndPcs

LEMMA ActivateKeepsRun ==
    ASSUME RunOK, owed \in Procs \cup {Nobody}, NEW p \in Procs, Activate(p)
    PROVE  RunOK' /\ owed' \in Procs \cup {Nobody}
BY GotoKeepsRun DEF Activate, Pcs, DeployPcs, RollbackPcs, PM2Pcs, EndPcs

(***************************************************************************)
(* Every step keeps the variables in their types.                          *)
(***************************************************************************)
LEMMA StepTypes == ASSUME TypeOK, [Next]_vars PROVE TypeOK'
<1>1. ASSUME NEW p \in Procs, NEW s \in Stamps, Begin(p, s) PROVE TypeOK'
  <2>1. RunOK'
    BY <1>1 DEF Begin, TypeOK, RunOK, Run, Stamps, Newest, Present, DeployPcs, RollbackPcs, EndPcs
  <2>2. releases' \in [Stamps -> Dir] /\ clock' \in Nat /\ started' \in Nat /\ stamp' \in 0 .. MaxRuns
    BY <1>1, MaxRunsAssumption DEF Begin, TypeOK, Dir, Stamps
  <2>3. QED
    BY <1>1, <2>1, <2>2 DEF Begin, TypeOK, disk
<1>2. ASSUME NEW p \in Procs, Archive(p) PROVE TypeOK'
  <2>1. RunOK'
    BY <1>2, GotoKeepsRun DEF Archive, TypeOK, At, Pcs, DeployPcs, RollbackPcs, PM2Pcs, EndPcs
  <2>2. releases' \in [Stamps -> Dir] /\ undo' \in Versions \cup {"empty", "broken"}
    BY <1>2 DEF Archive, TypeOK, Dir, Merge
  <2>3. QED
    BY <1>2, <2>1, <2>2 DEF Archive, TypeOK, disk
<1>3. ASSUME NEW p \in Procs, Extract(p) PROVE TypeOK'
  <2>1. RunOK'
    BY <1>3, GotoKeepsRun, FailKeepsRun DEF Extract, TypeOK, At, Pcs, DeployPcs, RollbackPcs, PM2Pcs, EndPcs
  <2>2. temp' \in [Stamps -> Dir] /\ clock' \in Nat /\ owed' = owed
    BY <1>3 DEF Extract, TypeOK, Dir, Merge, Fail
  <2>3. QED
    BY <1>3, <2>1, <2>2 DEF Extract, TypeOK, disk
<1>4. ASSUME NEW p \in Procs, Remove(p) PROVE TypeOK'
  <2>1. RunOK'
    BY <1>4, GotoKeepsRun DEF Remove, TypeOK, At, Pcs, DeployPcs, RollbackPcs, PM2Pcs, EndPcs
  <2>2. current' \in Dir
    BY <1>4 DEF Remove, TypeOK, Dir, NoDir
  <2>3. QED
    BY <1>4, <2>1, <2>2 DEF Remove, TypeOK, disk
<1>5. ASSUME NEW p \in Procs, Install(p) PROVE TypeOK'
  <2>1. RunOK'
    BY <1>5, GotoKeepsRun, FailKeepsRun DEF Install, TypeOK, At, Pcs, DeployPcs, RollbackPcs, PM2Pcs, EndPcs
  <2>2. temp' \in [Stamps -> Dir] /\ current' \in Dir /\ clock' \in Nat /\ owed' \in Procs \cup {Nobody}
    BY <1>5 DEF Install, TypeOK, Dir, NoDir, Fail, RunOK, At, DeployPcs
  <2>3. QED
    BY <1>5, <2>1, <2>2 DEF Install, TypeOK, disk
<1>6. ASSUME NEW p \in Procs, Discard(p) PROVE TypeOK'
  <2>1. RunOK'
    BY <1>6, GotoKeepsRun, FailKeepsRun DEF Discard, TypeOK, At, Pcs, DeployPcs, RollbackPcs, PM2Pcs, EndPcs
  <2>2. tar' \in Versions \cup {"none", "broken"} /\ owed' = owed
    BY <1>6 DEF Discard, TypeOK, Fail
  <2>3. QED
    BY <1>6, <2>1, <2>2 DEF Discard, TypeOK, disk
<1>7. ASSUME NEW p \in Procs, Hook(p) PROVE TypeOK'
  <2>1. RunOK'
    BY <1>7, GotoKeepsRun, FailKeepsRun DEF Hook, TypeOK, At, Pcs, DeployPcs, RollbackPcs, PM2Pcs, EndPcs
  <2>2. owed' = owed
    BY <1>7 DEF Hook, TypeOK, Fail
  <2>3. QED
    BY <1>7, <2>1, <2>2 DEF Hook, TypeOK, disk
<1>8. ASSUME NEW p \in Procs, Cleanup(p) PROVE TypeOK'
  <2>1. RunOK' /\ owed' \in Procs \cup {Nobody}
    BY <1>8, ActivateKeepsRun DEF Cleanup, TypeOK
  <2>2. releases' \in [Stamps -> Dir]
    BY <1>8 DEF Cleanup, TypeOK, Dir, NoDir
  <2>3. QED
    BY <1>8, <2>1, <2>2 DEF Cleanup, TypeOK, disk
<1>9. ASSUME NEW p \in Procs, BeginRollback(p) PROVE TypeOK'
  <2>1. RunOK'
    <3>1. CASE run' = [run EXCEPT ![p] = [pc |-> "failed", ts |-> 0, target |-> 0]]
      BY <3>1 DEF TypeOK, RunOK, Run, DeployPcs, RollbackPcs, EndPcs
    <3>2. ASSUME NEW s \in Stamps,
                 run' = [run EXCEPT ![p] = [pc |-> "wipe", ts |-> 0, target |-> s]]
          PROVE  RunOK'
      BY <3>2, MaxRunsAssumption DEF TypeOK, RunOK, Run, Stamps, DeployPcs, RollbackPcs
    <3>3. QED
      BY <1>9, <3>1, <3>2 DEF BeginRollback
  <2>2. started' \in Nat
    BY <1>9 DEF BeginRollback, TypeOK
  <2>3. QED
    BY <1>9, <2>1, <2>2 DEF BeginRollback, TypeOK, disk
<1>10. ASSUME NEW p \in Procs, Wipe(p) PROVE TypeOK'
  <2>1. RunOK'
    BY <1>10, GotoKeepsRun DEF Wipe, TypeOK, At, Pcs, DeployPcs, RollbackPcs, PM2Pcs, EndPcs
  <2>2. current' \in Dir
    BY <1>10 DEF Wipe, TypeOK, Dir, NoDir
  <2>3. QED
    BY <1>10, <2>1, <2>2 DEF Wipe, TypeOK, disk
<1>11. ASSUME NEW p \in Procs, Restore(p) PROVE TypeOK'
  <2>1. RunOK' /\ owed' \in Procs \cup {Nobody}
    BY <1>11, GotoKeepsRun, FailKeepsRun, ActivateKeepsRun DEF Restore, Fail, TypeOK, At, Pcs, DeployPcs, RollbackPcs, PM2Pcs, EndPcs
  <2>2. current' \in Dir /\ clock' \in Nat
    BY <1>11 DEF Restore, TypeOK, Dir, RunOK, At, RollbackPcs
  <2>3. QED
    BY <1>11, <2>1, <2>2 DEF Restore, TypeOK, disk
<1>12. ASSUME NEW p \in Procs, Save(p) PROVE TypeOK'
  <2>1. RunOK'
    BY <1>12, GotoKeepsRun, FailKeepsRun DEF Save, TypeOK, At, Pcs, DeployPcs, RollbackPcs, PM2Pcs, EndPcs
  <2>2. pm2' \in PM2State /\ owed' = owed
    BY <1>12 DEF Save, TypeOK, PM2State, Fail
  <2>3. QED
    BY <1>12, <2>1, <2>2 DEF Save, TypeOK, disk
<1>13. ASSUME NEW p \in Procs, Restart(p) PROVE TypeOK'
  <2>1. RunOK'
    BY <1>13, GotoKeepsRun, FailKeepsRun DEF Restart, Activated, TypeOK, At, Pcs, DeployPcs, RollbackPcs, PM2Pcs, EndPcs
  <2>2. pm2' \in PM2State /\ owed' \in Procs \cup {Nobody}
    BY <1>13 DEF Restart, Activated, TypeOK, PM2State, Fail, Dir
  <2>3. QED
    BY <1>13, <2>1, <2>2 DEF Restart, Activated, TypeOK, disk
<1>14. ASSUME NEW p \in Procs, Settle(p) PROVE TypeOK'
  <2>1. RunOK'
    BY <1>14, GotoKeepsRun, FailKeepsRun DEF Settle, Activated, Fail, TypeOK, At, Pcs, DeployPcs, RollbackPcs, PM2Pcs, EndPcs
  <2>2. owed' \in Procs \cup {Nobody}
    BY <1>14 DEF Settle, Activated, Fail, TypeOK
  <2>3. QED
    BY <1>14, <2>1, <2>2 DEF Settle, Activated, Fail, TypeOK, disk
<1>15. ASSUME NEW p \in Procs, Kill(p) PROVE TypeOK'
  <2>1. RunOK'
    BY <1>15, GotoKeepsRun DEF Kill, TypeOK, Pcs, DeployPcs, RollbackPcs, EndPcs
  <2>2. /\ releases' \in [Stamps -> Dir]
        /\ current' \in Dir
        /\ temp' \in [Stamps -> Dir]
        /\ owed' \in Procs \cup {Nobody}
        /\ tar' = tar
        /\ clock' \in Nat
    <3>1. CASE UNCHANGED <<disk, clock, owed>>
      BY <3>1 DEF TypeOK, disk
    <3>2. CASE clock' = clock + 1 /\ HalfArchive(p)
      BY <3>2 DEF TypeOK, HalfArchive, Merge, Release, Dir, RunOK, At, DeployPcs
    <3>3. CASE clock' = clock + 1 /\ HalfExtract(p)
      BY <3>3 DEF TypeOK, HalfExtract, Dir, RunOK, At, DeployPcs
    <3>4. CASE clock' = clock + 1 /\ HalfRemove(p)
      BY <3>4 DEF TypeOK, HalfRemove, Dir
    <3>5. CASE clock' = clock + 1 /\ HalfRestore(p)
      BY <3>5 DEF TypeOK, HalfRestore, Dir, RunOK, At, RollbackPcs
    <3>6. CASE clock' = clock + 1 /\ HalfCleanup(p)
      BY <3>6 DEF TypeOK, HalfCleanup, Dir, NoDir
    <3>7. QED
      BY <1>15, <3>1, <3>2, <3>3, <3>4, <3>5, <3>6 DEF Kill
  <2>3. QED
    BY <1>15, <2>1, <2>2 DEF Kill, TypeOK
<1>16. ASSUME NEW v \in Versions \cup {"broken"}, Upload(v) PROVE TypeOK'
  BY <1>16 DEF Upload, TypeOK, RunOK
<1>17. CASE Touch
  BY <1>17 DEF Touch, TypeOK, RunOK, Dir
<1>18. CASE AppCrash
  BY <1>18 DEF AppCrash, TypeOK, RunOK, PM2State, Dir, disk
<1>19. CASE Reboot
  BY <1>19 DEF Reboot, TypeOK, RunOK, PM2State, Dir, disk
<1>20. CASE UNCHANGED vars
  BY <1>20 DEF vars, TypeOK, RunOK, disk
<1>21. QED
  BY <1>1, <1>2, <1>3, <1>4, <1>5, <1>6, <1>7, <1>8, <1>9, <1>10, <1>11, <1>12,
     <1>13, <1>14, <1>15, <1>16, <1>17, <1>18, <1>19, <1>20
     DEF Next, Step, DeployStep

(***************************************************************************)
(* The variables of ServerDeploy keep their types; in particular every     *)
(* deployment works on a release directory, and every rollback restores a  *)
(* release it has chosen.                                                  *)
(***************************************************************************)
THEOREM TypeCorrect == Spec => []TypeOK
<1>1. Init => TypeOK
  <2> SUFFICES ASSUME Init PROVE TypeOK
    OBVIOUS
  <2>1. RunOK
    BY DEF Init, RunOK, Run, DeployPcs, RollbackPcs, EndPcs
  <2>2. current \in Dir /\ pm2 \in PM2State
    <3>1. \A mode \in {"fork", "cluster"} : NoApp(mode) \in PM2State
      BY DEF NoApp, PM2State
    <3>2. \A v \in Versions, mode \in {"fork", "cluster"} :
             [st |-> "online", mode |-> mode, run |-> v, saved |-> TRUE] \in PM2State
      BY DEF PM2State
    <3>3. NoDir \in Dir /\ \A v \in Versions : [what |-> v, mtime |-> 0] \in Dir
      BY DEF Dir, NoDir
    <3>4. QED
      BY <3>1, <3>2, <3>3 DEF Init
  <2>3. releases \in [Stamps -> Dir] /\ temp \in [Stamps -> Dir]
    BY DEF Init, Dir, NoDir
  <2>4. stamp = 0 /\ clock = 0 /\ started = 0
    BY DEF Init
  <2>5. /\ tar \in Versions \cup {"none", "broken"}
        /\ undo \in Versions \cup {"empty", "broken"}
        /\ owed \in Procs \cup {Nobody}
    BY DEF Init
  <2>6. QED
    BY <2>1, <2>2, <2>3, <2>4, <2>5, MaxRunsAssumption DEF TypeOK
<1>2. TypeOK /\ [Next]_vars => TypeOK'
  BY StepTypes
<1>3. QED
  BY <1>1, <1>2, PTL DEF Spec

-----------------------------------------------------------------------------
(***************************************************************************)
(* ActivationCatchesUp is not inductive: a reload that another invocation  *)
(* overtakes ends, one step later, with what it loaded.                    *)
(***************************************************************************)
Loaded == pm2.st # "none" => pm2.run = current.what

CatchUpInv ==
    AppType = "pm2" =>
        /\ owed = Nobody => Loaded
        /\ \A p \in Procs : At(p, "settle") /\ owed = p => Loaded

\* A step that leaves PM2 and the files of current/ alone, charges nobody, and
\* starts no wait, keeps the invariant.
LEMMA QuietStep ==
    ASSUME CatchUpInv, current'.what = current.what,
           pm2'.run = pm2.run, pm2'.st # "none" => pm2.st # "none", owed' = owed,
           \A p \in Procs : At(p, "settle")' => At(p, "settle")
    PROVE  CatchUpInv'
BY DEF CatchUpInv, Loaded

\* So does a step after which an invocation owes the activation and does not wait.
LEMMA ChargingStep ==
    ASSUME TypeOK, NEW p \in Procs, owed' = p, ~At(p, "settle")'
    PROVE  CatchUpInv'
BY NobodyAssumption DEF CatchUpInv

LEMMA GotoQuiet ==
    ASSUME TypeOK, NEW p \in Procs, NEW pc, pc # "settle", Goto(p, pc)
    PROVE  /\ \A q \in Procs : At(q, "settle")' => At(q, "settle")
           /\ ~At(p, "settle")'
BY DEF TypeOK, RunOK, Run, Goto, At

LEMMA CatchUpSteps == ASSUME TypeOK, CatchUpInv, [Next]_vars PROVE CatchUpInv'
<1>1. ASSUME NEW p \in Procs, NEW s \in Stamps, Begin(p, s) PROVE CatchUpInv'
  <2>1. \A q \in Procs : At(q, "settle")' => At(q, "settle")
    BY <1>1 DEF Begin, TypeOK, RunOK, At
  <2>2. QED
    BY <1>1, <2>1, QuietStep DEF Begin
<1>2. ASSUME NEW p \in Procs, Archive(p) PROVE CatchUpInv'
  BY <1>2, GotoQuiet, QuietStep DEF Archive
<1>3. ASSUME NEW p \in Procs, Extract(p) PROVE CatchUpInv'
  BY <1>3, GotoQuiet, QuietStep DEF Extract, Fail
<1>4. ASSUME NEW p \in Procs, Remove(p) PROVE CatchUpInv'
  BY <1>4, GotoQuiet, ChargingStep DEF Remove
<1>5. ASSUME NEW p \in Procs, Install(p) PROVE CatchUpInv'
  <2>1. CASE owed' = p /\ Goto(p, "discard")
    BY <2>1, GotoQuiet, ChargingStep
  <2>2. CASE /\ UNCHANGED <<owed, pm2>> /\ current'.what = current.what
             /\ (Goto(p, "discard") \/ Goto(p, "failed"))
    BY <2>2, GotoQuiet, QuietStep
  <2>3. QED
    BY <1>5, <2>1, <2>2 DEF Install, Fail, TypeOK, Dir
<1>6. ASSUME NEW p \in Procs, Discard(p) PROVE CatchUpInv'
  BY <1>6, GotoQuiet, QuietStep DEF Discard, Fail
<1>7. ASSUME NEW p \in Procs, Hook(p) PROVE CatchUpInv'
  BY <1>7, GotoQuiet, QuietStep DEF Hook, Fail, disk
<1>8. ASSUME NEW p \in Procs, Cleanup(p) PROVE CatchUpInv'
  <2>1. CASE AppType = "pm2"
    BY <1>8, <2>1, GotoQuiet, QuietStep DEF Cleanup, Activate
  <2>2. QED
    BY <2>1 DEF CatchUpInv
<1>9. ASSUME NEW p \in Procs, BeginRollback(p) PROVE CatchUpInv'
  <2>1. \A q \in Procs : At(q, "settle")' => At(q, "settle")
    BY <1>9 DEF BeginRollback, TypeOK, RunOK, At
  <2>2. QED
    BY <1>9, <2>1, QuietStep DEF BeginRollback, disk
<1>10. ASSUME NEW p \in Procs, Wipe(p) PROVE CatchUpInv'
  BY <1>10, GotoQuiet, ChargingStep DEF Wipe
<1>11. ASSUME NEW p \in Procs, Restore(p) PROVE CatchUpInv'
  <2>1. CASE AppType # "pm2"
    BY <2>1 DEF CatchUpInv
  <2>2. CASE AppType = "pm2" /\ owed' = p /\ Goto(p, "save")
    BY <2>2, GotoQuiet, ChargingStep
  <2>3. CASE /\ UNCHANGED <<owed, pm2>> /\ current'.what = current.what
             /\ (Goto(p, "save") \/ Goto(p, "failed"))
    BY <2>3, GotoQuiet, QuietStep
  <2>4. QED
    BY <1>11, <2>1, <2>2, <2>3 DEF Restore, Activate, Fail, TypeOK, Dir
<1>12. ASSUME NEW p \in Procs, Save(p) PROVE CatchUpInv'
  <2>1. pm2'.run = pm2.run /\ pm2'.st = pm2.st
    BY <1>12 DEF Save, TypeOK, PM2State
  <2>2. QED
    BY <1>12, <2>1, GotoQuiet, QuietStep DEF Save, Fail, disk
<1>13. ASSUME NEW p \in Procs, Restart(p) PROVE CatchUpInv'
  <2>1. CASE Fail(p) /\ UNCHANGED <<pm2, disk>>
    BY <2>1, GotoQuiet, QuietStep DEF Fail, disk
  <2>2. CASE pm2'.run = current.what /\ UNCHANGED disk
    BY <2>2 DEF CatchUpInv, Loaded, disk
  <2>3. QED
    BY <1>13, <2>1, <2>2 DEF Restart, Activated, TypeOK, PM2State
<1>14. ASSUME NEW p \in Procs, Settle(p) PROVE CatchUpInv'
  <2>1. CASE owed = p
    BY <1>14, <2>1 DEF Settle, Activated, Fail, CatchUpInv, Loaded, disk
  <2>2. CASE owed # p
    BY <1>14, <2>2, GotoQuiet, QuietStep DEF Settle, Activated, Fail, disk
  <2>3. QED
    BY <2>1, <2>2
<1>15. ASSUME NEW p \in Procs, Kill(p) PROVE CatchUpInv'
  <2>1. CASE owed' = p
    BY <1>15, <2>1, GotoQuiet, ChargingStep DEF Kill
  <2>2. CASE UNCHANGED <<current, owed>>
    BY <1>15, <2>2, GotoQuiet, QuietStep DEF Kill
  <2>3. QED
    BY <1>15, <2>1, <2>2
       DEF Kill, HalfArchive, HalfExtract, HalfRemove, HalfRestore, HalfCleanup, disk
<1>16. ASSUME NEW v \in Versions \cup {"broken"}, Upload(v) PROVE CatchUpInv'
  BY <1>16, QuietStep DEF Upload, At
<1>17. CASE Touch
  <2>1. current'.what = current.what
    BY <1>17 DEF Touch, TypeOK, Dir
  <2>2. QED
    BY <1>17, <2>1, QuietStep DEF Touch, At
<1>18. CASE AppCrash
  <2>1. CASE pm2' = [pm2 EXCEPT !.st = "stopped"]
    <3>1. pm2'.run = pm2.run /\ pm2.st # "none"
      BY <1>18, <2>1 DEF AppCrash, TypeOK, PM2State
    <3>2. QED
      BY <1>18, <3>1, QuietStep DEF AppCrash, At, disk
  <2>2. CASE pm2' = [pm2 EXCEPT !.run = current.what]
    <3>1. pm2'.run = current.what
      BY <2>2 DEF TypeOK, PM2State
    <3>2. QED
      BY <1>18, <3>1 DEF AppCrash, CatchUpInv, Loaded, disk
  <2>3. QED
    BY <1>18, <2>1, <2>2 DEF AppCrash
<1>19. CASE Reboot
  <2>1. pm2'.st = "none" \/ pm2'.run = current.what
    BY <1>19 DEF Reboot, TypeOK, PM2State
  <2>2. QED
    BY <1>19, <2>1 DEF Reboot, CatchUpInv, Loaded, disk
<1>20. CASE UNCHANGED vars
  BY <1>20, QuietStep DEF vars, At, disk
<1>21. QED
  BY <1>1, <1>2, <1>3, <1>4, <1>5, <1>6, <1>7, <1>8, <1>9, <1>10, <1>11, <1>12,
     <1>13, <1>14, <1>15, <1>16, <1>17, <1>18, <1>19, <1>20
     DEF Next, Step, DeployStep

(***************************************************************************)
(* However many invocations overlap, and however they end, PM2 runs what   *)
(* current/ holds once the one that last changed current/ has succeeded.   *)
(***************************************************************************)
THEOREM CatchesUp == Spec => []ActivationCatchesUp
<1>1. Init => CatchUpInv
  <2> SUFFICES ASSUME Init PROVE CatchUpInv
    OBVIOUS
  <2>1. AppType = "pm2" => Loaded
    BY DEF Init, NoApp, NoDir, Loaded
  <2>2. QED
    BY <2>1 DEF CatchUpInv
<1>2. TypeOK /\ CatchUpInv /\ [Next]_vars => CatchUpInv'
  BY CatchUpSteps
<1>3. CatchUpInv => ActivationCatchesUp
  BY DEF CatchUpInv, ActivationCatchesUp, Loaded
<1>4. QED
  BY <1>1, <1>2, <1>3, TypeCorrect, PTL DEF Spec

-----------------------------------------------------------------------------
(***************************************************************************)
(* What invocations of server-deploy.sh that do not overlap leave on disk, *)
(* wherever they are killed.                                               *)
(***************************************************************************)

(***************************************************************************)
(* OnlyRollbackLoses needs to know why a step that destroys a copy is      *)
(* harmless: the tree rm -rf removes was archived, and what replaces it    *)
(* was extracted completely before, so that the clean-up finds a complete  *)
(* current/.  Both rest on a TIMESTAMP nobody has used.                    *)
(***************************************************************************)
Unused(s) == releases[s].what = "none" /\ temp[s].what = "none"

RunInv(p) ==
    LET ts == run[p].ts IN
    /\ run[p].pc \in DeployPcs => ts <= stamp
    /\ At(p, "archive") => releases[ts].what = "empty"
    /\ run[p].pc \in {"archive", "extract"} => temp[ts].what = "none"
    /\ run[p].pc \in {"extract", "remove"} =>
           (Whole(current) => Whole(releases[ts]))
    /\ run[p].pc \in {"remove", "install"} => Whole(temp[ts])
    /\ At(p, "install") => ~Exists(current)
    /\ run[p].pc \in {"discard", "hook", "cleanup"} => Whole(current)

CopyInv ==
    /\ \A s \in Stamps : s > stamp => Unused(s)
    /\ \A p \in Procs : RunInv(p)

LEMMA GotoFields ==
    ASSUME TypeOK, NEW p \in Procs, NEW pc, Goto(p, pc)
    PROVE  run'[p].pc = pc /\ run'[p].ts = run[p].ts
BY DEF TypeOK, RunOK, Run, Goto

\* With one process, what holds of it after a step is all there is to show.
LEMMA OneRun ==
    ASSUME Serial, NEW p \in Procs, \A s \in Stamps : s > stamp' => Unused(s)',
           RunInv(p)'
    PROVE  CopyInv'
BY DEF Serial, CopyInv

LEMMA CopyInvSteps ==
    ASSUME Serial, ~SameSecond, TypeOK, CopyInv, [Next]_vars PROVE CopyInv'
<1> USE DEF RunInv, Unused, At, Whole, Exists
<1>1. ASSUME NEW p \in Procs, NEW s \in Stamps, Begin(p, s) PROVE CopyInv'
  <2>1. s = stamp + 1 /\ stamp' = s /\ s \in Nat
    BY <1>1, MaxRunsAssumption DEF Begin, Stamps, TypeOK
  <2>2. Unused(s)
    BY <2>1 DEF CopyInv, TypeOK
  <2>3. run'[p].pc = "archive" /\ run'[p].ts = s
    BY <1>1 DEF Begin, TypeOK, RunOK
  <2>4. releases'[s].what = "empty" /\ temp' = temp
    BY <1>1, <2>2 DEF Begin, TypeOK
  <2>5. RunInv(p)'
    BY <2>1, <2>2, <2>3, <2>4 DEF DeployPcs
  <2>6. ASSUME NEW t \in Stamps, t > stamp' PROVE Unused(t)'
    <3>1. t > stamp /\ t # s
      BY <2>1, <2>6, MaxRunsAssumption DEF Stamps, TypeOK
    <3>2. QED
      BY <1>1, <2>4, <3>1 DEF Begin, CopyInv, TypeOK
  <2>7. QED
    BY <2>5, <2>6, OneRun
<1>2. ASSUME NEW p \in Procs, Archive(p) PROVE CopyInv'
  <2>1. run'[p].pc = "extract" /\ run'[p].ts = run[p].ts
    BY <1>2, GotoFields DEF Archive
  <2>2. RunInv(p) /\ run[p].ts \in Stamps /\ run[p].ts <= stamp
    BY <1>2 DEF Archive, CopyInv, TypeOK, RunOK, DeployPcs
  <2>3. Whole(current) => Whole(releases[run[p].ts])'
    BY <1>2, <2>1, <2>2, VersionsAssumption DEF Archive, TypeOK, Merge
  <2>4. RunInv(p)'
    BY <1>2, <2>1, <2>2, <2>3 DEF Archive, DeployPcs
  <2>5. \A s \in Stamps : s > stamp' => Unused(s)'
    BY <1>2, <2>2, MaxRunsAssumption DEF Archive, CopyInv, TypeOK, Stamps
  <2>6. QED
    BY <2>4, <2>5, OneRun
<1>3. ASSUME NEW p \in Procs, Extract(p) PROVE CopyInv'
  <2>1. RunInv(p) /\ run[p].ts \in Stamps /\ run[p].ts <= stamp
    BY <1>3 DEF Extract, CopyInv, TypeOK, RunOK, DeployPcs
  <2>2. \A s \in Stamps : s > stamp' => Unused(s)'
    BY <1>3, <2>1, MaxRunsAssumption DEF Extract, CopyInv, TypeOK, Stamps
  <2>3. CASE Fail(p)
    BY <1>3, <2>2, <2>3, GotoFields, OneRun DEF Extract, Fail, DeployPcs
  <2>4. CASE tar \notin {"none", "broken"} /\ Goto(p, "remove")
    <3>1. run'[p].pc = "remove" /\ run'[p].ts = run[p].ts
      BY <2>4, GotoFields
    <3>2. Whole(temp[run[p].ts])'
      BY <1>3, <2>1, <2>4, <3>1 DEF Extract, TypeOK, Merge
    <3>3. RunInv(p)'
      BY <1>3, <2>1, <3>1, <3>2 DEF Extract, DeployPcs
    <3>4. QED
      BY <2>2, <3>3, OneRun
  <2>5. QED
    BY <1>3, <2>3, <2>4 DEF Extract
<1>4. ASSUME NEW p \in Procs, Remove(p) PROVE CopyInv'
  <2>1. run'[p].pc = "install" /\ run'[p].ts = run[p].ts
    BY <1>4, GotoFields DEF Remove
  <2>2. RunInv(p)'
    BY <1>4, <2>1 DEF Remove, CopyInv, NoDir, DeployPcs
  <2>3. QED
    BY <1>4, <2>2, OneRun DEF Remove, CopyInv
<1>5. ASSUME NEW p \in Procs, Install(p) PROVE CopyInv'
  <2>1. RunInv(p) /\ run[p].ts \in Stamps /\ run[p].ts <= stamp
    BY <1>5 DEF Install, CopyInv, TypeOK, RunOK, DeployPcs
  <2>2. Exists(temp[run[p].ts]) /\ ~Exists(current)
    BY <1>5, <2>1, VersionsAssumption DEF Install
  <2>3. run'[p].pc = "discard" /\ run'[p].ts = run[p].ts
    BY <1>5, <2>2, GotoFields DEF Install
  <2>4. RunInv(p)'
    BY <1>5, <2>1, <2>2, <2>3 DEF Install, DeployPcs
  <2>5. \A s \in Stamps : s > stamp' => Unused(s)'
    BY <1>5, <2>1, <2>2, MaxRunsAssumption DEF Install, CopyInv, TypeOK, Stamps
  <2>6. QED
    BY <2>4, <2>5, OneRun
<1>6. ASSUME NEW p \in Procs, Discard(p) PROVE CopyInv'
  <2>1. run'[p].pc \in {"hook", "failed"} /\ run'[p].ts = run[p].ts
    BY <1>6, GotoFields DEF Discard, Fail
  <2>2. RunInv(p)'
    BY <1>6, <2>1 DEF Discard, CopyInv, DeployPcs
  <2>3. QED
    BY <1>6, <2>2, OneRun DEF Discard, CopyInv
<1>7. ASSUME NEW p \in Procs, Hook(p) PROVE CopyInv'
  <2>1. run'[p].pc \in {"cleanup", "failed"} /\ run'[p].ts = run[p].ts
    BY <1>7, GotoFields DEF Hook, Fail
  <2>2. RunInv(p)'
    BY <1>7, <2>1 DEF Hook, CopyInv, DeployPcs, disk
  <2>3. QED
    BY <1>7, <2>2, OneRun DEF Hook, CopyInv, disk
<1>8. ASSUME NEW p \in Procs, Cleanup(p) PROVE CopyInv'
  <2>1. run'[p].pc \in {"save", "ok"}
    BY <1>8, GotoFields DEF Cleanup, Activate
  <2>2. RunInv(p)'
    BY <2>1 DEF DeployPcs
  <2>3. \A s \in Stamps : s > stamp' => Unused(s)'
    BY <1>8 DEF Cleanup, CopyInv, NoDir
  <2>4. QED
    BY <2>2, <2>3, OneRun
<1>9. ASSUME NEW p \in Procs, BeginRollback(p) PROVE CopyInv'
  <2>1. run'[p].pc \in {"failed", "wipe"}
    BY <1>9 DEF BeginRollback, TypeOK, RunOK
  <2>2. QED
    BY <1>9, <2>1, OneRun DEF BeginRollback, CopyInv, DeployPcs, disk
<1>10. ASSUME NEW p \in Procs, Wipe(p) PROVE CopyInv'
  BY <1>10, GotoFields, OneRun DEF Wipe, CopyInv, DeployPcs
<1>11. ASSUME NEW p \in Procs, Restore(p) PROVE CopyInv'
  <2>1. run'[p].pc \in {"save", "ok", "failed"}
    BY <1>11, GotoFields DEF Restore, Activate, Fail
  <2>2. QED
    BY <1>11, <2>1, OneRun DEF Restore, CopyInv, DeployPcs
<1>12. ASSUME NEW p \in Procs, Save(p) PROVE CopyInv'
  BY <1>12, GotoFields, OneRun DEF Save, Fail, CopyInv, DeployPcs, disk
<1>13. ASSUME NEW p \in Procs, Restart(p) PROVE CopyInv'
  BY <1>13, GotoFields, OneRun DEF Restart, Activated, Fail, CopyInv, DeployPcs, disk
<1>14. ASSUME NEW p \in Procs, Settle(p) PROVE CopyInv'
  BY <1>14, GotoFields, OneRun DEF Settle, Activated, Fail, CopyInv, DeployPcs, disk
<1>15. ASSUME NEW p \in Procs, Kill(p) PROVE CopyInv'
  <2>1. RunInv(p)'
    BY <1>15, GotoFields DEF Kill, DeployPcs
  <2>2. run[p].pc \in DeployPcs => run[p].ts \in Stamps /\ run[p].ts <= stamp
    BY DEF CopyInv, TypeOK, RunOK
  <2>3. ASSUME NEW s \in Stamps, s > stamp PROVE Unused(s)'
    <3>1. Unused(s) /\ (run[p].pc \in DeployPcs => s # run[p].ts)
      BY <2>2, <2>3, MaxRunsAssumption DEF CopyInv, Stamps, TypeOK
    <3>2. s \notin Victims
      BY <3>1 DEF Victims, Present
    <3>3. QED
      BY <1>15, <3>1, <3>2 DEF Kill, HalfArchive, HalfExtract, HalfRemove,
         HalfRestore, HalfCleanup, disk, DeployPcs, TypeOK, NoDir
  <2>4. QED
    BY <1>15, <2>1, <2>3, OneRun DEF Kill
<1>16. ASSUME NEW v \in Versions \cup {"broken"}, Upload(v) PROVE CopyInv'
  BY <1>16 DEF Upload, CopyInv
<1>17. CASE Touch
  <2>1. current'.what = current.what
    BY <1>17 DEF Touch, TypeOK, Dir
  <2>2. QED
    BY <1>17, <2>1 DEF Touch, CopyInv
<1>18. CASE AppCrash
  BY <1>18 DEF AppCrash, CopyInv, disk
<1>19. CASE Reboot
  BY <1>19 DEF Reboot, CopyInv, disk
<1>20. CASE UNCHANGED vars
  BY <1>20 DEF vars, CopyInv, disk
<1>21. QED
  BY <1>1, <1>2, <1>3, <1>4, <1>5, <1>6, <1>7, <1>8, <1>9, <1>10, <1>11, <1>12,
     <1>13, <1>14, <1>15, <1>16, <1>17, <1>18, <1>19, <1>20
     DEF Next, Step, DeployStep

(***************************************************************************)
(* In a state of the invariant no step loses the last copy, except the one *)
(* the property names.                                                     *)
(***************************************************************************)
Excused == \E p \in Procs : At(p, "wipe") /\ ~Whole(releases[run[p].target])

LEMMA CopySteps ==
    ASSUME TypeOK, CopyInv, HasCopy, [Next]_vars PROVE HasCopy' \/ Excused
<1> USE DEF HasCopy, Whole
<1>1. ASSUME UNCHANGED <<releases, current>> PROVE HasCopy'
  BY <1>1
<1>2. ASSUME NEW p \in Procs, NEW s \in Stamps, Begin(p, s) PROVE HasCopy'
  BY <1>2, VersionsAssumption DEF Begin, Exists, TypeOK
<1>3. ASSUME NEW p \in Procs, Archive(p) PROVE HasCopy'
  <2>1. run[p].ts \in Stamps /\ releases[run[p].ts].what = "empty"
    BY <1>3 DEF Archive, At, CopyInv, RunInv, TypeOK, RunOK, DeployPcs
  <2>2. QED
    BY <1>3, <2>1, VersionsAssumption DEF Archive, TypeOK
<1>4. ASSUME NEW p \in Procs, Remove(p) \/ (HalfRemove(p) /\ At(p, "remove"))
      PROVE  HasCopy'
  <2>1. run[p].ts \in Stamps /\ (Whole(current) => Whole(releases[run[p].ts]))
    BY <1>4 DEF Remove, At, CopyInv, RunInv, TypeOK, RunOK, DeployPcs
  <2>2. QED
    BY <1>4, <2>1 DEF Remove, HalfRemove
<1>5. ASSUME NEW p \in Procs, Install(p) PROVE HasCopy'
  BY <1>5, VersionsAssumption DEF Install, At, CopyInv, RunInv, Exists
<1>6. ASSUME NEW p \in Procs, Cleanup(p) \/ HalfCleanup(p) PROVE HasCopy'
  BY <1>6 DEF Cleanup, HalfCleanup, At, CopyInv, RunInv
<1>7. ASSUME NEW p \in Procs, Wipe(p) \/ (HalfRemove(p) /\ At(p, "wipe"))
      PROVE  HasCopy' \/ Excused
  <2>1. CASE Whole(releases[run[p].target])
    BY <1>7, <2>1 DEF Wipe, HalfRemove, TypeOK, RunOK, RollbackPcs, At
  <2>2. CASE ~Whole(releases[run[p].target])
    BY <1>7, <2>2 DEF Wipe, At, Excused
  <2>3. QED
    BY <2>1, <2>2
<1>8. ASSUME NEW p \in Procs, Restore(p) \/ HalfRestore(p) PROVE HasCopy'
  BY <1>8, VersionsAssumption DEF Restore, HalfRestore, Exists, TypeOK, Dir
<1>9. ASSUME NEW p \in Procs, HalfArchive(p) PROVE HasCopy'
  <2>1. run[p].ts \in Stamps /\ releases[run[p].ts].what = "empty"
    BY <1>9 DEF HalfArchive, At, CopyInv, RunInv, TypeOK, RunOK, DeployPcs
  <2>2. QED
    BY <1>9, <2>1, VersionsAssumption DEF HalfArchive, TypeOK
<1>10. ASSUME NEW p \in Procs, Kill(p) PROVE HasCopy' \/ Excused
  BY <1>1, <1>4, <1>6, <1>7, <1>8, <1>9, <1>10 DEF Kill, HalfExtract, HalfRemove, disk
<1>11. CASE Touch
  BY <1>11 DEF Touch, TypeOK, Dir
<1>12. QED
  <2>1. ASSUME NEW p \in Procs, Step(p) PROVE HasCopy' \/ Excused
    BY <1>1, <1>3, <1>4, <1>5, <1>6, <1>7, <1>8, <2>1
       DEF Step, DeployStep, Extract, Discard, Hook, Save, Restart, Settle, Activated, disk
  <2>2. CASE \E v \in Versions \cup {"broken"} : Upload(v)
    BY <1>1, <2>2 DEF Upload
  <2>3. CASE AppCrash \/ Reboot \/ UNCHANGED vars \/ \E p \in Procs : BeginRollback(p)
    BY <1>1, <2>3 DEF AppCrash, Reboot, vars, BeginRollback, disk
  <2>4. QED
    BY <1>2, <1>10, <1>11, <2>1, <2>2, <2>3 DEF Next

(***************************************************************************)
(* As long as invocations do not overlap or share a second, and wherever   *)
(* they are killed, the last complete copy of the application goes only    *)
(* when a rollback has chosen a release that is not one.                   *)
(***************************************************************************)
THEOREM LostOnlyByRollback ==
    ASSUME Serial, ~SameSecond PROVE Spec => OnlyRollbackLoses
<1>1. Init => CopyInv
  BY DEF Init, CopyInv, RunInv, Unused, NoDir, At, DeployPcs
<1>2. TypeOK /\ CopyInv /\ [Next]_vars => CopyInv'
  BY CopyInvSteps
<1>3. TypeOK /\ CopyInv /\ [Next]_vars
          => [HasCopy /\ ~HasCopy' =>
              \E p \in Procs : At(p, "wipe") /\ ~Whole(releases[run[p].target])]_vars
  BY CopySteps DEF Excused
<1>4. QED
  BY <1>1, <1>2, <1>3, TypeCorrect, PTL DEF Spec, OnlyRollbackLoses


-----------------------------------------------------------------------------
(***************************************************************************)
(* Deployments that overlap, in any number, and are not killed.            *)
(*                                                                         *)
(* A TIMESTAMP nobody else has keeps the directories of a deployment its   *)
(* own until it has installed its tree; a current/ that is there is        *)
(* complete; and while there is none, some deployment is about to install  *)
(* one, or none has removed it yet.                                        *)
(***************************************************************************)
EarlyPcs == {"archive", "extract", "remove", "install"}

OwnDirs(p) ==
    LET ts == run[p].ts IN
    /\ run[p].pc \notin RollbackPcs
    /\ run[p].pc \in EarlyPcs => ts <= stamp
    /\ At(p, "archive") => releases[ts].what \in {"none", "empty"}
    /\ run[p].pc \in {"archive", "extract"} => temp[ts].what = "none"
    /\ run[p].pc \in {"remove", "install"} => Whole(temp[ts])

Apart(p, q) ==
    p # q /\ run[p].pc \in EarlyPcs /\ run[q].pc \in EarlyPcs => run[p].ts # run[q].ts

Gap ==
    ~Exists(current) => \/ \E p \in Procs : At(p, "install")
                        \/ /\ owed = Nobody
                           /\ \A p \in Procs : run[p].pc \notin {"discard", "hook", "cleanup"}

OverlapInv ==
    /\ \A s \in Stamps : s > stamp => Unused(s)
    /\ Exists(current) => Whole(current)
    /\ \A p \in Procs : OwnDirs(p)
    /\ \A p, q \in Procs : Apart(p, q)
    /\ Gap

\* A step of one invocation leaves the others where they are.
LEMMA GotoOthers ==
    ASSUME TypeOK, NEW p \in Procs, NEW pc, Goto(p, pc)
    PROVE  \A q \in Procs \ {p} : run'[q] = run[q]
BY DEF TypeOK, RunOK, Goto

\* What is to show of a step by which p goes on.
LEMMA OverlapMoves ==
    ASSUME TypeOK, OverlapInv, NEW p \in Procs, NEW pc, Goto(p, pc),
           pc \in EarlyPcs => run[p].pc \in EarlyPcs, stamp' = stamp,
           \A s \in Stamps :
               \/ s = run[p].ts /\ run[p].pc \in EarlyPcs
               \/ temp'[s] = temp[s] /\ releases'[s].what \in {releases[s].what, "none"},
           OwnDirs(p)', Exists(current)' => Whole(current)', Gap'
    PROVE  OverlapInv'
<1>1. /\ run'[p].pc = pc /\ run'[p].ts = run[p].ts
      /\ \A q \in Procs \ {p} : run'[q] = run[q]
  BY GotoFields, GotoOthers
<1>2. \A q \in Procs : run[q].pc \in EarlyPcs => run[q].ts \in Stamps /\ run[q].ts <= stamp
  BY DEF OverlapInv, OwnDirs, EarlyPcs, DeployPcs, TypeOK, RunOK
<1>3. ASSUME NEW q \in Procs PROVE OwnDirs(q)'
  <2>1. CASE q = p
    BY <2>1
  <2>2. CASE q # p
    <3>1. OwnDirs(q) /\ Apart(p, q) /\ run'[q] = run[q]
      BY <1>1, <2>2 DEF OverlapInv
    <3>2. run[q].pc \in EarlyPcs =>
             /\ temp'[run[q].ts] = temp[run[q].ts]
             /\ releases'[run[q].ts].what \in {releases[run[q].ts].what, "none"}
      BY <1>2, <2>2, <3>1 DEF Apart
    <3> QED
      BY <3>1, <3>2 DEF OwnDirs, At, EarlyPcs, Whole
  <2> QED
    BY <2>1, <2>2
<1>4. \A q, r \in Procs : Apart(q, r)'
  BY <1>1 DEF OverlapInv, Apart
<1>5. ASSUME NEW s \in Stamps, s > stamp' PROVE Unused(s)'
  <2>1. Unused(s) /\ ~(s = run[p].ts /\ run[p].pc \in EarlyPcs)
    BY <1>2, <1>5, MaxRunsAssumption DEF OverlapInv, TypeOK, Stamps
  <2> QED
    BY <2>1 DEF Unused
<1> QED
  BY <1>3, <1>4, <1>5 DEF OverlapInv

\* The wait for a new current/ ends only when there is one.
LEMMA GapStays ==
    ASSUME TypeOK, Gap, NEW p \in Procs, NEW pc, Goto(p, pc), ~At(p, "install"),
           Exists(current)' <=> Exists(current), owed' = owed \/ owed' = Nobody,
           pc \in {"discard", "hook", "cleanup"} => run[p].pc \in {"discard", "hook", "cleanup"}
    PROVE  Gap'
<1>1. run'[p].pc = pc /\ \A q \in Procs \ {p} : run'[q] = run[q]
  BY GotoFields, GotoOthers
<1> SUFFICES ASSUME ~Exists(current)' PROVE Gap'
  BY DEF Gap
<1>2. CASE \E q \in Procs : At(q, "install")
  BY <1>1, <1>2 DEF Gap, At
<1>3. CASE owed = Nobody /\ \A q \in Procs : run[q].pc \notin {"discard", "hook", "cleanup"}
  BY <1>1, <1>3 DEF Gap, At
<1> QED
  BY <1>2, <1>3 DEF Gap

LEMMA OverlapSteps ==
    ASSUME Kinds \subseteq {"deploy"}, ~MayKill, ~SameSecond,
           TypeOK, OverlapInv, [Next]_vars
    PROVE  OverlapInv'
<1>1. Gap /\ (Exists(current) => Whole(current)) /\ \A p \in Procs : OwnDirs(p)
  BY DEF OverlapInv
<1>2. \A p \in Procs : run[p].pc \in DeployPcs => run[p].ts \in Stamps
  BY DEF TypeOK, RunOK
\* A step that touches nothing the invariant is about.
<1>3. ASSUME UNCHANGED <<releases, temp, stamp, run, owed>>, current'.what = current.what
      PROVE  OverlapInv'
  BY <1>3 DEF OverlapInv, Unused, OwnDirs, Apart, Gap, At, Exists, Whole
\* A step that leaves the trees alone.
<1>4. ASSUME NEW p \in Procs, NEW pc, Goto(p, pc), ~At(p, "install"), pc \notin EarlyPcs,
             pc \notin RollbackPcs,
             pc \in {"discard", "hook", "cleanup"} =>
                 run[p].pc \in {"discard", "hook", "cleanup"},
             owed' = owed \/ owed' = Nobody, UNCHANGED <<current, temp, stamp>>,
             \A s \in Stamps : releases'[s] \in {releases[s], NoDir}
      PROVE  OverlapInv'
  <2>1. Gap' /\ (Exists(current)' => Whole(current)')
    BY <1>1, <1>4, GapStays DEF Exists, Whole
  <2>2. OwnDirs(p)'
    BY <1>4, GotoFields DEF OwnDirs, EarlyPcs, At
  <2>3. \A s \in Stamps : releases'[s].what \in {releases[s].what, "none"}
    BY <1>4 DEF NoDir
  <2> QED
    BY <1>4, <2>1, <2>2, <2>3, OverlapMoves
<1>5. ASSUME NEW p \in Procs, NEW s \in Stamps, Begin(p, s) PROVE OverlapInv'
  <2>1. s = stamp + 1 /\ stamp' = s /\ s \in Nat /\ stamp \in Nat
    BY <1>5, MaxRunsAssumption DEF Begin, Stamps, TypeOK
  <2>2. Unused(s)
    BY <2>1 DEF OverlapInv
  <2>3. /\ run'[p].pc = "archive" /\ run'[p].ts = s
        /\ \A q \in Procs \ {p} : run'[q] = run[q]
    BY <1>5 DEF Begin, TypeOK, RunOK
  <2>4. /\ releases'[s].what = "empty" /\ temp' = temp
        /\ \A t \in Stamps \ {s} : releases'[t] = releases[t]
    BY <1>5, <2>2 DEF Begin, TypeOK, Unused, Exists
  <2>5. ASSUME NEW q \in Procs, run[q].pc \in EarlyPcs
        PROVE  run[q].ts \in Stamps /\ run[q].ts <= stamp /\ run[q].ts # s
    <3>1. run[q].ts \in Stamps /\ run[q].ts <= stamp
      BY <1>1, <1>2, <2>5 DEF OwnDirs, EarlyPcs, DeployPcs
    <3> QED
      BY <2>1, <3>1, MaxRunsAssumption DEF Stamps
  <2>6. ASSUME NEW q \in Procs PROVE OwnDirs(q)'
    <3>1. CASE q = p
      BY <2>1, <2>2, <2>3, <2>4, <3>1 DEF OwnDirs, At, EarlyPcs, RollbackPcs, Unused
    <3>2. CASE q # p
      <4>1. run[q].pc \in EarlyPcs => /\ releases'[run[q].ts] = releases[run[q].ts]
                                      /\ run[q].ts <= stamp'
        <5>1. ASSUME run[q].pc \in EarlyPcs PROVE run[q].ts <= stamp'
          BY <2>1, <2>5, <5>1, MaxRunsAssumption DEF Stamps
        <5> QED
          BY <2>4, <2>5, <5>1
      <4> QED
        BY <1>1, <2>3, <2>4, <3>2, <4>1 DEF OwnDirs, At, EarlyPcs, Whole
    <3> QED
      BY <3>1, <3>2
  <2>7. \A q, r \in Procs : Apart(q, r)'
    BY <2>3, <2>5 DEF OverlapInv, Apart
  <2>8. ASSUME NEW t \in Stamps, t > stamp' PROVE Unused(t)'
    <3>1. t > stamp /\ t # s
      BY <2>1, <2>8, MaxRunsAssumption DEF Stamps
    <3> QED
      BY <2>4, <3>1 DEF OverlapInv, Unused
  <2>9. current' = current /\ owed' = owed
    BY <1>5 DEF Begin
  <2>10. \A q \in Procs : At(q, "install") => At(q, "install")'
    BY <1>5, <2>3 DEF At, Begin, Ended, EndPcs
  <2>11. Gap'
    BY <1>1, <2>3, <2>9, <2>10 DEF Gap, At, Exists
  <2> QED
    BY <1>1, <2>6, <2>7, <2>8, <2>9, <2>11 DEF OverlapInv, Exists, Whole
<1>6. ASSUME NEW p \in Procs, Archive(p) PROVE OverlapInv'
  <2>1. /\ Goto(p, "extract") /\ At(p, "archive") /\ run[p].pc \in EarlyPcs
        /\ UNCHANGED <<current, temp, stamp, owed>>
    BY <1>6 DEF Archive, At, EarlyPcs
  <2>2. run'[p].pc = "extract" /\ run'[p].ts = run[p].ts
    BY <2>1, GotoFields
  <2>3. OwnDirs(p)'
    BY <1>1, <2>1, <2>2 DEF OwnDirs, At, EarlyPcs, RollbackPcs
  <2>4. Gap' /\ (Exists(current)' => Whole(current)')
    BY <1>1, <2>1, GapStays DEF Exists, Whole, At
  <2>5. \A s \in Stamps : s # run[p].ts => releases'[s] = releases[s]
    BY <1>6 DEF Archive, TypeOK
  <2> QED
    BY <2>1, <2>3, <2>4, <2>5, OverlapMoves DEF EarlyPcs
<1>7. ASSUME NEW p \in Procs, Extract(p) PROVE OverlapInv'
  <2>1. /\ At(p, "extract") /\ run[p].pc \in EarlyPcs /\ run[p].ts \in Stamps
        /\ UNCHANGED <<current, releases, stamp, owed>>
    BY <1>2, <1>7 DEF Extract, At, EarlyPcs, DeployPcs, Fail
  <2>2. PICK pc \in {"failed", "remove"} :
           /\ Goto(p, pc)
           /\ pc = "remove" => /\ tar \notin {"none", "broken"}
                               /\ temp' = [temp EXCEPT ![run[p].ts] =
                                     [what |-> Merge(@.what, tar), mtime |-> clock + 1]]
    BY <1>7 DEF Extract, Fail
  <2>3. run'[p].pc = pc /\ run'[p].ts = run[p].ts
    BY <2>2, GotoFields
  <2>4. OwnDirs(p)'
    <3>1. CASE pc = "failed"
      BY <2>3, <3>1 DEF OwnDirs, At, EarlyPcs, RollbackPcs
    <3>2. CASE pc = "remove"
      <4>1. temp[run[p].ts].what = "none"
        BY <1>1, <2>1 DEF OwnDirs, At
      <4>2. Whole(temp[run[p].ts])'
        BY <2>1, <2>2, <2>3, <3>2, <4>1 DEF TypeOK, Merge, Whole
      <4> QED
        BY <1>1, <2>1, <2>3, <3>2, <4>2 DEF OwnDirs, At, EarlyPcs, RollbackPcs
    <3> QED
      BY <3>1, <3>2
  <2>5. Gap' /\ (Exists(current)' => Whole(current)')
    BY <1>1, <2>1, <2>2, GapStays DEF Exists, Whole, At
  <2>6. \A s \in Stamps : s # run[p].ts => temp'[s] = temp[s]
    BY <1>7 DEF Extract, TypeOK
  <2> QED
    BY <2>1, <2>2, <2>4, <2>5, <2>6, OverlapMoves
<1>8. ASSUME NEW p \in Procs, Remove(p) PROVE OverlapInv'
  <2>1. /\ Goto(p, "install") /\ At(p, "remove") /\ run[p].pc \in EarlyPcs
        /\ UNCHANGED <<releases, temp, stamp>> /\ ~Exists(current)'
    BY <1>8 DEF Remove, At, EarlyPcs, Exists, NoDir
  <2>2. run'[p].pc = "install" /\ run'[p].ts = run[p].ts
    BY <2>1, GotoFields
  <2>3. OwnDirs(p)'
    BY <1>1, <2>1, <2>2 DEF OwnDirs, At, EarlyPcs, RollbackPcs, Whole
  <2>4. Gap'
    BY <2>2 DEF Gap, At
  <2> QED
    BY <2>1, <2>3, <2>4, OverlapMoves
<1>9. ASSUME NEW p \in Procs, Install(p) PROVE OverlapInv'
  <2>1. /\ At(p, "install") /\ run[p].pc \in EarlyPcs /\ run[p].ts \in Stamps
        /\ UNCHANGED <<releases, stamp>> /\ Whole(temp[run[p].ts])
    BY <1>1, <1>2, <1>9 DEF Install, At, EarlyPcs, DeployPcs, OwnDirs
  <2>2. Exists(temp[run[p].ts])
    BY <2>1, VersionsAssumption DEF Exists, Whole
  <2>3. /\ Goto(p, "discard") /\ temp' = [temp EXCEPT ![run[p].ts] = NoDir]
        /\ current' = IF Exists(current) THEN [current EXCEPT !.mtime = clock + 1]
                                         ELSE temp[run[p].ts]
    BY <1>9, <2>2 DEF Install
  <2>4. run'[p].pc = "discard" /\ run'[p].ts = run[p].ts
    BY <2>3, GotoFields
  <2>5. OwnDirs(p)'
    BY <2>4 DEF OwnDirs, At, EarlyPcs, RollbackPcs
  <2>6. Exists(current)' /\ Whole(current)'
    <3>1. CASE Exists(current)
      BY <1>1, <2>3, <3>1 DEF Exists, Whole, TypeOK, Dir
    <3>2. CASE ~Exists(current)
      BY <2>1, <2>2, <2>3, <3>2 DEF Exists, Whole
    <3> QED
      BY <3>1, <3>2
  <2>7. Gap'
    BY <2>6 DEF Gap
  <2>8. \A s \in Stamps : s # run[p].ts => temp'[s] = temp[s]
    BY <2>3 DEF TypeOK
  <2>9. "discard" \notin EarlyPcs
    BY DEF EarlyPcs
  <2> QED
    BY <2>1, <2>3, <2>5, <2>6, <2>7, <2>8, <2>9, OverlapMoves
<1>10. ASSUME NEW p \in Procs, Discard(p) \/ Hook(p) \/ Cleanup(p) PROVE OverlapInv'
  <2>1. PICK pc \in {"hook", "cleanup", "failed", "save", "ok"} : Goto(p, pc)
    BY <1>10 DEF Discard, Hook, Cleanup, Fail, Activate
  <2>2. /\ UNCHANGED <<current, temp, stamp>>
        /\ owed' = owed \/ owed' = Nobody
        /\ run[p].pc \in {"discard", "hook", "cleanup"}
    BY <1>10 DEF Discard, Hook, Cleanup, Fail, Activate, At, disk
  <2>3. \A s \in Stamps : releases'[s] \in {releases[s], NoDir}
    BY <1>10 DEF Discard, Hook, Cleanup, disk
  <2>4. ~At(p, "install") /\ pc \notin EarlyPcs /\ pc \notin RollbackPcs
    BY <2>1, <2>2 DEF At, EarlyPcs, RollbackPcs
  <2> QED
    BY <1>4, <2>1, <2>2, <2>3, <2>4
<1>11. ASSUME NEW p \in Procs, Save(p) \/ Restart(p) \/ Settle(p) PROVE OverlapInv'
  <2>1. PICK pc \in {"restart", "settle", "failed", "ok"} : Goto(p, pc)
    BY <1>11 DEF Save, Restart, Settle, Activated, Fail
  <2>2. /\ UNCHANGED <<current, temp, stamp, releases>>
        /\ owed' = owed \/ owed' = Nobody
        /\ run[p].pc \in PM2Pcs
    BY <1>11 DEF Save, Restart, Settle, Activated, Fail, At, PM2Pcs, disk
  <2>3. /\ ~At(p, "install") /\ pc \notin EarlyPcs /\ pc \notin RollbackPcs
        /\ pc \notin {"discard", "hook", "cleanup"}
    BY <2>1, <2>2 DEF At, EarlyPcs, RollbackPcs, PM2Pcs
  <2> QED
    BY <1>4, <2>1, <2>2, <2>3
<1>12. ASSUME NEW p \in Procs
       PROVE  ~Wipe(p) /\ ~Restore(p) /\ ~BeginRollback(p) /\ ~Kill(p)
  BY <1>1 DEF Wipe, Restore, BeginRollback, Kill, OwnDirs, At, RollbackPcs
<1>13. ASSUME NEW v \in Versions \cup {"broken"}, Upload(v) PROVE OverlapInv'
  BY <1>3, <1>13 DEF Upload
<1>14. CASE Touch
  BY <1>3, <1>14 DEF Touch, TypeOK, Dir
<1>15. CASE AppCrash \/ Reboot \/ UNCHANGED vars
  BY <1>3, <1>15 DEF AppCrash, Reboot, vars, disk
<1> QED
  BY <1>5, <1>6, <1>7, <1>8, <1>9, <1>10, <1>11, <1>12, <1>13, <1>14, <1>15
     DEF Next, Step, DeployStep

LEMMA OverlapInit == Init => OverlapInv
<1> SUFFICES ASSUME Init PROVE OverlapInv
  OBVIOUS
<1>1. Exists(current) => Whole(current)
  BY DEF Init, Exists, Whole, NoDir
<1>2. \A p \in Procs : run[p].pc = "idle"
  BY DEF Init
<1>3. \A s \in Stamps : Unused(s)
  BY DEF Init, Unused, NoDir
<1>4. \A p \in Procs : OwnDirs(p)
  BY <1>2 DEF OwnDirs, At, EarlyPcs, RollbackPcs
<1>5. \A p, q \in Procs : Apart(p, q)
  BY <1>2 DEF Apart, EarlyPcs
<1>6. Gap
  BY <1>2 DEF Gap, Init
<1> QED
  BY <1>1, <1>3, <1>4, <1>5, <1>6 DEF OverlapInv

(***************************************************************************)
(* However many deployments overlap, current/ is there once the last of    *)
(* them has ended, if any of them removed it: as long as none is killed,   *)
(* none is a rollback and no two begin in the same second.                 *)
(***************************************************************************)
THEOREM SomebodyInstalls ==
    ASSUME Kinds \subseteq {"deploy"}, ~MayKill, ~SameSecond
    PROVE  Spec => []NeverLeftWithout
<1>1. TypeOK /\ OverlapInv /\ [Next]_vars => OverlapInv'
  BY OverlapSteps
<1>2. OverlapInv => NeverLeftWithout
  BY DEF OverlapInv, Gap, NeverLeftWithout
<1> QED
  BY <1>1, <1>2, OverlapInit, TypeCorrect, PTL DEF Spec

(***************************************************************************)
(* Nor do such deployments lose the last complete version on disk: the     *)
(* clean-up of one may run while another has removed current/, and finds   *)
(* the tree that is about to be installed.                                 *)
(***************************************************************************)
LEMMA OverlapCopySteps ==
    ASSUME Kinds \subseteq {"deploy"}, ~MayKill, TypeOK, OverlapInv, OnDisk, [Next]_vars
    PROVE  OnDisk'
<1>1. Gap /\ (Exists(current) => Whole(current)) /\ \A p \in Procs : OwnDirs(p)
  BY DEF OverlapInv
<1>2. \A p \in Procs : run[p].pc \in DeployPcs => run[p].ts \in Stamps
  BY DEF TypeOK, RunOK
<1>3. ASSUME current'.what = current.what,
             \A s \in Stamps : /\ Whole(releases[s]) => Whole(releases'[s])
                               /\ Whole(temp[s]) => Whole(temp'[s])
      PROVE  OnDisk'
  BY <1>3 DEF OnDisk, HasCopy, Whole
<1>4. ASSUME UNCHANGED disk PROVE OnDisk'
  BY <1>3, <1>4 DEF disk
<1>5. ASSUME NEW p \in Procs, NEW s \in Stamps, Begin(p, s) PROVE OnDisk'
  BY <1>3, <1>5, VersionsAssumption DEF Begin, TypeOK, Exists, Whole
<1>6. ASSUME NEW p \in Procs, Archive(p) PROVE OnDisk'
  <2>1. ~Whole(releases[run[p].ts])
    BY <1>1, <1>6, VersionsAssumption DEF Archive, OwnDirs, Whole
  <2> QED
    BY <1>3, <1>6, <2>1 DEF Archive, TypeOK
<1>7. ASSUME NEW p \in Procs, Extract(p) PROVE OnDisk'
  <2>1. ~Whole(temp[run[p].ts])
    BY <1>1, <1>7, VersionsAssumption DEF Extract, OwnDirs, Whole, At
  <2> QED
    BY <1>3, <1>7, <2>1 DEF Extract, TypeOK
<1>8. ASSUME NEW p \in Procs, Remove(p) PROVE OnDisk'
  <2>1. run[p].ts \in Stamps /\ Whole(temp[run[p].ts]) /\ temp' = temp
    BY <1>1, <1>2, <1>8 DEF Remove, OwnDirs, At, DeployPcs
  <2> QED
    BY <2>1 DEF OnDisk, Whole
<1>9. ASSUME NEW p \in Procs, Install(p) PROVE OnDisk'
  <2>1. Whole(temp[run[p].ts]) /\ Exists(temp[run[p].ts])
    BY <1>1, <1>9, VersionsAssumption DEF Install, OwnDirs, At, Whole, Exists
  <2>2. CASE Exists(current)
    BY <1>1, <1>9, <2>1, <2>2 DEF Install, OnDisk, HasCopy, Whole, TypeOK, Dir
  <2>3. CASE ~Exists(current)
    BY <1>9, <2>1, <2>3 DEF Install, OnDisk, HasCopy, Whole
  <2> QED
    BY <2>2, <2>3
<1>10. ASSUME NEW p \in Procs, Cleanup(p) PROVE OnDisk'
  <2>1. At(p, "cleanup") /\ current' = current /\ temp' = temp
    BY <1>10 DEF Cleanup
  <2>2. CASE Exists(current)
    BY <1>1, <2>1, <2>2 DEF OnDisk, HasCopy, Whole
  <2>3. CASE ~Exists(current)
    <3>1. PICK q \in Procs : At(q, "install")
      BY <1>1, <2>1, <2>3 DEF Gap, At
    <3>2. run[q].ts \in Stamps /\ Whole(temp[run[q].ts])
      BY <1>1, <1>2, <3>1 DEF OwnDirs, At, DeployPcs
    <3> QED
      BY <2>1, <3>2 DEF OnDisk, Whole
  <2> QED
    BY <2>2, <2>3
<1>11. ASSUME NEW p \in Procs, Discard(p) \/ Hook(p) \/ Save(p) \/ Restart(p) \/ Settle(p)
       PROVE  OnDisk'
  BY <1>3, <1>11 DEF Discard, Hook, Save, Restart, Settle, Activated, disk
<1>12. ASSUME NEW p \in Procs
       PROVE  ~Wipe(p) /\ ~Restore(p) /\ ~BeginRollback(p) /\ ~Kill(p)
  BY <1>1 DEF Wipe, Restore, BeginRollback, Kill, OwnDirs, At, RollbackPcs
<1>13. ASSUME NEW v \in Versions \cup {"broken"}, Upload(v) PROVE OnDisk'
  BY <1>3, <1>13 DEF Upload
<1>14. CASE Touch
  BY <1>3, <1>14 DEF Touch, TypeOK, Dir
<1>15. CASE AppCrash \/ Reboot \/ UNCHANGED vars
  BY <1>4, <1>15 DEF AppCrash, Reboot, vars
<1> QED
  BY <1>5, <1>6, <1>7, <1>8, <1>9, <1>10, <1>11, <1>12, <1>13, <1>14, <1>15
     DEF Next, Step, DeployStep

(***************************************************************************)
(* Overlapping deployments that are not killed, and do not begin in the    *)
(* same second, keep a complete version on disk once there was one, be it  *)
(* in a tree that one of them has yet to install.                          *)
(***************************************************************************)
THEOREM OverlapKeeps ==
    ASSUME Kinds \subseteq {"deploy"}, ~MayKill, ~SameSecond
    PROVE  Spec => OverlapKeepsACopy
<1>1. TypeOK /\ OverlapInv /\ [Next]_vars => OverlapInv'
  BY OverlapSteps
<1>2. TypeOK /\ OverlapInv /\ [Next]_vars => [OnDisk => OnDisk']_vars
  BY OverlapCopySteps
<1> QED
  BY <1>1, <1>2, OverlapInit, TypeCorrect, PTL DEF Spec, OverlapKeepsACopy
=============================================================================
