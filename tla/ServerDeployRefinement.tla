----------------------- MODULE ServerDeployRefinement -----------------------
(***************************************************************************)
(* Invocations of server-deploy.sh that do not overlap and are not killed  *)
(* implement ReleaseStore.                                                 *)
(***************************************************************************)
EXTENDS ServerDeployProofs, FiniteSetTheorems

(***************************************************************************)
(* The reason is in the modification times.  cp -a gives a release the     *)
(* time of the tree it copies, so that trees of the same time are the same *)
(* tree, the live tree is never older than a release, and the releases of  *)
(* the greatest time hold the tree that was archived last.                 *)
(***************************************************************************)
Tree == IF Exists(current) THEN current.what ELSE "empty"
HasTree == current.what \notin {"none", "empty"}

Latest(s) == \A t \in Present : releases[t].mtime <= releases[s].mtime

Past ==
    /\ current.mtime <= clock
    /\ \A s \in Stamps : releases[s].mtime <= clock /\ temp[s].mtime <= clock

Unbroken ==
    /\ current.what # "broken" /\ undo # "broken"
    /\ \A s \in Stamps : releases[s].what # "broken"

SameTimeSameTree ==
    \A s \in Present :
        /\ Exists(current) /\ releases[s].mtime = current.mtime
               => releases[s].what = current.what
        /\ \A t \in Present : releases[s].mtime = releases[t].mtime
               => releases[s].what = releases[t].what

\* While a deployment has made its release but not yet filled it, that release
\* is the latest and does not count.
Counted(s) == s \in Present /\ \A p \in Procs : At(p, "archive") => s # run[p].ts

LiveIsLatest ==
    HasTree => \A s \in Stamps : Counted(s) => releases[s].mtime <= current.mtime

LatestIsUndo ==
    (\A p \in Procs : ~At(p, "archive"))
        => \A s \in Present : Latest(s) => releases[s].what = undo

StoreRun(p) ==
    LET ts == run[p].ts IN
    /\ At(p, "archive") =>
           \A s \in Present : s # ts => releases[s].mtime < releases[ts].mtime
    /\ run[p].pc \in {"extract", "remove"} => undo = Tree
    /\ run[p].pc \in {"remove", "install"} =>
           \A s \in Present : releases[s].mtime < temp[ts].mtime
    /\ run[p].pc \in RollbackPcs => run[p].target \in Present /\ Latest(run[p].target)
    /\ At(p, "restore") => ~Exists(current)

StoreInv ==
    /\ Past /\ Unbroken /\ SameTimeSameTree /\ LiveIsLatest /\ LatestIsUndo
    /\ \A p \in Procs : StoreRun(p)

-----------------------------------------------------------------------------
(***************************************************************************)
(* Releases by age.                                                        *)
(***************************************************************************)
LEMMA Times ==
    ASSUME TypeOK
    PROVE  /\ current.mtime \in Nat /\ clock \in Nat
           /\ \A s \in Stamps : releases[s].mtime \in Nat /\ temp[s].mtime \in Nat /\ s \in Nat
  BY DEF TypeOK, Dir, Stamps

\* head -1 of ls -t is a latest release.
LEMMA NewestIsLatest == ASSUME TypeOK, NEW s \in Stamps, Newest(s) PROVE Latest(s)
  BY Times DEF Newest, Ahead, Latest, Before, Present

\* What tail -n +(Keep+1) cuts off is no later than what it leaves.
LEMMA VictimsAreOld ==
    ASSUME TypeOK, NEW s \in Present, s \notin Victims, NEW u \in Victims
    PROVE  releases[u].mtime <= releases[s].mtime
<1> SUFFICES ASSUME releases[u].mtime > releases[s].mtime PROVE FALSE
  BY Times DEF Victims, Present
<1>1. Ahead(u) \subseteq Ahead(s)
  BY Times DEF Ahead, Before, Victims, Present
<1>2. IsFiniteSet(Ahead(s))
  <2>1. IsFiniteSet(Stamps)
    BY FS_Interval, MaxRunsAssumption DEF Stamps
  <2>2. QED
    BY <2>1, FS_Subset DEF Ahead, Present
<1>3. /\ IsFiniteSet(Ahead(u)) /\ Cardinality(Ahead(u)) <= Cardinality(Ahead(s))
      /\ Cardinality(Ahead(u)) \in Nat /\ Cardinality(Ahead(s)) \in Nat
  BY <1>1, <1>2, FS_Subset, FS_CardinalityType
<1>4. QED
  BY <1>3, KeepAssumption DEF Victims

-----------------------------------------------------------------------------
(***************************************************************************)
(* The invariant.                                                          *)
(***************************************************************************)
StoreFiles == Past /\ Unbroken /\ SameTimeSameTree /\ LiveIsLatest /\ LatestIsUndo

LEMMA StoreParts ==
    ASSUME Serial, NEW p \in Procs
    PROVE  /\ StoreInv <=> StoreFiles /\ StoreRun(p)
           /\ StoreFiles' /\ StoreRun(p)' => StoreInv'
  BY DEF Serial, StoreInv, StoreFiles

\* A step of p, outside the archiving, that changes no directory.
LEMMA QuietStore ==
    ASSUME Serial, StoreInv, NEW p \in Procs, ~At(p, "archive"), ~At(p, "archive")',
           StoreRun(p)', UNCHANGED <<releases, current, temp, clock, undo>>
    PROVE  StoreInv'
<1>1. \A q \in Procs : ~At(q, "archive") /\ ~At(q, "archive")'
  BY DEF Serial
<1>2. StoreFiles'
  BY <1>1 DEF StoreInv, StoreFiles, Past, Unbroken, SameTimeSameTree, LiveIsLatest,
              LatestIsUndo, Present, Latest, Counted, HasTree
<1>3. QED
  BY <1>2, StoreParts

LEMMA BeginStore ==
    ASSUME Serial, ~SameSecond, TypeOK, CopyInv, StoreInv,
           NEW p \in Procs, NEW s \in Stamps, Begin(p, s)
    PROVE  StoreInv'
<1>1. /\ releases[s].what = "none"
      /\ releases' = [releases EXCEPT ![s] = [what |-> "empty", mtime |-> clock + 1]]
      /\ clock' = clock + 1
      /\ UNCHANGED <<current, temp, undo>>
  <2>1. s > stamp
    BY MaxRunsAssumption DEF Begin, TypeOK, Stamps
  <2>2. Unused(s)
    BY <2>1 DEF CopyInv
  <2>3. QED
    BY <2>2 DEF Begin, Unused, TypeOK, Exists
<1>2. At(p, "archive")' /\ run'[p].ts = s
  BY DEF Begin, TypeOK, RunOK, At
<1>3. Present' = Present \cup {s} /\ s \notin Present
  BY <1>1 DEF Present, Exists, TypeOK
<1>4. \A t \in Present : releases'[t] = releases[t] /\ releases[t].mtime < clock'
  BY <1>1, <1>3, Times DEF Present, StoreInv, Past, TypeOK
<1>5. releases'[s] = [what |-> "empty", mtime |-> clock'] /\ current.mtime < clock'
  BY <1>1, Times DEF StoreInv, Past, TypeOK
<1>6. Past'
  <2>1. ASSUME NEW t \in Stamps PROVE releases'[t].mtime <= clock' /\ temp'[t].mtime <= clock'
    BY <1>1, Times DEF StoreInv, Past, TypeOK
  <2>2. QED
    BY <1>1, <1>5, <2>1, Times DEF Past
<1>7. Unbroken'
  BY <1>1 DEF StoreInv, Unbroken, TypeOK
<1>8. SameTimeSameTree'
  BY <1>1, <1>3, <1>4, <1>5, Times DEF StoreInv, SameTimeSameTree, Present
<1>9. \A t \in Stamps : Counted(t)' => t \in Present
  BY <1>2, <1>3 DEF Counted
<1>10. \A t \in Present : Counted(t)
  BY DEF Counted, Begin, Ended, EndPcs, At, Serial
<1>11. LiveIsLatest'
  BY <1>1, <1>4, <1>9, <1>10 DEF StoreInv, LiveIsLatest, HasTree, Present
<1>12. LatestIsUndo'
  BY <1>2 DEF LatestIsUndo
<1>13. StoreRun(p)'
  BY <1>2, <1>3, <1>4, <1>5 DEF StoreRun, At, RollbackPcs
<1>14. QED
  BY <1>6, <1>7, <1>8, <1>11, <1>12, <1>13, StoreParts DEF StoreFiles

LEMMA ArchiveStore ==
    ASSUME Serial, TypeOK, CopyInv, StoreInv, NEW p \in Procs, Archive(p)
    PROVE  StoreInv'
<1> DEFINE ts == run[p].ts
<1>1. /\ At(p, "archive") /\ ts \in Stamps /\ releases[ts].what = "empty"
      /\ UNCHANGED <<current, temp, clock>>
  BY DEF Archive, At, CopyInv, RunInv, TypeOK, RunOK, DeployPcs
<1>2. run'[p].pc = "extract" /\ run'[p].ts = ts
  BY GotoFields DEF Archive
<1>3. \A t \in Stamps : Counted(t) <=> t \in Present \ {ts}
  BY <1>1 DEF Counted, Serial
<1>4. \A s \in Present : s # ts => releases[s].mtime < releases[ts].mtime
  BY <1>1, StoreParts DEF StoreRun
<1>5. StoreRun(p)'
  BY <1>1, <1>2 DEF StoreRun, At, RollbackPcs, Archive, Tree, HasTree, Exists
<1>6. CASE ~HasTree
  <2>1. releases' = releases /\ undo' = "empty"
    BY <1>6 DEF Archive, HasTree
  <2>2. Present' = Present
    BY <2>1 DEF Present
  <2>3. Past' /\ Unbroken' /\ SameTimeSameTree'
    BY <1>1, <2>1, <2>2 DEF StoreInv, Past, Unbroken, SameTimeSameTree
  <2>4. LiveIsLatest'
    BY <1>1, <1>6 DEF LiveIsLatest, HasTree
  <2>5. ASSUME NEW s \in Present, Latest(s) PROVE s = ts
    BY <1>1, <1>4, <2>5, Times, VersionsAssumption DEF Latest, Present, Exists
  <2>6. LatestIsUndo'
    BY <1>1, <2>1, <2>2, <2>5 DEF LatestIsUndo, Latest
  <2>7. QED
    BY <1>5, <2>3, <2>4, <2>6, StoreParts DEF StoreFiles
<1>7. CASE HasTree
  <2>1. /\ undo' = current.what
        /\ releases' = [releases EXCEPT ![ts] =
               [what |-> current.what, mtime |-> current.mtime]]
    BY <1>1, <1>7 DEF Archive, HasTree, Merge
  <2>2. Present' = Present
    BY <1>1, <1>7, <2>1 DEF Present, Exists, HasTree, TypeOK
  <2>3. /\ releases'[ts].what = current.what /\ releases'[ts].mtime = current.mtime
        /\ \A t \in Stamps : t # ts => releases'[t] = releases[t]
    BY <1>1, <2>1 DEF TypeOK
  <2>4. Past' /\ Unbroken'
    BY <1>1, <2>1, <2>3 DEF StoreInv, Past, Unbroken
  <2>5. SameTimeSameTree'
    BY <1>1, <1>7, <2>2, <2>3 DEF StoreInv, SameTimeSameTree, HasTree, Exists, Present
  <2>6. \A t \in Present : releases'[t].mtime <= current.mtime
    BY <1>3, <1>7, <2>3, Times DEF StoreInv, LiveIsLatest, Present
  <2>7. LiveIsLatest'
    BY <1>1, <2>2, <2>6 DEF LiveIsLatest, Counted
  <2>8. ts \in Present
    BY <1>1, VersionsAssumption DEF Present, Exists
  <2>9. ASSUME NEW s \in Present, Latest(s)' PROVE releases'[s].what = current.what
    <3>1. releases'[s].mtime = current.mtime
      <4>1. releases'[ts].mtime <= releases'[s].mtime
        BY <2>2, <2>8, <2>9 DEF Latest
      <4>2. releases'[s].mtime \in Nat
        BY <2>3, Times DEF Present
      <4>3. QED
        BY <2>3, <2>6, <4>1, <4>2, Times
    <3>2. QED
      BY <1>1, <1>7, <2>2, <2>5, <3>1 DEF SameTimeSameTree, HasTree, Exists
  <2>10. LatestIsUndo'
    BY <2>1, <2>2, <2>9 DEF LatestIsUndo
  <2>11. QED
    BY <1>5, <2>4, <2>5, <2>7, <2>10, StoreParts DEF StoreFiles
<1>8. QED
  BY <1>6, <1>7

\* rm -rf current, in a deployment or a rollback
LEMMA RemoveStore ==
    ASSUME Serial, TypeOK, StoreInv, NEW p \in Procs, Remove(p) \/ Wipe(p)
    PROVE  StoreInv'
<1>1. current' = NoDir /\ UNCHANGED <<releases, temp, clock, undo>>
  BY DEF Remove, Wipe
<1>2. ~HasTree' /\ ~Exists(current)'
  BY <1>1 DEF HasTree, NoDir, Exists
<1>3. Present' = Present
  BY <1>1 DEF Present
<1>4. Past' /\ Unbroken'
  BY <1>1, Times DEF StoreInv, Past, Unbroken, NoDir
<1>5. SameTimeSameTree' /\ LiveIsLatest'
  BY <1>1, <1>2, <1>3 DEF StoreInv, SameTimeSameTree, LiveIsLatest
<1>6. LatestIsUndo'
  <2>1. \A q \in Procs : ~At(q, "archive")
    BY DEF Remove, Wipe, At, Serial
  <2>2. QED
    BY <1>1, <1>3, <2>1 DEF StoreInv, LatestIsUndo, Latest
<1>7. StoreRun(p)'
  <2>1. CASE Remove(p)
    <3>1. run'[p].pc = "install" /\ run'[p].ts = run[p].ts
      BY <2>1, GotoFields DEF Remove
    <3>2. QED
      BY <1>1, <1>3, <2>1, <3>1, StoreParts DEF Remove, StoreRun, At, RollbackPcs
  <2>2. CASE Wipe(p)
    <3>1. run'[p].pc = "restore" /\ run'[p].target = run[p].target
      BY <2>2 DEF Wipe, Goto, TypeOK, RunOK, Run
    <3>2. QED
      BY <1>1, <1>2, <1>3, <2>2, <3>1, StoreParts
         DEF Wipe, StoreRun, At, RollbackPcs, Latest
  <2>3. QED
    BY <2>1, <2>2
<1>8. QED
  BY <1>4, <1>5, <1>6, <1>7, StoreParts DEF StoreFiles

LEMMA ExtractStore ==
    ASSUME Serial, TypeOK, CopyInv, StoreInv, NEW p \in Procs, Extract(p)
    PROVE  StoreInv'
<1> DEFINE ts == run[p].ts
<1>1. /\ run'[p].pc \in {"remove", "failed"} /\ run'[p].ts = ts /\ ts \in Stamps
      /\ UNCHANGED <<releases, current, undo>>
  BY GotoFields DEF Extract, Fail, At, TypeOK, RunOK, DeployPcs
<1>2. clock' \in Nat /\ clock <= clock'
  BY Times DEF Extract
<1>3. Present' = Present
  BY <1>1 DEF Present
<1>4. Past'
  <2>1. ASSUME NEW t \in Stamps PROVE temp'[t].mtime <= clock'
    BY <1>2, Times DEF StoreInv, Past, Extract, TypeOK
  <2>2. QED
    BY <1>1, <1>2, <2>1, Times DEF StoreInv, Past
<1>5. ~At(p, "archive") /\ ~At(p, "archive")'
  BY <1>1 DEF Extract, At
<1>6. Unbroken' /\ SameTimeSameTree' /\ LiveIsLatest' /\ LatestIsUndo'
  BY <1>1, <1>3, <1>5
     DEF StoreInv, Unbroken, SameTimeSameTree, LiveIsLatest, LatestIsUndo, HasTree, Latest,
         Counted, Serial
<1>7. StoreRun(p)'
  <2>1. CASE run'[p].pc = "failed"
    BY <2>1 DEF StoreRun, At, RollbackPcs
  <2>2. CASE run'[p].pc = "remove"
    <3>1. temp'[ts].mtime = clock + 1
      BY <1>1, <2>2, GotoFields DEF Extract, Fail, TypeOK
    <3>2. undo' = Tree'
      BY <1>1, StoreParts DEF Extract, StoreRun, At, Tree
    <3>3. \A s \in Present : releases'[s].mtime < temp'[ts].mtime
      BY <1>1, <3>1, Times DEF StoreInv, Past, Present
    <3>4. QED
      BY <1>1, <1>3, <2>2, <3>2, <3>3 DEF StoreRun, At, RollbackPcs
  <2>3. QED
    BY <1>1, <2>1, <2>2
<1>8. QED
  BY <1>4, <1>6, <1>7, StoreParts DEF StoreFiles

LEMMA InstallStore ==
    ASSUME Serial, TypeOK, CopyInv, StoreInv, NEW p \in Procs, Install(p)
    PROVE  StoreInv'
<1> DEFINE ts == run[p].ts
<1>1. /\ ts \in Stamps /\ Whole(temp[ts]) /\ ~Exists(current)
      /\ \A s \in Present : releases[s].mtime < temp[ts].mtime
  BY StoreParts DEF Install, At, TypeOK, RunOK, DeployPcs, CopyInv, RunInv, StoreRun
<1>2. Exists(temp[ts]) /\ temp[ts].what # "broken"
  BY <1>1, VersionsAssumption DEF Whole, Exists
<1>3. /\ current' = temp[ts] /\ temp' = [temp EXCEPT ![ts] = NoDir]
      /\ run'[p].pc = "discard" /\ UNCHANGED <<releases, clock, undo>>
  BY <1>1, <1>2, GotoFields DEF Install
<1>4. Present' = Present
  BY <1>3 DEF Present
<1>5. Past' /\ Unbroken'
  BY <1>1, <1>2, <1>3, Times DEF StoreInv, Past, Unbroken, NoDir, TypeOK
<1>6. SameTimeSameTree' /\ LiveIsLatest'
  BY <1>1, <1>3, <1>4, Times
     DEF StoreInv, SameTimeSameTree, LiveIsLatest, Counted, Present
<1>7. LatestIsUndo'
  <2>1. \A q \in Procs : ~At(q, "archive")
    BY DEF Install, At, Serial
  <2>2. QED
    BY <1>3, <1>4, <2>1 DEF StoreInv, LatestIsUndo, Latest
<1>8. StoreRun(p)'
  BY <1>3 DEF StoreRun, At, RollbackPcs
<1>9. QED
  BY <1>5, <1>6, <1>7, <1>8, StoreParts DEF StoreFiles

LEMMA CleanupStore ==
    ASSUME Serial, TypeOK, StoreInv, NEW p \in Procs, Cleanup(p)
    PROVE  StoreInv'
<1>1. /\ releases' = [s \in Stamps |-> IF s \in Victims THEN NoDir ELSE releases[s]]
      /\ run'[p].pc \in {"save", "ok"} /\ UNCHANGED <<current, temp, clock, undo>>
  BY GotoFields DEF Cleanup, Activate
<1>2. Present' = Present \ Victims
  BY <1>1 DEF Present, Exists, NoDir
<1>3. \A s \in Present \ Victims : releases'[s] = releases[s]
  BY <1>1 DEF Present
<1>4. Past' /\ Unbroken'
  BY <1>1, Times DEF StoreInv, Past, Unbroken, NoDir
<1>5. \A q \in Procs : ~At(q, "archive")
  BY DEF Cleanup, At, Serial
<1>6. SameTimeSameTree' /\ LiveIsLatest'
  BY <1>1, <1>2, <1>3, <1>5 DEF StoreInv, SameTimeSameTree, LiveIsLatest, HasTree, Counted
<1>7. LatestIsUndo'
  <2>1. ASSUME NEW s \in Present \ Victims, Latest(s)' PROVE Latest(s)
    <3>1. ASSUME NEW t \in Present \ Victims
          PROVE  releases[t].mtime <= releases[s].mtime
      BY <1>2, <1>3, <2>1 DEF Latest
    <3>2. ASSUME NEW t \in Victims PROVE releases[t].mtime <= releases[s].mtime
      BY VictimsAreOld
    <3>3. QED
      BY <3>1, <3>2 DEF Latest
  <2>2. QED
    BY <1>1, <1>2, <1>3, <1>5, <2>1 DEF StoreInv, LatestIsUndo
<1>8. StoreRun(p)'
  BY <1>1 DEF StoreRun, At, RollbackPcs
<1>9. QED
  BY <1>4, <1>6, <1>7, <1>8, StoreParts DEF StoreFiles

LEMMA RestoreStore ==
    ASSUME Serial, TypeOK, StoreInv, NEW p \in Procs, Restore(p)
    PROVE  StoreInv' /\ current' = releases[run[p].target]
<1> DEFINE target == run[p].target
<1>1. target \in Present /\ Latest(target) /\ ~Exists(current)
  BY StoreParts DEF Restore, StoreRun, At, RollbackPcs
<1>2. /\ current' = releases[target] /\ run'[p].pc \in {"save", "ok"}
      /\ UNCHANGED <<releases, temp, clock, undo>>
  BY <1>1, GotoFields DEF Restore, Present
<1>3. Present' = Present
  BY <1>2 DEF Present
<1>4. Past' /\ Unbroken'
  BY <1>1, <1>2 DEF StoreInv, Past, Unbroken, Present
<1>5. SameTimeSameTree'
  BY <1>1, <1>2, <1>3 DEF StoreInv, SameTimeSameTree
<1>6. LiveIsLatest'
  BY <1>1, <1>2, <1>3 DEF LiveIsLatest, Latest, Counted
<1>7. LatestIsUndo'
  <2>1. \A q \in Procs : ~At(q, "archive")
    BY DEF Restore, At, Serial
  <2>2. QED
    BY <1>2, <1>3, <2>1 DEF StoreInv, LatestIsUndo, Latest
<1>8. StoreRun(p)'
  BY <1>2 DEF StoreRun, At, RollbackPcs
<1>9. QED
  BY <1>2, <1>4, <1>5, <1>6, <1>7, <1>8, StoreParts DEF StoreFiles

LEMMA TouchStore == ASSUME TypeOK, StoreInv, Touch PROVE StoreInv' /\ Tree' = Tree
<1>1. /\ current'.what = current.what /\ current'.mtime = clock + 1 /\ clock' = clock + 1
      /\ UNCHANGED <<releases, temp, run, undo>>
  BY DEF Touch, TypeOK, Dir
<1>2. Present' = Present /\ Tree' = Tree
  BY <1>1 DEF Present, Tree, Exists
<1>3. \A s \in Stamps : releases[s].mtime < current'.mtime /\ temp[s].mtime < clock'
  BY <1>1, Times DEF StoreInv, Past
<1>4. Past' /\ Unbroken'
  BY <1>1, <1>3, Times DEF StoreInv, Past, Unbroken
<1>5. SameTimeSameTree' /\ LiveIsLatest'
  BY <1>1, <1>2, <1>3, Times
     DEF StoreInv, SameTimeSameTree, LiveIsLatest, Counted, Present
<1>6. LatestIsUndo'
  BY <1>1, <1>2 DEF StoreInv, LatestIsUndo, Latest, At
<1>7. \A p \in Procs : StoreRun(p)'
  BY <1>1, <1>2 DEF StoreInv, StoreRun, Latest, At, Exists
<1>8. QED
  BY <1>2, <1>4, <1>5, <1>6, <1>7 DEF StoreInv

\* The steps of p that move on without touching a directory.
MoveOn(p) ==
    \/ Discard(p) \/ Hook(p) \/ BeginRollback(p)
    \/ Save(p) \/ Restart(p) \/ Settle(p)

LEMMA MoveOnStore ==
    ASSUME Serial, TypeOK, CopyInv, StoreInv, NEW p \in Procs, MoveOn(p)
    PROVE  StoreInv' /\ UNCHANGED <<releases, current, undo>>
           /\ run[p].pc \notin {"install", "restore"}
           /\ run'[p].pc \notin {"install", "restore"}
<1>1. UNCHANGED <<releases, current, temp, clock, undo>>
  BY DEF MoveOn, Discard, Hook, BeginRollback, Save, Restart, Settle, Activated, disk
<1>2. run[p].pc \notin {"archive", "install", "restore"}
  BY DEF MoveOn, Discard, Hook, BeginRollback, Save, Restart, Settle, Activated, At, Ended, EndPcs
<1>3. CASE BeginRollback(p)
  <2>1. \/ run'[p].pc = "failed"
        \/ run'[p].pc = "wipe" /\ run'[p].target \in Present /\ Latest(run'[p].target)
    BY <1>3, NewestIsLatest DEF BeginRollback, TypeOK, RunOK, Newest
  <2>2. StoreRun(p)'
    BY <1>1, <2>1 DEF StoreRun, At, RollbackPcs, Present, Latest
  <2>3. QED
    BY <1>1, <1>2, <2>1, <2>2, QuietStore DEF At
<1>4. CASE ~BeginRollback(p)
  <2>1. run'[p].pc \in {"hook", "cleanup", "restart", "settle", "ok", "failed"}
    BY <1>4, GotoFields DEF MoveOn, Discard, Hook, Save, Restart, Settle, Activated, Fail
  <2>2. StoreRun(p)'
    BY <2>1 DEF StoreRun, At, RollbackPcs
  <2>3. QED
    BY <1>1, <1>2, <2>1, <2>2, QuietStore DEF At
<1>5. QED
  BY <1>3, <1>4

\* The steps that no invocation takes leave the tree as it is.
Outside ==
    \/ \E v \in Versions \cup {"broken"} : Upload(v)
    \/ Touch \/ AppCrash \/ Reboot
    \/ UNCHANGED vars

LEMMA OutsideStore ==
    ASSUME TypeOK, StoreInv, Outside
    PROVE  StoreInv' /\ Tree' = Tree /\ UNCHANGED <<releases, run, undo>>
<1>1. CASE Touch
  BY <1>1, TouchStore DEF Touch
<1>2. CASE ~Touch
  <2>1. UNCHANGED <<releases, current, temp, clock, run, undo>>
    BY <1>2 DEF Outside, Upload, AppCrash, Reboot, vars, disk
  <2>2. StoreInv'
    BY <2>1 DEF StoreInv, Past, Unbroken, SameTimeSameTree, LiveIsLatest, LatestIsUndo,
                StoreRun, Present, Latest, Counted, HasTree, Tree, At
  <2>3. QED
    BY <2>1, <2>2 DEF Tree
<1>3. QED
  BY <1>1, <1>2

\* Invocations that are not killed have no other steps than these.
LEMMA StoreSteps ==
    ASSUME Serial, ~SameSecond, ~MayKill, TypeOK, CopyInv, [Next]_vars
    PROVE  \/ Outside
           \/ \E p \in Procs :
                 \/ MoveOn(p)
                 \/ \E s \in Stamps : Begin(p, s)
                 \/ Archive(p) \/ Extract(p) \/ Remove(p) \/ Install(p) \/ Cleanup(p)
                 \/ Wipe(p) \/ Restore(p)
  BY DEF Next, Step, DeployStep, MoveOn, Outside, Kill

LEMMA StoreKept ==
    ASSUME Serial, ~SameSecond, ~MayKill, TypeOK, CopyInv, StoreInv, [Next]_vars
    PROVE  StoreInv'
  BY StoreSteps, OutsideStore, MoveOnStore, BeginStore, ArchiveStore, ExtractStore,
     RemoveStore, InstallStore, CleanupStore, RestoreStore

-----------------------------------------------------------------------------
(***************************************************************************)
(* The refinement.                                                         *)
(***************************************************************************)
LiveOf(p) ==
    IF At(p, "install") THEN undo
    ELSE IF At(p, "restore") THEN releases[run[p].target].what ELSE Tree

LEMMA LiveIs ==
    ASSUME Serial, NEW p \in Procs
    PROVE  Live = LiveOf(p) /\ Live' = LiveOf(p)'
<1>1. Live = LiveOf(p)
  BY DEF Live, LiveOf, Tree, Serial
<1>2. Live' = LiveOf(p)'
  BY DEF Live, LiveOf, Tree, Serial
<1>3. QED
  BY <1>1, <1>2

\* Every step is one of ReleaseStore, or changes nothing there.
LEMMA StepsImplement ==
    ASSUME Serial, ~SameSecond, ~MayKill, TypeOK, CopyInv, StoreInv, [Next]_vars
    PROVE  [Store!Next]_<<Live, undo>>
<1>1. ASSUME NEW p \in Procs, MoveOn(p) PROVE UNCHANGED <<Live, undo>>
  <2>1. Tree' = Tree
    BY <1>1, MoveOnStore DEF Tree
  <2>2. QED
    BY <1>1, <2>1, MoveOnStore, LiveIs DEF LiveOf, At
<1>2. ASSUME NEW p \in Procs, NEW s \in Stamps, Begin(p, s) PROVE UNCHANGED <<Live, undo>>
  <2>1. Tree' = Tree /\ undo' = undo
    BY <1>2 DEF Begin, Tree
  <2>2. run[p].pc \in EndPcs /\ run'[p].pc = "archive"
    BY <1>2 DEF Begin, Ended, TypeOK, RunOK
  <2>3. QED
    BY <2>1, <2>2, LiveIs DEF LiveOf, At, EndPcs
<1>3. ASSUME NEW p \in Procs, Archive(p) PROVE Store!Archive
  <2>1. run[p].pc = "archive" /\ run'[p].pc = "extract"
    BY <1>3, GotoFields DEF Archive, At
  <2>2. Tree' = Tree /\ undo' = Tree
    BY <1>3 DEF Archive, Tree, Exists
  <2>3. QED
    BY <2>1, <2>2, LiveIs DEF LiveOf, At, Store!Archive
<1>4. ASSUME NEW p \in Procs, Extract(p) PROVE UNCHANGED <<Live, undo>>
  <2>1. run[p].pc = "extract" /\ run'[p].pc \in {"remove", "failed"}
    BY <1>4, GotoFields DEF Extract, At, Fail
  <2>2. Tree' = Tree /\ undo' = undo
    BY <1>4 DEF Extract, Tree
  <2>3. QED
    BY <2>1, <2>2, LiveIs DEF LiveOf, At
<1>5. ASSUME NEW p \in Procs, Remove(p) PROVE UNCHANGED <<Live, undo>>
  <2>1. run[p].pc = "remove" /\ run'[p].pc = "install" /\ undo' = undo
    BY <1>5, GotoFields DEF Remove, At
  <2>2. undo = Tree
    BY <2>1, StoreParts DEF StoreRun
  <2>3. QED
    BY <2>1, <2>2, LiveIs DEF LiveOf, At
<1>6. ASSUME NEW p \in Procs, Install(p) PROVE \E v \in Versions : Store!Replace(v)
  <2> DEFINE new == temp[run[p].ts]
  <2>1. run[p].pc = "install" /\ Whole(new) /\ ~Exists(current)
    BY <1>6 DEF Install, At, CopyInv, RunInv
  <2>2. Exists(new) /\ new.what \in Versions
    BY <2>1, VersionsAssumption DEF Whole, Exists
  <2>3. current' = new /\ run'[p].pc = "discard" /\ undo' = undo
    BY <1>6, <2>1, <2>2, GotoFields DEF Install
  <2>4. Live = undo
    BY <2>1, LiveIs DEF LiveOf, At
  <2>5. Live' = new.what
    BY <2>2, <2>3, LiveIs DEF LiveOf, At, Tree, Exists
  <2>6. QED
    BY <2>2, <2>3, <2>4, <2>5 DEF Store!Replace
<1>7. ASSUME NEW p \in Procs, Cleanup(p) PROVE UNCHANGED <<Live, undo>>
  <2>1. run[p].pc = "cleanup" /\ run'[p].pc \in {"save", "ok"}
    BY <1>7, GotoFields DEF Cleanup, Activate, At
  <2>2. Tree' = Tree /\ undo' = undo
    BY <1>7 DEF Cleanup, Tree
  <2>3. QED
    BY <2>1, <2>2, LiveIs DEF LiveOf, At
<1>8. ASSUME NEW p \in Procs, Wipe(p) PROVE Store!Rollback
  <2>1. /\ run[p].pc = "wipe" /\ run'[p].pc = "restore" /\ run'[p].target = run[p].target
        /\ UNCHANGED <<releases, undo>>
    BY <1>8 DEF Wipe, At, Goto, TypeOK, RunOK, Run
  <2>2. run[p].target \in Present /\ Latest(run[p].target)
    BY <2>1, StoreParts DEF StoreRun, RollbackPcs
  <2>3. releases[run[p].target].what = undo
    BY <2>1, <2>2 DEF StoreInv, LatestIsUndo, At, Serial
  <2>4. Live' = undo
    BY <2>1, <2>3, LiveIs DEF LiveOf, At
  <2>5. QED
    BY <2>1, <2>4 DEF Store!Rollback
<1>9. ASSUME NEW p \in Procs, Restore(p) PROVE UNCHANGED <<Live, undo>>
  <2> DEFINE target == releases[run[p].target]
  <2>1. run[p].pc = "restore" /\ undo' = undo
    BY <1>9 DEF Restore, At
  <2>2. current' = target
    BY <1>9, RestoreStore
  <2>3. Exists(target)
    BY <2>1, StoreParts DEF StoreRun, RollbackPcs, Present
  <2>4. run'[p].pc \in {"save", "ok"}
    BY <1>9, <2>1, <2>3, GotoFields DEF Restore, Activate
  <2>5. Tree' = target.what
    BY <2>2, <2>3 DEF Tree, Exists
  <2>6. QED
    BY <2>1, <2>4, <2>5, LiveIs DEF LiveOf, At
<1>10. CASE Outside
  <2>1. Tree' = Tree /\ UNCHANGED <<releases, run, undo>>
    BY <1>10, OutsideStore
  <2>2. QED
    BY <2>1 DEF Live, Tree, At
<1>11. QED
  BY <1>1, <1>2, <1>3, <1>4, <1>5, <1>6, <1>7, <1>8, <1>9, <1>10, StoreSteps
     DEF Store!Next

(***************************************************************************)
(* Invocations that do not overlap, do not share a second and are not      *)
(* killed, implement ReleaseStore: whatever modification times the         *)
(* application leaves, and whatever the clean-up deletes, a rollback       *)
(* restores the tree that was archived last, and a deployment replaces no  *)
(* tree that is not archived.                                              *)
(***************************************************************************)
THEOREM RefinesStore ==
    ASSUME Serial, ~SameSecond, ~MayKill PROVE Spec => ImplementsStore
<1>1. Init => CopyInv
  BY DEF Init, CopyInv, RunInv, Unused, NoDir, At, DeployPcs
<1>2. ASSUME Init PROVE StoreInv /\ Store!Init
  <2>1. /\ current.what \in Versions \cup {"none"} /\ current.mtime = 0
        /\ clock = 0 /\ undo = "empty"
        /\ \A s \in Stamps : releases[s] = NoDir /\ temp[s] = NoDir
        /\ \A p \in Procs : run[p].pc = "idle"
    BY <1>2 DEF Init, NoDir
  <2>2. Present = {}
    BY <2>1 DEF Present, NoDir, Exists
  <2>3. Past /\ Unbroken
    BY <2>1, VersionsAssumption DEF Past, Unbroken, NoDir
  <2>4. SameTimeSameTree /\ LiveIsLatest /\ LatestIsUndo
    BY <2>2 DEF SameTimeSameTree, LiveIsLatest, LatestIsUndo, Counted
  <2>5. \A p \in Procs : StoreRun(p)
    BY <2>1 DEF StoreRun, At, RollbackPcs
  <2>6. Store!Init
    BY <2>1, VersionsAssumption DEF Store!Init, Live, At, Exists
  <2>7. QED
    BY <2>3, <2>4, <2>5, <2>6 DEF StoreInv
<1>3. TypeOK /\ CopyInv /\ [Next]_vars => CopyInv'
  BY CopyInvSteps
<1>4. TypeOK /\ CopyInv /\ StoreInv /\ [Next]_vars => StoreInv' /\ [Store!Next]_<<Live, undo>>
  BY StoreKept, StepsImplement
<1>5. QED
  BY <1>1, <1>2, <1>3, <1>4, TypeCorrect, PTL DEF Spec, ImplementsStore, Store!Spec

=============================================================================
