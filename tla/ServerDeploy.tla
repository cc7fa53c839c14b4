---------------------------- MODULE ServerDeploy ----------------------------
(***************************************************************************)
(* scripts/server-deploy.sh: the script that replaces an application on    *)
(* its server, and rolls it back.  A process is one invocation of the      *)
(* script on one BASE_PATH; a step is one command of it that touches the   *)
(* disk or PM2.  The commands of two invocations interleave (a workflow    *)
(* cancelled by its successor leaves its remote script running), and an    *)
(* invocation may be killed inside a command, leaving the command half     *)
(* done.                                                                   *)
(*                                                                         *)
(* The tree under a directory is abstracted to what can be said of it: it  *)
(* is the complete tree of one version, it is "empty", it is "broken" (some *)
(* of one version's files, or files of two), or there is no directory.     *)
(* Modification times are kept, because `ls -t` orders releases by them.   *)
(***************************************************************************)
EXTENDS Naturals, FiniteSets

CONSTANTS
    Procs,       \* invocations that may be running at the same time
    Versions,    \* what a tar can hold
    Kinds,       \* modes in use, a subset of {"deploy", "rollback"}
    AppType,     \* APP_TYPE, "pm2" or "static"
    Keep,        \* KEEP_RELEASES (5 in the script)
    MayKill,     \* may an invocation be killed?
    SameSecond,  \* may two invocations get the same TIMESTAMP?
    MaxRuns,     \* bound: number of invocations
    Nobody       \* no process

ASSUME KindsAssumption == Kinds \subseteq {"deploy", "rollback"}
ASSUME KeepAssumption == Keep \in Nat \ {0}
ASSUME MaxRunsAssumption == MaxRuns \in Nat
ASSUME FlagsAssumption ==
    AppType \in {"pm2", "static"} /\ MayKill \in BOOLEAN /\ SameSecond \in BOOLEAN
ASSUME NobodyAssumption == Nobody \notin Procs
ASSUME VersionsAssumption == Versions \cap {"none", "empty", "broken"} = {}

VARIABLES
    releases,  \* releases/<TIMESTAMP>
    current,   \* current/
    temp,      \* temp_<TIMESTAMP>
    tar,       \* BASE_PATH/TAR_FILE
    pm2,       \* the PM2 entry of APP_NAME
    clock,     \* the last modification time given to a directory
    stamp,     \* the last TIMESTAMP taken by a deployment
    started,   \* invocations so far
    run,       \* where each invocation is
    undo,      \* history: what current/ held when it was last archived
    owed       \* history: the process whose change of current/ is not yet
               \* followed by the successful end of its invocation

disk == <<releases, current, temp, tar>>
vars == <<disk, pm2, clock, stamp, started, run, undo, owed>>

Stamps == 1 .. MaxRuns

Dir == [what : Versions \cup {"none", "empty", "broken"}, mtime : Nat]
NoDir == [what |-> "none", mtime |-> 0]
Exists(d) == d.what # "none"
Whole(d) == d.what \in Versions

\* cp or tar into a directory that may already hold something
Merge(old, new) == IF old \in {"none", "empty", new} THEN new ELSE "broken"

(***************************************************************************)
(* ls -t: newest modification time first, ties by name in ascending order. *)
(***************************************************************************)
Present == {s \in Stamps : Exists(releases[s])}

\* (a faulty variant: ls without -t)
FaultyBefore(s, t) == s < t

Before(s, t) ==
    \/ releases[s].mtime > releases[t].mtime
    \/ releases[s].mtime = releases[t].mtime /\ s < t

Ahead(t) == {s \in Present : Before(s, t)}
Newest(s) == s \in Present /\ Ahead(s) = {}
Victims == {s \in Present : Cardinality(Ahead(s)) >= Keep}  \* tail -n +(Keep+1)

(***************************************************************************)
(* Control.                                                                *)
(***************************************************************************)
DeployPcs == {"archive", "extract", "remove", "install", "discard", "hook",
              "cleanup"}
RollbackPcs == {"wipe", "restore"}
PM2Pcs == {"save", "restart", "settle"}
EndPcs == {"idle", "ok", "failed", "killed"}

Run == [pc : DeployPcs \cup RollbackPcs \cup PM2Pcs \cup EndPcs,
        ts : Nat,       \* TIMESTAMP
        target : Nat]   \* last_release, in a rollback

At(p, pc) == run[p].pc = pc
Ended(p) == run[p].pc \in EndPcs
Goto(p, pc) == run' = [run EXCEPT ![p].pc = pc]
Release(p) == releases[run[p].ts]

\* activate_release: the PM2 steps, or the end of the script
Activate(p) ==
    IF AppType = "pm2"
    THEN Goto(p, "save") /\ UNCHANGED owed
    ELSE Goto(p, "ok") /\ owed' = IF owed = p THEN Nobody ELSE owed

Fail(p) == Goto(p, "failed") /\ UNCHANGED owed

\* The last command of restart_pm2
Activated(p) == Goto(p, "ok") /\ owed' = IF owed = p THEN Nobody ELSE owed

NoApp(mode) == [st |-> "none", mode |-> mode, run |-> "none", saved |-> FALSE]

Init ==
    /\ releases = [s \in Stamps |-> NoDir]
    /\ temp = [s \in Stamps |-> NoDir]
    /\ tar = "none"
    /\ \E v \in Versions, mode \in {"fork", "cluster"} :
          /\ AppType = "static" => mode = "fork"   \* PM2 is not used
          /\ \/ \* a new server
                current = NoDir /\ pm2 = NoApp(mode)
             \/ \* a server that an older script has deployed v to
                /\ current = [what |-> v, mtime |-> 0]
                /\ pm2 = IF AppType = "static" THEN NoApp(mode)
                         ELSE [st |-> "online", mode |-> mode, run |-> v, saved |-> TRUE]
    /\ clock = 0
    /\ stamp = 0
    /\ started = 0
    /\ run = [p \in Procs |-> [pc |-> "idle", ts |-> 0, target |-> 0]]
    /\ undo = "empty"
    /\ owed = Nobody

-----------------------------------------------------------------------------
(***************************************************************************)
(* Deployment: main().                                                     *)
(***************************************************************************)

\* Arguments, TIMESTAMP and create_directories.
Begin(p, s) ==
    /\ Ended(p) /\ "deploy" \in Kinds
    /\ started < MaxRuns /\ started' = started + 1
    /\ s = stamp + 1 \/ (SameSecond /\ s = stamp)
    /\ stamp' = s
    /\ run' = [run EXCEPT ![p] = [pc |-> "archive", ts |-> s, target |-> 0]]
    /\ clock' = clock + 1
    /\ releases' = [releases EXCEPT ![s] =
           IF Exists(@) THEN @ ELSE [what |-> "empty", mtime |-> clock + 1]]
    /\ UNCHANGED <<current, temp, tar, pm2, undo, owed>>

\* (a faulty variant: no archive if the release directory is there already)
FaultyArchive(p) ==
    /\ At(p, "archive") /\ Goto(p, "extract")
    /\ undo' = IF current.what = "none" THEN "empty" ELSE current.what
    /\ releases' = IF Exists(current) /\ ~Exists(Release(p))
                   THEN [releases EXCEPT ![run[p].ts] = current] ELSE releases
    /\ UNCHANGED <<current, temp, tar, pm2, clock, stamp, started, owed>>

\* archive_current.  cp -a gives the release the modification time of
\* current/; without a current/ the release directory stays as it was made.
Archive(p) ==
    /\ At(p, "archive") /\ Goto(p, "extract")
    /\ \/ /\ current.what \in {"none", "empty"}
          /\ undo' = "empty"
          /\ UNCHANGED releases
       \/ /\ current.what \notin {"none", "empty"}
          /\ undo' = current.what
          /\ releases' = [releases EXCEPT ![run[p].ts] =
                 [what |-> Merge(@.what, current.what), mtime |-> current.mtime]]
    /\ UNCHANGED <<current, temp, tar, pm2, clock, stamp, started, owed>>

\* (a faulty variant: a missing or damaged tar does not end the script)
FaultyExtract(p) ==
    /\ At(p, "extract") /\ Goto(p, "remove")
    /\ clock' = clock + 1
    /\ temp' = [temp EXCEPT ![run[p].ts] =
           [what |-> IF tar = "none" THEN @.what ELSE Merge(@.what, tar),
            mtime |-> clock + 1]]
    /\ UNCHANGED <<releases, current, tar, pm2, stamp, started, undo, owed>>

\* deploy_new_version up to the renamed .env: a missing or damaged tar ends
\* the script, with the archive made and current/ untouched.
Extract(p) ==
    /\ At(p, "extract")
    /\ \/ tar = "none" /\ Fail(p) /\ UNCHANGED <<temp, clock>>
       \/ /\ tar # "none"
          /\ clock' = clock + 1
          /\ temp' = [temp EXCEPT ![run[p].ts] =
                 [what |-> Merge(@.what, tar), mtime |-> clock + 1]]
          /\ IF tar = "broken" THEN Fail(p)
                               ELSE Goto(p, "remove") /\ UNCHANGED owed
    /\ UNCHANGED <<releases, current, tar, pm2, stamp, started, undo>>

\* rm -rf current
Remove(p) ==
    /\ At(p, "remove") /\ Goto(p, "install")
    /\ current' = NoDir
    /\ owed' = p
    /\ UNCHANGED <<releases, temp, tar, pm2, clock, stamp, started, undo>>

\* mv temp current.  If another invocation has put a current/ back meanwhile,
\* mv moves the new tree into it, as current/temp_<TIMESTAMP>.
Install(p) ==
    /\ At(p, "install")
    /\ \/ /\ ~Exists(temp[run[p].ts])
          /\ Fail(p) /\ UNCHANGED <<current, temp, clock>>
       \/ /\ Exists(temp[run[p].ts])
          /\ temp' = [temp EXCEPT ![run[p].ts] = NoDir]
          /\ Goto(p, "discard")
          /\ IF Exists(current)
             THEN /\ current' = [current EXCEPT !.mtime = clock + 1]
                  /\ clock' = clock + 1
                  /\ UNCHANGED owed
             ELSE current' = temp[run[p].ts] /\ owed' = p /\ UNCHANGED clock
    /\ UNCHANGED <<releases, tar, pm2, stamp, started, undo>>

\* chmod current, rm -f tar.  chmod fails when another invocation is between
\* its rm and its mv.
Discard(p) ==
    /\ At(p, "discard")
    /\ \/ ~Exists(current) /\ Fail(p) /\ UNCHANGED tar
       \/ /\ Exists(current)
          /\ tar' = "none" /\ Goto(p, "hook") /\ UNCHANGED owed
    /\ UNCHANGED <<releases, current, temp, pm2, clock, stamp, started, undo>>

\* run_post_deploy_hook: a failing hook ends the script (set -e) with the new
\* current/ in place, before the clean-up and the activation.
Hook(p) ==
    /\ At(p, "hook")
    /\ (Goto(p, "cleanup") /\ UNCHANGED owed) \/ Fail(p)
    /\ UNCHANGED <<disk, pm2, clock, stamp, started, undo>>

\* cleanup_old_releases
Cleanup(p) ==
    /\ At(p, "cleanup") /\ Activate(p)
    /\ releases' = [s \in Stamps |-> IF s \in Victims THEN NoDir ELSE releases[s]]
    /\ UNCHANGED <<current, temp, tar, pm2, clock, stamp, started, undo>>

-----------------------------------------------------------------------------
(***************************************************************************)
(* Rollback: rollback().                                                   *)
(***************************************************************************)
\* (a faulty variant: an empty last_release is not noticed)
FaultyBeginRollback(p) ==
    /\ Ended(p) /\ "rollback" \in Kinds
    /\ started < MaxRuns /\ started' = started + 1
    /\ run' = [run EXCEPT ![p] =
           [pc |-> "wipe", ts |-> 0,
            target |-> IF Present = {} THEN 0 ELSE CHOOSE s \in Stamps : Newest(s)]]
    /\ UNCHANGED <<disk, pm2, clock, stamp, undo, owed>>

BeginRollback(p) ==
    /\ Ended(p) /\ "rollback" \in Kinds
    /\ started < MaxRuns /\ started' = started + 1
    /\ \/ /\ Present = {}
          /\ run' = [run EXCEPT ![p] = [pc |-> "failed", ts |-> 0, target |-> 0]]
       \/ \E s \in Stamps :
             /\ Newest(s)
             /\ run' = [run EXCEPT ![p] = [pc |-> "wipe", ts |-> 0, target |-> s]]
    /\ UNCHANGED <<disk, pm2, clock, stamp, undo, owed>>

Wipe(p) ==
    /\ At(p, "wipe") /\ Goto(p, "restore")
    /\ current' = NoDir
    /\ owed' = p
    /\ UNCHANGED <<releases, temp, tar, pm2, clock, stamp, started, undo>>

\* cp -a release current: the old modification time comes back with the tree;
\* into a current/ that another invocation made, the release is copied beside
\* the application's own files.
Restore(p) ==
    LET target == releases[run[p].target] IN
    /\ At(p, "restore")
    /\ \/ ~Exists(target) /\ Fail(p) /\ UNCHANGED <<current, clock>>
       \/ /\ Exists(target) /\ Exists(current)
          /\ current' = [current EXCEPT !.mtime = clock + 1] /\ Activate(p)
          /\ clock' = clock + 1
       \/ /\ Exists(target) /\ ~Exists(current)
          /\ current' = target /\ UNCHANGED clock
          /\ IF AppType = "pm2" THEN Goto(p, "save") /\ owed' = p
                                ELSE Goto(p, "ok") /\ owed' = Nobody
    /\ UNCHANGED <<releases, temp, tar, pm2, stamp, started, undo>>

-----------------------------------------------------------------------------
(***************************************************************************)
(* restart_pm2.                                                            *)
(***************************************************************************)

\* pm2 save (it writes nothing while PM2 manages no process, and may fail), cd current
Save(p) ==
    /\ At(p, "save")
    /\ pm2' = [pm2 EXCEPT !.saved = @ \/ pm2.st # "none"]
    /\ (Exists(current) /\ Goto(p, "restart") /\ UNCHANGED owed) \/ Fail(p)
    /\ UNCHANGED <<disk, clock, stamp, started, undo>>

Clustered == pm2.st = "online" /\ pm2.mode = "cluster"

\* (a faulty variant: an application that is online is left running)
FaultyRestart(p) ==
    /\ At(p, "restart")
    /\ pm2' = IF pm2.st = "online" THEN pm2
              ELSE [pm2 EXCEPT !.st = "online", !.run = current.what]
    /\ Goto(p, "ok") /\ owed' = IF owed = p THEN Nobody ELSE owed
    /\ UNCHANGED <<disk, clock, stamp, started, undo>>

\* start, reload (with its restart fallback) or restart, by what `pm2 list`
\* says.  The command loads the tree in current/ and the application comes up
\* or not; without an ecosystem file to read it fails, except for a reload,
\* which goes by the name of the process.
Restart(p) ==
    /\ At(p, "restart")
    /\ \/ Fail(p) /\ UNCHANGED pm2
       \/ \E st \in {"online", "stopped"} :
             /\ current.what \in {"none", "empty"} => Clustered /\ st = "stopped"
             /\ pm2' = [pm2 EXCEPT !.st = st, !.run = current.what]
             /\ \/ Clustered /\ Goto(p, "settle") /\ UNCHANGED owed
                \/ ~Clustered /\ Activated(p)
                \/ ~Clustered /\ pm2.st = "online" /\ Fail(p)   \* pm2 reset
    /\ UNCHANGED <<disk, clock, stamp, started, undo>>

\* sleep 5 and look: an application that is not online is only logged; pm2 reset,
\* or a grep that finds no application to log, may fail.
Settle(p) ==
    /\ At(p, "settle")
    /\ Activated(p) \/ Fail(p)
    /\ UNCHANGED <<disk, pm2, clock, stamp, started, undo>>

-----------------------------------------------------------------------------
(***************************************************************************)
(* The invocation is killed, before or inside its next command, or this    *)
(* command ends it half-way by itself, when the disk is full.  cp -a then  *)
(* still sets the modification time.                                       *)
(***************************************************************************)
HalfArchive(p) ==
    /\ At(p, "archive") /\ current.what \notin {"none", "empty"}
    /\ \E w \in {"broken", Merge(Release(p).what, current.what)}, m \in {clock + 1, current.mtime} :
          releases' = [releases EXCEPT ![run[p].ts] = [what |-> w, mtime |-> m]]
    /\ UNCHANGED <<current, temp, tar, owed>>

HalfExtract(p) ==
    /\ At(p, "extract") /\ tar # "none"
    /\ temp' = [temp EXCEPT ![run[p].ts] = [what |-> "broken", mtime |-> clock + 1]]
    /\ UNCHANGED <<releases, current, tar, owed>>

HalfRemove(p) ==
    /\ At(p, "remove") \/ At(p, "wipe")
    /\ current.what \notin {"none", "empty"}
    /\ \E w \in {"broken", "empty"} : current' = [what |-> w, mtime |-> clock + 1]
    /\ owed' = p
    /\ UNCHANGED <<releases, temp, tar>>

HalfRestore(p) ==
    /\ At(p, "restore") /\ ~Exists(current) /\ Exists(releases[run[p].target])
    /\ \E w \in {"empty", "broken", releases[run[p].target].what} :
          current' = [what |-> w, mtime |-> clock + 1]
    /\ owed' = p
    /\ UNCHANGED <<releases, temp, tar>>

HalfCleanup(p) ==
    /\ At(p, "cleanup")
    /\ \E gone \in SUBSET Victims, half \in Victims, w \in {"broken", "empty"} :
          releases' = [s \in Stamps |->
              IF s = half THEN [what |-> w, mtime |-> clock + 1]
              ELSE IF s \in gone THEN NoDir ELSE releases[s]]
    /\ UNCHANGED <<current, temp, tar, owed>>

Kill(p) ==
    /\ MayKill /\ ~Ended(p) /\ Goto(p, "killed")
    /\ \/ UNCHANGED <<disk, clock, owed>>
       \/ /\ clock' = clock + 1
          /\ \/ HalfArchive(p) \/ HalfExtract(p) \/ HalfRemove(p)
             \/ HalfRestore(p) \/ HalfCleanup(p)
    /\ UNCHANGED <<pm2, stamp, started, undo>>

-----------------------------------------------------------------------------
(***************************************************************************)
(* Around the script.                                                      *)
(***************************************************************************)

\* scp of a tar by a workflow, complete or cut off
Upload(v) ==
    /\ tar' = v
    /\ UNCHANGED <<releases, current, temp, pm2, clock, stamp, started, run, undo, owed>>

\* the application writes a log or an upload into current/
Touch ==
    /\ current.what \notin {"none", "empty"} /\ current.mtime < clock
    /\ current' = [current EXCEPT !.mtime = clock + 1]
    /\ clock' = clock + 1
    /\ UNCHANGED <<releases, temp, tar, pm2, stamp, started, run, undo, owed>>

\* the application exits; PM2 starts it again, or gives up
AppCrash ==
    /\ pm2.st = "online"
    /\ \/ pm2' = [pm2 EXCEPT !.st = "stopped"]
       \/ /\ current.what \notin {"none", "empty"}
          /\ pm2' = [pm2 EXCEPT !.run = current.what]
    /\ UNCHANGED <<disk, clock, stamp, started, run, undo, owed>>

\* PM2 comes back with the processes of its last save
Reboot ==
    /\ AppType = "pm2" /\ MayKill /\ \A p \in Procs : Ended(p)
    /\ \/ /\ pm2.saved
          /\ \E st \in {"online", "stopped"} :
                pm2' = [pm2 EXCEPT !.st = st, !.run = current.what]
       \/ /\ ~pm2.saved
          /\ pm2' = [pm2 EXCEPT !.st = "none", !.run = "none"]
    /\ UNCHANGED <<disk, clock, stamp, started, run, undo, owed>>

DeployStep(p) ==
    \/ Archive(p) \/ Extract(p) \/ Remove(p) \/ Install(p)
    \/ Discard(p) \/ Hook(p) \/ Cleanup(p)

Step(p) ==
    \/ DeployStep(p)
    \/ Wipe(p) \/ Restore(p)
    \/ Save(p) \/ Restart(p) \/ Settle(p)

Next ==
    \/ \E p \in Procs :
          \/ \E s \in Stamps : Begin(p, s)
          \/ BeginRollback(p)
          \/ Step(p)
          \/ Kill(p)
    \/ \E v \in Versions \cup {"broken"} : Upload(v)
    \/ Touch \/ AppCrash \/ Reboot

Spec == Init /\ [][Next]_vars

-----------------------------------------------------------------------------
(***************************************************************************)
(* Properties.                                                             *)
(***************************************************************************)
\* A deployment has a release directory, a rollback a chosen release.
RunOK ==
    /\ run \in [Procs -> Run]
    /\ \A p \in Procs : /\ run[p].pc \in DeployPcs => run[p].ts \in Stamps
                        /\ run[p].pc \in RollbackPcs => run[p].target \in Stamps

PM2State ==
    [st : {"none", "stopped", "online"}, mode : {"fork", "cluster"},
     run : Versions \cup {"none", "empty", "broken"}, saved : BOOLEAN]

TypeOK ==
    /\ releases \in [Stamps -> Dir]
    /\ current \in Dir
    /\ temp \in [Stamps -> Dir]
    /\ tar \in Versions \cup {"none", "broken"}
    /\ pm2 \in PM2State
    /\ clock \in Nat
    /\ stamp \in 0 .. MaxRuns
    /\ started \in Nat
    /\ RunOK
    /\ undo \in Versions \cup {"empty", "broken"}
    /\ owed \in Procs \cup {Nobody}

\* Without overlapping invocations.
Serial == \A p, q \in Procs : p = q

(***************************************************************************)
(* A complete copy of some version, in current/ or in releases/, is what   *)
(* is needed to get the application back.  However invocations that do not *)
(* overlap are killed, and wherever, the last such copy is destroyed only  *)
(* by the rm -rf of a rollback that chose a release which is not one.      *)
(***************************************************************************)
HasCopy == Whole(current) \/ \E s \in Stamps : Whole(releases[s])

OnlyRollbackLoses ==
    [][HasCopy /\ ~HasCopy' =>
           \E p \in Procs : At(p, "wipe") /\ ~Whole(releases[run[p].target])]_vars

(***************************************************************************)
(* PM2 runs what current/ holds, once the invocation that last changed     *)
(* current/ has reached its successful end, whatever other invocations did *)
(* in between and however they ended.                                      *)
(***************************************************************************)
ActivationCatchesUp ==
    AppType = "pm2" /\ owed = Nobody /\ pm2.st # "none" => pm2.run = current.what

(***************************************************************************)
(* Overlapping invocations that are not killed keep a complete version on  *)
(* disk, once there was one, counting the trees they have yet to install.  *)
(***************************************************************************)
OnDisk == HasCopy \/ \E s \in Stamps : Whole(temp[s])

OverlapKeepsACopy == [][OnDisk => OnDisk']_vars

(***************************************************************************)
(* After the last of several overlapping deployments has ended, current/   *)
(* is there if any of them ever removed it: the last rm -rf is followed by *)
(* an mv.                                                                  *)
(***************************************************************************)
NeverLeftWithout ==
    ~Exists(current) /\ owed # Nobody => \E p \in Procs : At(p, "install")

(***************************************************************************)
(* Run one at a time and to their end, the invocations implement           *)
(* ReleaseStore.  Between rm -rf and mv or cp the tree that is about to be *)
(* live again is in releases/ or in temp_<TIMESTAMP>.                      *)
(***************************************************************************)
Live ==
    IF \E p \in Procs : At(p, "install") THEN undo
    ELSE IF \E p \in Procs : At(p, "restore")
         THEN releases[run[CHOOSE p \in Procs : At(p, "restore")].target].what
         ELSE IF Exists(current) THEN current.what ELSE "empty"

Store == INSTANCE ReleaseStore WITH live <- Live

ImplementsStore == Store!Spec

(***************************************************************************)
(* What the script says of itself (see the README for what the run of this *)
(* shows).                                                                 *)
(***************************************************************************)

\* "No previous version to roll back to" ends a rollback that has none
\* (lines 242-244): current/ is removed only for a release that holds a tree.
RollbackHasPrevious ==
    [][\A p \in Procs : At(p, "wipe") /\ ~At(p, "wipe")'
          => releases[run[p].target].what # "empty"]_vars

=============================================================================
