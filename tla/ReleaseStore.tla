---------------------------- MODULE ReleaseStore ----------------------------
(***************************************************************************)
(* What server-deploy.sh promises to whoever runs one invocation at a time *)
(* and lets it finish: a tree is live, another can be restored.  Nothing   *)
(* is said of directories, modification times or a limit on releases.      *)
(***************************************************************************)
CONSTANT Versions

VARIABLES live,  \* the tree the application is served from
          undo   \* the tree a rollback restores

Init == live \in Versions \cup {"empty"} /\ undo = "empty"

\* A deployment starts by putting the live tree aside.
Archive == undo' = live /\ UNCHANGED live

\* Only a tree that was put aside is replaced, and by a complete version.
Replace(v) == undo = live /\ live' = v /\ UNCHANGED undo

\* A rollback restores the tree put aside last, and keeps it.
Rollback == live' = undo /\ UNCHANGED undo

Next == Archive \/ Rollback \/ \E v \in Versions : Replace(v)

Spec == Init /\ [][Next]_<<live, undo>>

=============================================================================
