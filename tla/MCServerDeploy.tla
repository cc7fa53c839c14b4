--------------------------- MODULE MCServerDeploy ---------------------------
(***************************************************************************)
(* Instances of ServerDeploy for TLC.                                      *)
(***************************************************************************)
EXTENDS ServerDeploy, TLC

\* Versions, and invocations, are interchangeable.
SymmetricVersions == Permutations(Versions)
SymmetricProcs == Permutations(Procs) \cup Permutations(Versions)

\* Only the order of modification times matters to the script: states that
\* differ in nothing else are explored once.
Times == {clock, current.mtime} \cup {releases[s].mtime : s \in Stamps}
                              \cup {temp[s].mtime : s \in Stamps}
Ranked(d) == [d EXCEPT !.mtime = Cardinality({t \in Times : t < d.mtime})]
ByOrder ==
    <<[s \in Stamps |-> Ranked(releases[s])], Ranked(current),
      [s \in Stamps |-> Ranked(temp[s])], tar, pm2,
      Cardinality({t \in Times : t < clock}), stamp, started, run, undo, owed>>

\* An upload changes nothing but what the next tar -x reads, so it is enough
\* to let it happen while an invocation is about to run one.
LateUpload == tar' \in {tar, "none"} \/ \E p \in Procs : At(p, "extract")

=============================================================================
