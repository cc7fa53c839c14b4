--------------------------- MODULE MCResourceApp ---------------------------
(***************************************************************************)
(* Instances of ResourceApp for TLC.                                       *)
(***************************************************************************)
EXTENDS ResourceApp

\* No term, and one that no title contains.
SomeSearches == {Titles, {}}
UpTo(n) ==
    [i \in Ids |-> IF i > n THEN NoRow
                   ELSE [is |-> "live", userId |-> Me, title |-> "a",
                         status |-> "active", createdAt |-> i]]
SomeTables == {UpTo(0), UpTo(1)}
Archive == {[title |-> {}, status |-> {"archived"}]}
AppSlots == Keys \cup {Form, Card}

\* Left to the run of ResourceApi: resources of the same moment, which a list shows
\* in any order.  Left out: what happens between the two queries of a list, but for
\* writes, two mutations at a time, more than two fetches at a time, or than one
\* after two mutations and a failing call, and, while the fetch of a page is under
\* way that is not on display, a third page.
Calm ==
    /\ \A i, j \in Ids : i # j /\ rows'[i].is # "absent" /\ rows'[j].is # "absent"
                        => rows'[i].createdAt # rows'[j].createdAt
    /\ \A k \in Keys : At(k, "count") => req'[k] # req[k] \/ rows' # rows
    /\ req'[Form] = Idle \/ req'[Card] = Idle
    /\ Cardinality({k \in Keys : req'[k] # Idle}) <=
          IF mutations' + faults' <= MaxMutations THEN 2 ELSE 1
    /\ \A k \in Keys \ {Key} : Fetching(k) => Key' \in {Key, k}

=============================================================================
