--------------------------- MODULE MCResourceApi ---------------------------
(***************************************************************************)
(* Instances of ResourceApi for TLC.                                       *)
(***************************************************************************)
EXTENDS ResourceApi

Send(token, method, id) ==
    [token |-> token, method |-> method, id |-> id, title |-> {}, status |-> {},
     page |-> {}, limit |-> {}, search |-> Titles]

\* A resource of each of two users, one of whom is gone.
TwoOwners ==
    {[i \in Ids |-> IF i > 2 THEN NoRow
                    ELSE [is |-> "live", userId |-> IF i = 1 THEN "u1" ELSE "u2",
                          title |-> "a", status |-> "active", createdAt |-> i]]}

SomeInputs ==
    LET List == Send("u1", "list", 1)
        Post == [Send("u1", "post", 1) EXCEPT !.title = {"b"}]
        Patch == [Send("u1", "patch", 1) EXCEPT !.status = {"archived"}]
    IN  {Send(u, m, 1) : u \in {"u1", "u2"}, m \in {"get", "delete"}}
        \cup {Send("none", "delete", 1), Post, Patch,
              [Post EXCEPT !.token = "u2"], [Patch EXCEPT !.token = "u2"],
              [Post EXCEPT !.title = {""}], [Patch EXCEPT !.status = {"other"}],
              List, [List EXCEPT !.page = {0}], [List EXCEPT !.page = {2}, !.limit = {1}],
              [List EXCEPT !.search = {"b"}, !.status = {"active"}]}

=============================================================================
