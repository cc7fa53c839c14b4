----------------------------- MODULE ResourceApp -----------------------------
(***************************************************************************)
(* component-template.tsx: a tab of the browser that shows a user's        *)
(* resources page by page (ResourceList), creates them (CreateResourceForm) *)
(* and changes and deletes them (the mutation hooks), against ResourceApi. *)
(* Query results are kept by TanStack Query, which is modelled from how    *)
(* the hooks use it: one entry per key, one fetch per entry, one retry;    *)
(* invalidateQueries marks every entry and fetches the one on display      *)
(* again, dropping a fetch of it that is under way if the entry has data:  *)
(* the first fetch of an entry is never dropped.                           *)
(***************************************************************************)
EXTENDS ResourceApi

CONSTANTS
    Me,        \* the user of the tab
    PageSize,  \* limit (20)
    MaxPage,   \* bound: pages
    Searches,  \* the sets of titles that contain a search term
    MaxMutations,  \* bound: mutations
    Updates,       \* the bodies of updates
    MaxFaults      \* bound: calls of the database that throw

VARIABLES
    page, search,  \* the state of ResourceList
    cache,         \* the query cache
    form,          \* CreateResourceForm: how many resources its contents have
                   \* become
    awaited,       \* the keys whose fetch the mutation of the form waits for
    mutations, faults,  \* how many there were so far
    missed         \* history: a write was reported as failed since the queries
                   \* were last invalidated

uiVars == <<page, search, form, awaited>>
counters == <<mutations, faults>>
vars == <<rows, req, cache, missed, uiVars, counters>>

\* A slot for the fetch of every key, and for the mutation of the form and of a
\* card.
Slot(kind, p, s) == [kind |-> kind, page |-> p, search |-> s]
Keys == {Slot("list", p, s) : p \in 1 .. MaxPage, s \in Searches}
Form == Slot("form", 0, {})
Card == Slot("card", 0, {})

ASSUME AppAssumption ==
    /\ Slots = Keys \cup {Form, Card}
    /\ Me \in Accounts /\ Titles \in Searches /\ Searches \subseteq SUBSET Titles
    /\ Updates \subseteq [title : SUBSET Titles, status : SUBSET Status]
    /\ PageSize \in 1 .. MaxLimit

ASSUME BoundsAssumption ==
    MaxPage \in Nat \ {0} /\ MaxMutations \in Nat /\ MaxFaults \in Nat

Entry == [has : BOOLEAN, items : Seq(Resource), total : Nat,
          invalid : BOOLEAN, error : BOOLEAN, failures : 0 .. 1, overtaken : BOOLEAN]
\* (overtaken, history: the fetch under way, or the one the data is from, was under
\* way when the queries were invalidated, and was not dropped)
NoEntry == [has |-> FALSE, items |-> <<>>, total |-> 0,
            invalid |-> FALSE, error |-> FALSE, failures |-> 0, overtaken |-> FALSE]

Key == Slot("list", page, search)
Fetching(k) == ~At(k, "idle")

\* resourcesApi
Call(method, id, title, status) ==
    [token |-> Me, method |-> method, id |-> id, title |-> title, status |-> status,
     page |-> {}, limit |-> {}, search |-> {}]

\* (a faulty variant: every page is the first)
FaultyGetAll(k) ==
    [Call("list", Idle.id, {}, {}) EXCEPT !.limit = {PageSize}, !.search = k.search]

GetAll(k) ==
    [Call("list", Idle.id, {}, {}) EXCEPT !.page = {k.page}, !.limit = {PageSize},
                                          !.search = k.search]

(***************************************************************************)
(* What ResourceList renders.                                              *)
(***************************************************************************)
View ==
    LET e == cache[Key]
        pages == TotalPages(e.total, PageSize)
    IN  [loading |-> ~e.has /\ Fetching(Key), error |-> e.error,
         cards |-> {e.items[j].id : j \in DOMAIN e.items},
         none |-> e.has /\ e.items = <<>>,
         previous |-> e.has /\ pages > 1 /\ page > 1,
         next |-> e.has /\ pages > 1 /\ page < pages]

-----------------------------------------------------------------------------
(***************************************************************************)
(* useResources                                                            *)
(***************************************************************************)

\* The entry when a fetch begins: an error stays on display beside old data.
Refetched(k) == [cache[k] EXCEPT !.failures = 0, !.error = @ /\ cache[k].has,
                                 !.overtaken = FALSE]

\* Another key is on display.  Its entry is fetched unless it has data that is
\* neither invalid nor older than staleTime (60 s).
Display(p, s) ==
    LET k == Slot("list", p, s) IN
    /\ page' = p /\ search' = s
    /\ \/ /\ ~Fetching(k)
          /\ req' = [req EXCEPT ![k] = Admit(GetAll(k))]
          /\ cache' = [cache EXCEPT ![k] = Refetched(k)]
       \/ /\ Fetching(k) \/ (cache[k].has /\ ~cache[k].invalid)
          /\ UNCHANGED <<req, cache>>
    /\ UNCHANGED <<rows, form, awaited, missed, counters>>

Search(s) == s \in Searches \ {search} /\ Display(1, s)
Next_ == View.next /\ page < MaxPage /\ Display(page + 1, search)
Previous == View.previous /\ Display(page - 1, search)

\* The window is focused, or the list mounted, after staleTime.
Focus ==
    /\ ~Fetching(Key)
    /\ req' = [req EXCEPT ![Key] = Admit(GetAll(Key))]
    /\ cache' = [cache EXCEPT ![Key] = Refetched(Key)]
    /\ UNCHANGED <<rows, missed, uiVars, counters>>

\* The fetches of the keys in K are over.  The mutation of the form, if it has waited
\* for one of them, is over too, and its onSuccess resets the form.
Settle(K) ==
    /\ awaited' = awaited \ K
    /\ form' = IF awaited \cap K = {} THEN form ELSE 0

Receive(k) ==
    /\ At(k, "answered") /\ req[k].code = 200
    /\ req' = [req EXCEPT ![k] = Idle]
    /\ cache' = [cache EXCEPT ![k] = [NoEntry EXCEPT
           !.has = TRUE, !.items = req[k].items, !.total = req[k].total,
           !.overtaken = cache[k].overtaken]]
    /\ Settle({k})
    /\ UNCHANGED <<rows, missed, page, search, counters>>

\* A failed fetch is tried once more if it is still on display.
ReceiveError(k) ==
    /\ At(k, "answered") /\ req[k].code # 200
    /\ \/ /\ cache[k].failures = 0 /\ k = Key
          /\ req' = [req EXCEPT ![k] = Admit(GetAll(k))]
          /\ cache' = [cache EXCEPT ![k].failures = 1, ![k].overtaken = FALSE]
          /\ Settle({})
       \/ /\ cache[k].failures = 1 \/ k # Key
          /\ req' = [req EXCEPT ![k] = Idle]
          /\ cache' = [cache EXCEPT ![k].failures = 0, ![k].error = TRUE]
          /\ Settle({k})
    /\ UNCHANGED <<rows, missed, page, search, counters>>

-----------------------------------------------------------------------------
(***************************************************************************)
(* CreateResourceForm and the mutation hooks                               *)
(***************************************************************************)

\* The form's contents are typed anew or reset: its fields stay editable while it
\* is being saved.
Retype ==
    /\ form # 0 /\ form' = 0
    /\ UNCHANGED <<rows, req, cache, missed, page, search, awaited, counters>>

\* (a faulty variant: the form can be sent again once it is answered)
FaultyMutate(slot, in) ==
    /\ At(slot, "idle")
    /\ mutations < MaxMutations /\ mutations' = mutations + 1
    /\ req' = [req EXCEPT ![slot] = Admit(in)]
    /\ UNCHANGED <<rows, cache, missed, uiVars, faults>>

\* isPending disables the button of the form until the promise of its hook's onSuccess
\* is settled.
Mutate(slot, in) ==
    /\ At(slot, "idle") /\ (slot = Form => awaited = {})
    /\ mutations < MaxMutations /\ mutations' = mutations + 1
    /\ req' = [req EXCEPT ![slot] = Admit(in)]
    /\ UNCHANGED <<rows, cache, missed, uiVars, faults>>

\* The contents of the form are sent (bound: the ids that are left).
Submit(title) ==
    /\ \E i \in Ids : rows[i].is = "absent"
    /\ Mutate(Form, Call("post", Idle.id, {title}, {"active"}))

Edit(i, body) ==
    /\ i \in View.cards
    /\ Mutate(Card, Call("patch", i, body.title, body.status))

Remove(i) ==
    /\ i \in View.cards
    /\ Mutate(Card, Call("delete", i, {}, {}))

\* The first fetch of the entry on display is under way.
FirstFetch == Fetching(Key) /\ ~cache[Key].has

\* The entries when the queries are invalidated.
Invalidated(k) ==
    IF k = Key /\ ~FirstFetch THEN [Refetched(k) EXCEPT !.invalid = TRUE]
    ELSE [cache[k] EXCEPT !.invalid = @ \/ cache[k].has, !.overtaken = @ \/ Fetching(k)]

\* (a faulty variant: the entry on display is marked, but not fetched again)
FaultyInvalidate(slot) ==
    /\ cache' = [k \in Keys |-> [cache[k] EXCEPT !.invalid = @ \/ cache[k].has]]
    /\ req' = [req EXCEPT ![slot] = Idle]

\* invalidateQueries({ queryKey: queryKeys.resources.all })
Invalidate(slot) ==
    /\ cache' = [k \in Keys |-> Invalidated(k)]
    /\ req' = IF FirstFetch THEN [req EXCEPT ![slot] = Idle]
              ELSE [req EXCEPT ![slot] = Idle, ![Key] = Admit(GetAll(Key))]

\* onSuccess of the hook.  The mutation of the form waits for the fetch on display.
\* What waits for a fetch that is dropped goes on at once or waits for the next one:
\* the versions of the library differ.
Succeed(slot) ==
    /\ At(slot, "answered") /\ req[slot].code < 400
    /\ Invalidate(slot)
    /\ missed' = FALSE
    /\ \/ slot = Form /\ awaited' = {Key} /\ UNCHANGED form
       \/ slot = Card /\ Settle({})
       \/ slot = Card /\ ~FirstFetch /\ Settle({Key})
    /\ UNCHANGED <<rows, page, search, counters>>

\* A mutation that fails leaves everything as it is.
Fail(slot) ==
    /\ At(slot, "answered") /\ req[slot].code >= 400
    /\ req' = [req EXCEPT ![slot] = Idle]
    /\ UNCHANGED <<rows, cache, missed, uiVars, counters>>

-----------------------------------------------------------------------------
\* The API at work; what the contents of the form lead to is counted.
Work(r) ==
    /\ Serve(r)
    /\ missed' = (missed \/ (rows' # rows /\ req'[r].code = 500))
    /\ faults' = IF req'[r].code = 500 THEN faults + 1 ELSE faults
    /\ faults' <= MaxFaults
    /\ form' = IF r = Form /\ rows' # rows THEN form + 1 ELSE form
    /\ UNCHANGED <<cache, page, search, awaited, mutations>>

Init ==
    /\ page = 1 /\ search = Titles
    /\ rows \in Tables
    /\ req = [r \in Slots |-> IF r = Key THEN Admit(GetAll(r)) ELSE Idle]
    /\ cache = [k \in Keys |-> NoEntry]
    /\ form = 0 /\ awaited = {} /\ mutations = 0 /\ faults = 0 /\ missed = FALSE

Next ==
    \/ \E s \in Searches : Search(s)
    \/ Next_ \/ Previous \/ Focus \/ Retype
    \/ \E k \in Keys : Receive(k) \/ ReceiveError(k)
    \/ \E t \in Titles : Submit(t)
    \/ \E i \in Ids :
          \/ Remove(i)
          \/ \E body \in Updates : Edit(i, body)
    \/ \E slot \in {Form, Card} : Succeed(slot) \/ Fail(slot)
    \/ \E r \in Slots : Work(r)

Spec == Init /\ [][Next]_vars

-----------------------------------------------------------------------------
TypeOK ==
    /\ ApiTypeOK
    /\ page \in 1 .. MaxPage /\ search \in Searches
    /\ cache \in [Keys -> Entry]
    /\ \A k \in Keys : Fetching(k) => /\ req[k].page = k.page /\ req[k].search = k.search
                                     /\ req[k].method = "list" /\ req[k].limit = PageSize
    /\ form \in Nat /\ missed \in BOOLEAN
    /\ awaited \subseteq Keys /\ \A k \in awaited : Fetching(k)
    /\ mutations \in 0 .. MaxMutations /\ faults \in 0 .. MaxFaults

\* The entry of k shows what is in the table.
Matches(k) ==
    LET Mine == {i \in Ids : rows[i].is = "live" /\ rows[i].userId = Me
                            /\ rows[i].title \in k.search}
    IN
    /\ cache[k].total = Cardinality(Mine)
    /\ \E s \in Listings(Mine) :
          LET p == Page(s, k.page, PageSize) IN
          cache[k].items = [j \in 1 .. Len(p) |-> Shown(p[j])]

\* A write has been made and its answer is still to be handled.
Unanswered == \E slot \in {Form, Card} : At(slot, "answered") /\ req[slot].code < 400

(***************************************************************************)
(* A list that is not loading and shows no error shows what is in the      *)
(* table: fetches that a mutation has overtaken leave nothing old behind,  *)
(* pages that were looked at before are fetched again, and nothing stays   *)
(* invalid.  Apart are a write that was reported as failed, and a fetch    *)
(* that was overtaken and not dropped, because it was not on display or    *)
(* was the first of its key: what it brings is old and counts as new.      *)
(***************************************************************************)
ListIsCurrent ==
    Fetching(Key) \/ cache[Key].error \/ cache[Key].overtaken \/ missed \/ Unanswered
    \/ (~cache[Key].invalid /\ Matches(Key))

(***************************************************************************)
(* The contents of the form become one resource: more than one only when a *)
(* call has failed, also while the list is fetched again after an answer   *)
(* and the form still holds what was sent.                                 *)
(***************************************************************************)
CreatedOnce == form <= 1 + faults

=============================================================================
