------------------------- MODULE ResourceAppProofs -------------------------
(***************************************************************************)
(* Theorems about ResourceApp, for any number of pages, searches, ids and  *)
(* mutations, and without the limits that the run puts on what happens at  *)
(* a time.                                                                 *)
(***************************************************************************)
EXTENDS ResourceApp, ResourceApiProofs

-----------------------------------------------------------------------------
(***************************************************************************)
(* Slots, and what is put into them.                                       *)
(***************************************************************************)
LEMMA SlotsApart ==
    /\ Form \notin Keys /\ Card \notin Keys /\ Form # Card
    /\ Keys \subseteq Slots /\ Form \in Slots /\ Card \in Slots
    /\ Slots \ Keys = {Form, Card}
    /\ \A k \in Keys : k.page \in 1 .. MaxPage /\ k.search \in Searches
    /\ \A p \in 1 .. MaxPage, s \in Searches :
          /\ Slot("list", p, s) \in Keys
          /\ Slot("list", p, s).page = p /\ Slot("list", p, s).search = s
<1>1. Form.kind = "form" /\ Card.kind = "card"
  BY DEF Form, Card, Slot
<1>2. \A k \in Keys : k.kind = "list" /\ k.page \in 1 .. MaxPage /\ k.search \in Searches
  BY DEF Keys, Slot
<1>3. \A p \in 1 .. MaxPage, s \in Searches :
          /\ Slot("list", p, s) \in Keys
          /\ Slot("list", p, s).page = p /\ Slot("list", p, s).search = s
  BY DEF Keys, Slot
<1>4. Slots = Keys \cup {Form, Card}
  BY AppAssumption
<1> HIDE DEF Form, Card, Keys
<1> QED
  BY <1>1, <1>2, <1>3, <1>4

\* The fetch of key k, as it begins.
ListFetch(k, q) ==
    /\ q \in Request /\ q.pc = "findMany" /\ q.method = "list" /\ q.user = Me
    /\ q.status = {} /\ q.search = k.search /\ q.page = k.page /\ q.limit = PageSize

LEMMA FetchBegins ==
    ASSUME NEW k \in Keys
    PROVE  ListFetch(k, Admit(GetAll(k)))
<1> DEFINE in == GetAll(k)
<1>1. /\ Me \in Users /\ Idle.id \in Ids /\ PageSize \in 1 .. MaxLimit
      /\ k.page \in Nat \ {0} /\ k.search \in SUBSET Titles
  <2>1. Idle.id \in Ids
    BY IdleType DEF Request
  <2>2. k.page \in Nat \ {0} /\ k.search \in SUBSET Titles
    BY SlotsApart, AppAssumption
  <2> QED
    BY <2>1, <2>2, AppAssumption, UsersAssumption
<1>2. /\ in.token = Me /\ in.method = "list" /\ in.status = {} /\ in.search = k.search
      /\ in.page = {k.page} /\ in.limit = {PageSize}
  BY DEF GetAll, Call
<1>9. in \in Input
  <2>1. Call("list", Idle.id, {}, {}) \in Input
    BY <1>1 DEF Input, Call, Methods
  <2>2. {k.page} \in SUBSET Int /\ {PageSize} \in SUBSET Int
    BY <1>1
  <2>3. \A c \in Input : [c EXCEPT !.page = {k.page}, !.limit = {PageSize},
                                    !.search = k.search] \in Input
    BY <1>1, <2>2 DEF Input
  <2> QED
    BY <2>1, <2>3 DEF GetAll
<1> HIDE DEF in
<1>3. Valid(in) /\ in.token \in Users
  BY <1>1, <1>2 DEF Valid
<1>4. Admit(in) = Parsed(in)
  BY <1>3 DEF Admit
<1>5. Admit(in) \in Request
  BY <1>9, AdmitType
<1>6. DefaultTo(in.page, 1) = k.page /\ DefaultTo(in.limit, DefaultLimit) = PageSize
  <2>1. \A v : (CHOOSE w \in {v} : TRUE) = v
    OBVIOUS
  <2> QED
    BY <1>2, <2>1 DEF DefaultTo
<1>7. FirstCall(in.method) = "findMany"
  BY <1>2 DEF FirstCall
<1>8. /\ Parsed(in).pc = "findMany" /\ Parsed(in).method = "list" /\ Parsed(in).user = Me
      /\ Parsed(in).status = {} /\ Parsed(in).search = k.search
      /\ Parsed(in).page = k.page /\ Parsed(in).limit = PageSize
  BY <1>2, <1>6, <1>7 DEF Parsed
<1> QED
  BY <1>4, <1>5, <1>8 DEF ListFetch, in

\* What is answered on arrival is an error.
LEMMA AnsweredOnArrival ==
    ASSUME NEW in \in Input, Admit(in).pc = "answered"
    PROVE  Admit(in).code >= 400
<1>1. ASSUME NEW code \in {400, 401} PROVE Answer(Idle, code, <<>>).code = code
  BY <1>1, IdleType, AnswerEnds
<1>2. Parsed(in).pc # "answered"
  BY DEF Parsed, FirstCall
<1> QED
  BY <1>1, <1>2 DEF Admit

\* The steps of the application, with what they are given.
LEMMA Steps ==
    ASSUME Next, page \in 1 .. MaxPage, search \in Searches
    PROVE  \/ \E p \in 1 .. MaxPage, s \in Searches : Display(p, s)
           \/ Focus \/ Retype
           \/ \E k \in Keys : Receive(k) \/ ReceiveError(k)
           \/ \E slot \in {Form, Card}, in \in Input : Mutate(slot, in)
           \/ \E slot \in {Form, Card} : Succeed(slot) \/ Fail(slot)
           \/ \E r \in Slots : Work(r)
<1>1. 1 \in 1 .. MaxPage /\ MaxPage \in Nat
  BY BoundsAssumption
<1>2. ASSUME NEW s \in Searches, Search(s)
      PROVE  \E p \in 1 .. MaxPage, t \in Searches : Display(p, t)
  BY <1>1, <1>2 DEF Search
<1>3. CASE Next_
  <2>1. page + 1 \in 1 .. MaxPage
    BY <1>1, <1>3 DEF Next_
  <2> QED
    BY <1>3, <2>1 DEF Next_
<1>4. CASE Previous
  <2>1. View.previous => page > 1
    BY DEF View
  <2>2. page - 1 \in 1 .. MaxPage
    BY <1>1, <1>4, <2>1 DEF Previous
  <2> QED
    BY <1>4, <2>2 DEF Previous
<1>5. ASSUME NEW method \in {"post", "patch", "delete"}, NEW i \in Ids,
             NEW title \in SUBSET Titles, NEW status \in SUBSET Status
      PROVE  Call(method, i, title, status) \in Input
  BY AppAssumption, UsersAssumption DEF Call, Input, Methods
<1>6. Idle.id \in Ids
  BY IdleType DEF Request
<1>7. ASSUME NEW t \in Titles, Submit(t)
      PROVE  \E in \in Input : Mutate(Form, in)
  <2>1. {"active"} \in SUBSET Status
    BY DEF Status
  <2>2. Call("post", Idle.id, {t}, {"active"}) \in Input
    BY <1>5, <1>6, <2>1
  <2> QED
    BY <1>7, <2>2 DEF Submit
<1>8. ASSUME NEW i \in Ids, Remove(i)
      PROVE  \E in \in Input : Mutate(Card, in)
  <2>1. Call("delete", i, {}, {}) \in Input
    BY <1>5
  <2> QED
    BY <1>8, <2>1 DEF Remove
<1>9. ASSUME NEW i \in Ids, NEW body \in Updates, Edit(i, body)
      PROVE  \E in \in Input : Mutate(Card, in)
  <2>1. body.title \in SUBSET Titles /\ body.status \in SUBSET Status
    BY AppAssumption
  <2>2. Call("patch", i, body.title, body.status) \in Input
    BY <1>5, <2>1
  <2> QED
    BY <1>9, <2>2 DEF Edit
<1> QED
  BY <1>2, <1>3, <1>4, <1>7, <1>8, <1>9, Zenon DEF Next

-----------------------------------------------------------------------------
(***************************************************************************)
(* What a step of the API does to a slot.                                  *)
(***************************************************************************)
\* A call ends, is followed by another, or is answered; what was written is answered.
LEMMA ServeSlot ==
    ASSUME ApiTypeOK, NEW r \in Slots, Serve(r)
    PROVE  /\ req[r].pc \in CallPcs
           /\ req'[r].pc # "idle"
           /\ rows' # rows => /\ req'[r].pc = "answered"
                              /\ req'[r].code < 400 \/ req'[r].code = 500
           /\ \A o \in Slots \ {r} : req'[o] = req[o]
<1>1. /\ req[r] \in Request /\ req[r].pc \in CallPcs /\ r \in DOMAIN req
  BY DEF ApiTypeOK, Serve, At, FindMany, Count, FindOne, Create, CreateFails, Update,
         SoftDelete, CallFails, CallPcs, CheckPcs
<1>2. \A o \in Slots \ {r} : req'[o] = req[o]
  BY OthersStay
<1>3. ASSUME NEW code, NEW items, req' = [req EXCEPT ![r] = Answer(req[r], code, items)]
      PROVE  req'[r].pc = "answered" /\ req'[r].code = code
  BY <1>1, <1>3, AnswerEnds
<1>11. ASSUME NEW code \in {200, 201, 204} \cup Failure, NEW items,
              req' = [req EXCEPT ![r] = Answer(req[r], code, items)]
       PROVE  req'[r].pc = "answered" /\ (req'[r].code < 400 \/ req'[r].code = 500)
  <2>1. req'[r].pc = "answered" /\ req'[r].code = code
    BY <1>3, <1>11
  <2>2. code < 400 \/ code = 500
    BY DEF Failure
  <2> QED
    BY <2>1, <2>2
<1>4. CASE FindMany(r)
  <2>1. req'[r].pc = "count" /\ rows' = rows
    BY <1>1, <1>4 DEF FindMany, Request
  <2> QED
    BY <1>1, <1>2, <2>1
<1>5. CASE Count(r)
  <2> DEFINE q == Answer(req[r], 200, req[r].items)
             total == Cardinality(Matching(req[r]))
  <2>2. q \in Request /\ q.pc = "answered"
    <3>1. 200 \in Codes /\ req[r].items \in Seq(Resource)
      BY <1>1 DEF Codes, Request
    <3> QED
      BY <1>1, <3>1, AnswerType, AnswerEnds
  <2>3. req' = [req EXCEPT ![r] = [q EXCEPT !.total = total]] /\ rows' = rows
    BY <1>5 DEF Count
  <2> HIDE DEF q, total
  <2>4. req'[r] = [q EXCEPT !.total = total]
    BY <1>1, <2>3
  <2>1. rows' = rows /\ req'[r].pc = "answered"
    BY <2>2, <2>3, <2>4 DEF Request
  <2> QED
    BY <1>1, <1>2, <2>1
<1>6. CASE FindOne(r)
  <2>1. rows' = rows /\ req'[r].pc # "idle"
    BY <1>1, <1>6, AnswerEnds DEF FindOne, Request
  <2> QED
    BY <1>1, <1>2, <2>1
<1>7. CASE CreateFails(r) \/ CallFails(r)
  BY <1>1, <1>2, <1>3, <1>7 DEF CreateFails, CallFails
<1>8. CASE Create(r) \/ Update(r) \/ SoftDelete(r)
  <2>1. PICK code \in {200, 201, 204} \cup Failure : \E items :
           req' = [req EXCEPT ![r] = Answer(req[r], code, items)]
    <3>1. CASE Create(r)
      <4>1. PICK i \in Ids, code \in {201} \cup Failure : \E title, status :
              /\ rows[i].is = "absent"
              /\ rows'[i].is = "live" /\ rows'[i].userId = req[r].user
              /\ \A j \in Ids : j # i => rows'[j] = rows[j]
              /\ req' = [req EXCEPT ![r] = Answer(req[r], code,
                            <<[id |-> i, title |-> title, status |-> status]>>)]
        BY <3>1, CreateWrites
      <4>2. \E items : req' = [req EXCEPT ![r] = Answer(req[r], code, items)]
        BY <4>1
      <4>3. code \in {200, 201, 204} \cup Failure
        OBVIOUS
      <4> QED
        BY <4>2, <4>3, Zenon
    <3>2. CASE Update(r)
      <4>1. PICK code \in {200} \cup Failure : \E title, status :
               req' = [req EXCEPT ![r] = Answer(req[r], code,
                          <<[id |-> req[r].id, title |-> title, status |-> status]>>)]
        BY <3>2, UpdateWrites
      <4> QED
        BY <4>1
    <3>3. CASE SoftDelete(r)
      BY <3>3 DEF SoftDelete
    <3> QED
      BY <1>8, <3>1, <3>2, <3>3
  <2>2. req'[r].pc = "answered" /\ (req'[r].code < 400 \/ req'[r].code = 500)
    BY <1>11, <2>1
  <2> QED
    BY <1>1, <1>2, <2>2
<1> QED
  BY <1>4, <1>5, <1>6, <1>7, <1>8 DEF Serve

\* The fetch of a key is a list request for it.
FetchShape(k) ==
    Fetching(k) => /\ req[k].pc \in {"findMany", "count", "answered"}
                   /\ req[k].method = "list" /\ req[k].user = Me /\ req[k].status = {}
                   /\ req[k].search = k.search /\ req[k].page = k.page
                   /\ req[k].limit = PageSize

\* It reads the page, then the number of resources, and may fail.
FetchReads(k) ==
    \/ /\ At(k, "findMany") /\ At(k, "count")'
       /\ \E s \in Listings(Matching(req[k])) :
             LET p == Page(s, req[k].page, req[k].limit) IN
             req'[k].items = [j \in 1 .. Len(p) |-> Shown(p[j])]
    \/ /\ At(k, "count") /\ At(k, "answered")'
       /\ req'[k].items = req[k].items
       /\ req'[k].total = Cardinality(Matching(req[k]))
    \/ At(k, "answered")' /\ req'[k].code = 500

LEMMA ServeFetch ==
    ASSUME ApiTypeOK, NEW k \in Keys, FetchShape(k), Serve(k)
    PROVE  rows' = rows /\ FetchShape(k)' /\ FetchReads(k)
<1>1. k \in Slots /\ req[k] \in Request /\ k \in DOMAIN req /\ req[k].pc \in {"findMany", "count"}
  BY SlotsApart, ServeSlot DEF ApiTypeOK, FetchShape, Fetching, At, CallPcs, CheckPcs
<1>2. Fetching(k)
  BY <1>1 DEF Fetching, At
<1>3. CASE FindMany(k)
  <2>1. PICK s \in Listings(Matching(req[k])) :
          LET p == Page(s, req[k].page, req[k].limit) IN
          req' = [req EXCEPT ![k].pc = "count",
                             ![k].items = [j \in 1 .. Len(p) |-> Shown(p[j])]]
    BY <1>3 DEF FindMany
  <2> DEFINE p == Page(s, req[k].page, req[k].limit)
             items == [j \in 1 .. Len(p) |-> Shown(p[j])]
  <2>2. req' = [req EXCEPT ![k].pc = "count", ![k].items = items]
    BY <2>1
  <2>3. At(k, "findMany") /\ rows' = rows
    BY <1>3 DEF FindMany
  <2> HIDE DEF items
  <2>4. req' = [req EXCEPT ![k] = [req[k] EXCEPT !.pc = "count", !.items = items]]
    BY <2>2 DEF ApiTypeOK
  <2>5. req'[k] = [req[k] EXCEPT !.pc = "count", !.items = items]
    BY <1>1, <2>4
  <2>6. req'[k].items = items /\ req'[k].pc = "count"
    BY <1>1, <2>5 DEF Request
  <2>7. FetchReads(k)
    BY <2>3, <2>6 DEF FetchReads, At, items
  <2>8. FetchShape(k)'
    BY <1>1, <1>2, <2>5, <2>6 DEF FetchShape, Fetching, At, Request
  <2> QED
    BY <2>3, <2>7, <2>8
<1>4. CASE Count(k)
  <2> DEFINE total == Cardinality(Matching(req[k]))
  <2>1. /\ req' = [req EXCEPT ![k] = [Answer(req[k], 200, req[k].items) EXCEPT !.total = total]]
        /\ At(k, "count") /\ rows' = rows
    BY <1>4 DEF Count
  <2>2. Answer(req[k], 200, req[k].items)
          = [req[k] EXCEPT !.pc = "answered", !.code = 200, !.items = req[k].items]
    BY DEF Answer
  <2> HIDE DEF total
  <2>3. req'[k] = [[req[k] EXCEPT !.pc = "answered", !.code = 200, !.items = req[k].items]
                     EXCEPT !.total = total]
    BY <1>1, <2>1, <2>2
  <2>4. req'[k].items = req[k].items /\ req'[k].pc = "answered" /\ req'[k].total = total
    BY <1>1, <2>3 DEF Request
  <2>5. FetchShape(k)'
    BY <1>1, <1>2, <2>3, <2>4 DEF FetchShape, Fetching, At, Request
  <2> QED
    BY <2>1, <2>4, <2>5 DEF FetchReads, At, total
<1>5. CASE CallFails(k)
  <2>1. req' = [req EXCEPT ![k] = Answer(req[k], 500, <<>>)] /\ rows' = rows
    BY <1>5 DEF CallFails
  <2>2. Answer(req[k], 500, <<>>)
          = [req[k] EXCEPT !.pc = "answered", !.code = 500, !.items = <<>>]
    BY DEF Answer
  <2>3. req'[k] = [req[k] EXCEPT !.pc = "answered", !.code = 500, !.items = <<>>]
    BY <1>1, <2>1, <2>2
  <2>4. req'[k].pc = "answered" /\ req'[k].code = 500
    BY <1>1, <2>3 DEF Request
  <2>5. FetchShape(k)'
    BY <1>1, <1>2, <2>3, <2>4 DEF FetchShape, Fetching, At, Request
  <2> QED
    BY <2>1, <2>4, <2>5 DEF FetchReads, At
<1> QED
  BY <1>1, <1>3, <1>4, <1>5
  DEF Serve, At, FindOne, Create, CreateFails, Update, SoftDelete

-----------------------------------------------------------------------------
(***************************************************************************)
(* Types.                                                                  *)
(***************************************************************************)
AppInv == TypeOK /\ \A k \in Keys : FetchShape(k)

LEMMA KeyIsKey == ASSUME page \in 1 .. MaxPage, search \in Searches
                  PROVE  Key \in Keys /\ Key # Form /\ Key # Card
BY SlotsApart DEF Key

LEMMA NoEntryType == NoEntry \in Entry
BY EmptySeq DEF NoEntry, Entry

LEMMA EntryShape ==
    ASSUME NEW e \in Entry, NEW n \in 0 .. 1, NEW b \in BOOLEAN, NEW c \in BOOLEAN
    PROVE  /\ [e EXCEPT !.failures = n, !.error = b, !.overtaken = c] \in Entry
           /\ [e EXCEPT !.failures = n, !.error = b] \in Entry
           /\ [e EXCEPT !.failures = n, !.overtaken = c] \in Entry
BY DEF Entry

LEMMA RefetchedType ==
    ASSUME cache \in [Keys -> Entry], NEW k \in Keys
    PROVE  /\ Refetched(k) \in Entry
           /\ Refetched(k).has = cache[k].has /\ Refetched(k).invalid = cache[k].invalid
           /\ Refetched(k).items = cache[k].items /\ Refetched(k).total = cache[k].total
<1>1. cache[k] \in Entry /\ (cache[k].error /\ cache[k].has) \in BOOLEAN
  BY DEF Entry
<1> DEFINE error == cache[k].error /\ cache[k].has
<1>2. Refetched(k) = [cache[k] EXCEPT !.failures = 0, !.error = error, !.overtaken = FALSE]
  BY DEF Refetched
<1>3. error \in BOOLEAN /\ 0 \in 0 .. 1
  BY <1>1
<1> HIDE DEF error
<1>4. Refetched(k) \in Entry
  <2>1. [cache[k] EXCEPT !.failures = 0, !.error = error, !.overtaken = FALSE] \in Entry
    BY <1>1, <1>3 DEF Entry
  <2> QED
    BY <1>2, <2>1
<1> QED
  BY <1>1, <1>2, <1>4 DEF Entry

\* What is put into a slot: nothing, the fetch of a key, or a mutation.
LEMMA PutSlot ==
    ASSUME AppInv, NEW r \in Slots, NEW q \in Request, req' = [req EXCEPT ![r] = q],
           r \in Keys => q.pc = "idle" \/ ListFetch(r, q)
    PROVE  req' \in [Slots -> Request] /\ \A k \in Keys : FetchShape(k)'
<1>1. req \in [Slots -> Request]
  BY DEF AppInv, TypeOK, ApiTypeOK
<1>2. req' \in [Slots -> Request] /\ req'[r] = q
  BY <1>1
<1>3. ASSUME NEW k \in Keys PROVE FetchShape(k)'
  <2>1. CASE k = r
    BY <1>2, <2>1 DEF FetchShape, Fetching, At, ListFetch
  <2>2. CASE k # r
    <3>1. req'[k] = req[k]
      BY <1>1, <2>2, SlotsApart
    <3> QED
      BY <3>1 DEF AppInv, FetchShape, Fetching, At
  <2> QED
    BY <2>1, <2>2
<1> QED
  BY <1>2, <1>3

LEMMA AppInit == Init => AppInv
<1> SUFFICES ASSUME Init PROVE AppInv
  OBVIOUS
<1>1. page \in 1 .. MaxPage /\ search \in Searches
  BY AppAssumption, BoundsAssumption DEF Init
<1>2. ASSUME NEW r \in Slots
      PROVE  /\ req[r] \in Request
             /\ r \in Keys => req[r].pc = "idle" \/ ListFetch(r, req[r])
  <2>1. CASE r = Key
    <3>1. req[r] = Admit(GetAll(r)) /\ r \in Keys
      BY <1>1, <2>1, KeyIsKey DEF Init
    <3> QED
      BY <3>1, FetchBegins DEF ListFetch
  <2>2. CASE r # Key
    <3>1. req[r] = Idle
      BY <2>2 DEF Init
    <3> QED
      BY <3>1, IdleType DEF Idle
  <2> QED
    BY <2>1, <2>2
<1>3. ApiTypeOK
  BY <1>2, TablesAssumption DEF Init, ApiTypeOK
<1>4. \A k \in Keys : FetchShape(k)
  BY <1>2, SlotsApart DEF FetchShape, Fetching, At, ListFetch
<1>5. cache \in [Keys -> Entry]
  BY NoEntryType DEF Init
<1>6. mutations \in 0 .. MaxMutations /\ faults \in 0 .. MaxFaults /\ form \in Nat
  BY BoundsAssumption DEF Init
<1> QED
  BY <1>1, <1>3, <1>4, <1>5, <1>6 DEF AppInv, TypeOK, FetchShape, Init

\* What the form waits for stays under way, as long as fetches that end are settled.
Waits == awaited \subseteq Keys /\ \A k \in awaited : Fetching(k)

LEMMA WaitsStays ==
    ASSUME Waits, NEW K \in SUBSET Keys, awaited' \subseteq awaited \ K,
           \A k \in Keys \ K : Fetching(k) => Fetching(k)'
    PROVE  Waits'
BY DEF Waits

LEMMA SettleType ==
    ASSUME NEW K, Settle(K), form \in Nat
    PROVE  awaited' \subseteq awaited \ K /\ form' \in {form, 0} /\ form' \in Nat
BY DEF Settle

\* The list of key k is fetched (again).
LEMMA FetchTypes ==
    ASSUME AppInv, NEW k \in Keys, req' = [req EXCEPT ![k] = Admit(GetAll(k))],
           rows' = rows
    PROVE  ApiTypeOK' /\ \A l \in Keys : FetchShape(l)'
<1>1. ListFetch(k, Admit(GetAll(k))) /\ k \in Slots
  BY FetchBegins, SlotsApart
<1> QED
  BY <1>1, PutSlot DEF ListFetch, ApiTypeOK, AppInv, TypeOK

\* What invalidating the queries does to the slots and the entries.
LEMMA InvalidateTypes ==
    ASSUME AppInv, NEW slot \in {Form, Card}, Invalidate(slot)
    PROVE  /\ req'[slot] = Idle
           /\ IF FirstFetch THEN req'[Key] = req[Key] ELSE ListFetch(Key, req'[Key])
           /\ req'[Key].pc # "idle"
           /\ \A r \in Slots \ {slot, Key} : req'[r] = req[r]
           /\ req' \in [Slots -> Request] /\ \A k \in Keys : FetchShape(k)'
           /\ cache' \in [Keys -> Entry]
<1>1. /\ req \in [Slots -> Request] /\ cache \in [Keys -> Entry] /\ Key \in Keys
      /\ slot \in Slots /\ slot \notin Keys /\ Key \in Slots /\ Keys \subseteq Slots
  BY KeyIsKey, SlotsApart DEF AppInv, TypeOK, ApiTypeOK
<1>2. Idle \in Request /\ ListFetch(Key, Admit(GetAll(Key)))
  BY <1>1, IdleType, FetchBegins
<1> DEFINE q == IF FirstFetch THEN req[Key] ELSE Admit(GetAll(Key))
<1>3. /\ q \in Request
      /\ IF FirstFetch THEN q = req[Key] ELSE ListFetch(Key, q)
  BY <1>1, <1>2 DEF ListFetch
<1>4. req' = [req EXCEPT ![slot] = Idle, ![Key] = q]
  <2>1. CASE FirstFetch
    <3>1. req' = [req EXCEPT ![slot] = Idle]
      BY <2>1 DEF Invalidate
    <3>2. [req EXCEPT ![slot] = Idle] = [req EXCEPT ![slot] = Idle, ![Key] = req[Key]]
      BY <1>1
    <3> QED
      BY <2>1, <3>1, <3>2
  <2>2. CASE ~FirstFetch
    BY <2>2 DEF Invalidate
  <2> QED
    BY <2>1, <2>2
<1> HIDE DEF q
<1>5. /\ req'[slot] = Idle /\ req'[Key] = q
      /\ \A r \in Slots \ {slot, Key} : req'[r] = req[r]
      /\ req' = [r \in Slots |-> req'[r]]
  BY <1>1, <1>4
<1>6. req' \in [Slots -> Request]
  BY <1>1, <1>2, <1>3, <1>5
<1>7. req'[Key].pc # "idle"
  <2>1. CASE FirstFetch
    BY <1>3, <1>5, <2>1, <1>1 DEF FirstFetch, Fetching, At
  <2>2. CASE ~FirstFetch
    BY <1>3, <1>5, <2>2 DEF ListFetch, Fetching, At
  <2> QED
    BY <2>1, <2>2
<1>8. ASSUME NEW k \in Keys PROVE FetchShape(k)'
  <2>1. CASE req'[k] = req[k]
    BY <2>1 DEF FetchShape, Fetching, At, AppInv
  <2>2. CASE req'[k] # req[k]
    <3>1. k = Key /\ ~FirstFetch
      BY <1>1, <1>3, <1>5, <2>2
    <3> QED
      BY <1>3, <1>5, <3>1 DEF FetchShape, Fetching, At, ListFetch
  <2> QED
    BY <2>1, <2>2
<1>9. ASSUME NEW k \in Keys PROVE Invalidated(k) \in Entry
  <2>1. [Refetched(k) EXCEPT !.invalid = TRUE] \in Entry
    BY <1>1, RefetchedType DEF Entry
  <2>2. [cache[k] EXCEPT !.invalid = cache[k].invalid \/ cache[k].has,
                         !.overtaken = cache[k].overtaken \/ Fetching(k)] \in Entry
    <3>1. /\ (cache[k].invalid \/ cache[k].has) \in BOOLEAN
          /\ (cache[k].overtaken \/ Fetching(k)) \in BOOLEAN /\ cache[k] \in Entry
      BY <1>1
    <3> QED
      BY <3>1 DEF Entry
  <2> QED
    BY <2>1, <2>2 DEF Invalidated
<1>10. cache' \in [Keys -> Entry]
  BY <1>9 DEF Invalidate
<1> QED
  BY <1>3, <1>5, <1>6, <1>7, <1>8, <1>10

LEMMA AppStep ==
    ASSUME AppInv, [Next]_vars
    PROVE  AppInv'
<1>1. /\ rows \in [Ids -> Row] /\ req \in [Slots -> Request] /\ cache \in [Keys -> Entry]
      /\ page \in 1 .. MaxPage /\ search \in Searches /\ Key \in Keys
      /\ form \in Nat /\ missed \in BOOLEAN
      /\ mutations \in 0 .. MaxMutations /\ faults \in 0 .. MaxFaults /\ Waits
  BY KeyIsKey DEF AppInv, TypeOK, ApiTypeOK, Waits
<1>2. ASSUME ApiTypeOK', \A k \in Keys : FetchShape(k)', page' \in 1 .. MaxPage,
             search' \in Searches, cache' \in [Keys -> Entry], form' \in Nat,
             missed' \in BOOLEAN, mutations' \in 0 .. MaxMutations,
             faults' \in 0 .. MaxFaults, Waits'
      PROVE  AppInv'
  BY <1>2 DEF AppInv, TypeOK, FetchShape, Waits
\* The fetch of a key begins (again), or a mutation: no fetch has ended.
<1>13. ASSUME NEW r \in Slots, NEW q, req' = [req EXCEPT ![r] = q], awaited' = awaited,
              r \in Keys => q.pc # "idle"
       PROVE  Waits'
  <2>1. \A k \in Keys \ {} : Fetching(k) => Fetching(k)'
    BY <1>1, <1>13, SlotsApart DEF Fetching, At
  <2>2. {} \in SUBSET Keys /\ awaited' \subseteq awaited \ {}
    BY <1>13
  <2> QED
    BY <1>1, <2>1, <2>2, WaitsStays
<1>14. ASSUME NEW k \in Keys, req' = [req EXCEPT ![k] = Idle], Settle({k}) PROVE Waits'
  <2>1. \A l \in Keys \ {k} : Fetching(l) => Fetching(l)'
    BY <1>1, <1>14, SlotsApart DEF Fetching, At
  <2>2. {k} \in SUBSET Keys /\ awaited' \subseteq awaited \ {k}
    BY <1>1, <1>14, SettleType
  <2> QED
    BY <1>1, <2>1, <2>2, WaitsStays
<1>15. ASSUME NEW k \in Keys PROVE k \in Slots /\ Admit(GetAll(k)).pc # "idle"
  BY FetchBegins, SlotsApart DEF ListFetch
<1>3. CASE UNCHANGED vars
  BY <1>3 DEF vars, uiVars, counters, AppInv, TypeOK, ApiTypeOK, FetchShape, Fetching, At
<1>4. ASSUME NEW p \in 1 .. MaxPage, NEW s \in Searches, Display(p, s) PROVE AppInv'
  <2> DEFINE k == Slot("list", p, s)
  <2>1. k \in Keys /\ page' = p /\ search' = s /\ rows' = rows /\ UNCHANGED <<form, awaited, missed, counters>>
    BY <1>4, SlotsApart DEF Display
  <2>2. CASE /\ req' = [req EXCEPT ![k] = Admit(GetAll(k))]
             /\ cache' = [cache EXCEPT ![k] = Refetched(k)]
    <3> HIDE DEF k
    <3>1. ApiTypeOK' /\ \A l \in Keys : FetchShape(l)'
      BY <2>1, <2>2, FetchTypes
    <3>2. cache' \in [Keys -> Entry]
      BY <1>1, <2>1, <2>2, RefetchedType
    <3>3. Waits'
      BY <1>13, <1>15, <2>1, <2>2
    <3> QED
      BY <1>1, <1>2, <2>1, <3>1, <3>2, <3>3 DEF counters
  <2>3. CASE UNCHANGED <<req, cache>>
    BY <1>1, <1>2, <2>1, <2>3 DEF counters, ApiTypeOK, AppInv, FetchShape, Waits, Fetching, At
  <2> QED
    BY <1>4, <2>2, <2>3 DEF Display
<1>5. CASE Focus
  <2>1. /\ req' = [req EXCEPT ![Key] = Admit(GetAll(Key))]
        /\ cache' = [cache EXCEPT ![Key] = Refetched(Key)]
        /\ UNCHANGED <<rows, missed, uiVars, counters>>
    BY <1>5 DEF Focus
  <2>2. ApiTypeOK' /\ \A l \in Keys : FetchShape(l)'
    BY <1>1, <2>1, FetchTypes
  <2>3. cache' \in [Keys -> Entry]
    BY <1>1, <2>1, RefetchedType
  <2>4. Waits'
    BY <1>1, <1>13, <1>15, <2>1 DEF uiVars
  <2> QED
    BY <1>1, <1>2, <2>1, <2>2, <2>3, <2>4 DEF counters, uiVars
<1>6. CASE Retype
  BY <1>1, <1>2, <1>6 DEF Retype, counters, ApiTypeOK, AppInv, FetchShape, Waits, Fetching, At
<1>7. ASSUME NEW k \in Keys, Receive(k) PROVE AppInv'
  <2>1. /\ req' = [req EXCEPT ![k] = Idle] /\ k \in Slots /\ Settle({k})
        /\ UNCHANGED <<rows, missed, page, search, counters>>
    BY <1>7, SlotsApart DEF Receive
  <2>2. ApiTypeOK' /\ \A l \in Keys : FetchShape(l)'
    BY <1>1, <2>1, IdleType, PutSlot DEF Idle, ApiTypeOK
  <2>3. cache' \in [Keys -> Entry]
    <3> DEFINE e == [NoEntry EXCEPT !.has = TRUE, !.items = req[k].items,
                                    !.total = req[k].total, !.overtaken = cache[k].overtaken]
    <3>1. e \in Entry
      BY <1>1, <2>1, NoEntryType DEF Entry, Request
    <3>2. cache' = [cache EXCEPT ![k] = e]
      BY <1>7 DEF Receive
    <3> QED
      BY <1>1, <3>1, <3>2
  <2>4. Waits' /\ form' \in Nat
    BY <1>1, <1>14, <2>1, SettleType
  <2> QED
    BY <1>1, <1>2, <2>1, <2>2, <2>3, <2>4 DEF counters
<1>8. ASSUME NEW k \in Keys, ReceiveError(k) PROVE AppInv'
  <2>1. k \in Slots /\ cache[k] \in Entry /\ UNCHANGED <<rows, missed, page, search, counters>>
    BY <1>1, <1>8, SlotsApart DEF ReceiveError
  <2>2. CASE /\ req' = [req EXCEPT ![k] = Admit(GetAll(k))]
             /\ cache' = [cache EXCEPT ![k].failures = 1, ![k].overtaken = FALSE]
             /\ Settle({})
    <3>1. ApiTypeOK' /\ \A l \in Keys : FetchShape(l)'
      BY <2>1, <2>2, FetchTypes
    <3>2. cache' = [cache EXCEPT ![k] = [cache[k] EXCEPT !.failures = 1, !.overtaken = FALSE]]
      BY <1>1, <2>2
    <3>3. [cache[k] EXCEPT !.failures = 1, !.overtaken = FALSE] \in Entry
      <4>1. 1 \in 0 .. 1
        OBVIOUS
      <4> QED
        BY <2>1, <4>1, EntryShape
    <3>4. cache' \in [Keys -> Entry]
      BY <1>1, <3>2, <3>3
    <3>5. awaited' = awaited /\ form' \in Nat
      BY <1>1, <2>2 DEF Settle
    <3>6. Waits'
      BY <1>13, <1>15, <2>2, <3>5
    <3> QED
      BY <1>1, <1>2, <2>1, <3>1, <3>4, <3>5, <3>6 DEF counters
  <2>3. CASE /\ req' = [req EXCEPT ![k] = Idle]
             /\ cache' = [cache EXCEPT ![k].failures = 0, ![k].error = TRUE]
             /\ Settle({k})
    <3>1. ApiTypeOK' /\ \A l \in Keys : FetchShape(l)'
      BY <1>1, <2>1, <2>3, IdleType, PutSlot DEF Idle, ApiTypeOK
    <3>2. cache' = [cache EXCEPT ![k] = [cache[k] EXCEPT !.failures = 0, !.error = TRUE]]
      BY <1>1, <2>3
    <3>3. [cache[k] EXCEPT !.failures = 0, !.error = TRUE] \in Entry
      <4>1. 0 \in 0 .. 1
        OBVIOUS
      <4> QED
        BY <2>1, <4>1, EntryShape
    <3>4. cache' \in [Keys -> Entry]
      BY <1>1, <3>2, <3>3
    <3>5. Waits' /\ form' \in Nat
      BY <1>1, <1>14, <2>3, SettleType
    <3> QED
      BY <1>1, <1>2, <2>1, <3>1, <3>4, <3>5 DEF counters
  <2> QED
    BY <1>8, <2>2, <2>3 DEF ReceiveError
<1>9. ASSUME NEW slot \in {Form, Card}, NEW in \in Input, Mutate(slot, in) PROVE AppInv'
  <2>1. /\ slot \in Slots /\ slot \notin Keys /\ Admit(in) \in Request
        /\ req' = [req EXCEPT ![slot] = Admit(in)]
        /\ UNCHANGED <<rows, cache, missed, uiVars, faults>>
    BY <1>9, SlotsApart, AdmitType DEF Mutate
  <2>2. ApiTypeOK' /\ \A l \in Keys : FetchShape(l)'
    BY <1>1, <2>1, PutSlot DEF ApiTypeOK
  <2>3. mutations' \in 0 .. MaxMutations
    BY <1>1, <1>9, BoundsAssumption DEF Mutate
  <2>4. Waits'
    BY <1>13, <2>1 DEF uiVars
  <2> QED
    BY <1>1, <1>2, <2>1, <2>2, <2>3, <2>4 DEF uiVars
<1>10. ASSUME NEW slot \in {Form, Card}, Succeed(slot) PROVE AppInv'
  <2>1. /\ Invalidate(slot) /\ slot \notin Keys
        /\ UNCHANGED <<rows, page, search, counters>> /\ missed' = FALSE
    BY <1>10, SlotsApart DEF Succeed
  <2>2. /\ req' \in [Slots -> Request] /\ \A k \in Keys : FetchShape(k)'
        /\ cache' \in [Keys -> Entry] /\ req'[Key].pc # "idle"
        /\ \A r \in Slots \ {slot, Key} : req'[r] = req[r]
    BY <1>10, <2>1, InvalidateTypes
  <2>3. awaited' \subseteq awaited \cup {Key} /\ form' \in Nat
    BY <1>1, <1>10 DEF Succeed, Settle
  <2>4. Waits'
    <3>1. ASSUME NEW k \in awaited' PROVE k \in Keys /\ Fetching(k)'
      <4>1. k = Key \/ (k \in Keys \ {Key} /\ Fetching(k))
        BY <1>1, <2>3, <3>1 DEF Waits
      <4>2. k # Key => k \in Slots \ {slot, Key}
        BY <2>1, <4>1, SlotsApart
      <4> QED
        BY <1>1, <2>2, <4>1, <4>2 DEF Fetching, At
    <3> QED
      BY <3>1 DEF Waits
  <2> QED
    BY <1>1, <1>2, <2>1, <2>2, <2>3, <2>4 DEF counters, ApiTypeOK
<1>11. ASSUME NEW slot \in {Form, Card}, Fail(slot) PROVE AppInv'
  <2>1. /\ slot \in Slots /\ slot \notin Keys
        /\ req' = [req EXCEPT ![slot] = Idle]
        /\ UNCHANGED <<rows, cache, missed, uiVars, counters>>
    BY <1>11, SlotsApart DEF Fail
  <2>2. ApiTypeOK' /\ \A l \in Keys : FetchShape(l)'
    BY <1>1, <2>1, IdleType, PutSlot DEF ApiTypeOK
  <2>3. Waits'
    BY <1>13, <2>1 DEF uiVars
  <2> QED
    BY <1>1, <1>2, <2>1, <2>2, <2>3 DEF uiVars, counters
<1>12. ASSUME NEW r \in Slots, Work(r) PROVE AppInv'
  <2>1. /\ Serve(r) /\ UNCHANGED <<cache, page, search, awaited, mutations>>
        /\ missed' \in BOOLEAN /\ form' \in Nat /\ faults' \in 0 .. MaxFaults
    BY <1>1, <1>12, BoundsAssumption DEF Work
  <2>2. ApiTypeOK'
    BY <2>1, ServeType DEF AppInv, TypeOK
  <2>3. ASSUME NEW k \in Keys PROVE FetchShape(k)'
    <3>1. CASE k = r
      BY <2>1, <3>1, ServeFetch DEF AppInv, TypeOK
    <3>2. CASE k # r
      <4>1. req'[k] = req[k]
        BY <2>1, <3>2, ServeSlot, SlotsApart DEF AppInv, TypeOK
      <4> QED
        BY <4>1 DEF AppInv, FetchShape, Fetching, At
    <3> QED
      BY <3>1, <3>2
  <2>4. Waits'
    <3>1. \A k \in Keys \ {} : Fetching(k) => Fetching(k)'
      BY <2>1, ServeSlot, SlotsApart DEF AppInv, TypeOK, Fetching, At
    <3>2. {} \in SUBSET Keys /\ awaited' \subseteq awaited \ {}
      BY <2>1
    <3> QED
      BY <1>1, <3>1, <3>2, WaitsStays
  <2> QED
    BY <1>1, <1>2, <2>1, <2>2, <2>3, <2>4
<1> QED
  BY <1>1, <1>3, <1>4, <1>5, <1>6, <1>7, <1>8, <1>9, <1>10, <1>11, <1>12, Steps

(***************************************************************************)
(* The state of the application has the right types; a fetch that is under *)
(* way is the request of its key.                                          *)
(***************************************************************************)
THEOREM AppTypesAreRight == Spec => []TypeOK
<1>1. AppInv => TypeOK
  BY DEF AppInv
<1> QED
  BY <1>1, AppInit, AppStep, PTL DEF Spec

-----------------------------------------------------------------------------
(***************************************************************************)
(* The form.  A resource that its contents have become is known of: its    *)
(* answer waits to be handled, or the form waits for the list to be fetched *)
(* again, or else a call has failed.                                       *)
(***************************************************************************)
Saved == At(Form, "answered") /\ req[Form].code < 400
FormInv ==
    /\ awaited # {} => At(Form, "idle")
    /\ form <= faults + (IF awaited # {} \/ Saved THEN 1 ELSE 0)

LEMMA FormStep ==
    ASSUME AppInv, FormInv, [Next]_vars
    PROVE  FormInv'
<1>1. /\ req \in [Slots -> Request] /\ form \in Nat /\ faults \in Nat
      /\ page \in 1 .. MaxPage /\ search \in Searches /\ Key \in Keys /\ ApiTypeOK
  BY KeyIsKey, BoundsAssumption DEF AppInv, TypeOK, ApiTypeOK
<1>2. Form \in Slots /\ Form \notin Keys /\ Form # Card /\ Keys \subseteq Slots /\ Card \in Slots
  BY SlotsApart
<1>3. ASSUME req'[Form] = req[Form], faults' = faults,
             (awaited' = awaited /\ form' \in {form, 0})
                 \/ (awaited' \subseteq awaited /\ form' = 0)
      PROVE  FormInv'
  BY <1>1, <1>3 DEF FormInv, Saved, At
\* The form waits for at most one fetch, and does not keep its contents without.
<1>12. ASSUME NEW K, Settle(K)
       PROVE  \/ awaited' = awaited /\ form' \in {form, 0}
              \/ awaited' \subseteq awaited /\ form' = 0
  <2>1. CASE awaited \cap K = {}
    <3>1. awaited \ K = awaited
      BY <2>1
    <3> QED
      BY <1>12, <2>1, <3>1 DEF Settle
  <2>2. CASE awaited \cap K # {}
    BY <1>12, <2>2 DEF Settle
  <2> QED
    BY <2>1, <2>2
<1>4. CASE UNCHANGED vars \/ Retype
  BY <1>3, <1>4 DEF vars, uiVars, counters, Retype
<1>5. ASSUME NEW p \in 1 .. MaxPage, NEW s \in Searches, Display(p, s) PROVE FormInv'
  <2>1. Slot("list", p, s) \in Keys
    BY SlotsApart
  <2> QED
    BY <1>1, <1>2, <1>3, <1>5, <2>1 DEF Display, counters
<1>6. CASE Focus
  BY <1>1, <1>2, <1>3, <1>6 DEF Focus, uiVars, counters
<1>7. ASSUME NEW k \in Keys, Receive(k) \/ ReceiveError(k) PROVE FormInv'
  <2>1. req'[Form] = req[Form] /\ faults' = faults /\ \E K : Settle(K)
    BY <1>1, <1>2, <1>7 DEF Receive, ReceiveError, counters
  <2> QED
    BY <1>3, <1>12, <2>1
<1>8. ASSUME NEW slot \in {Form, Card}, NEW in \in Input, Mutate(slot, in) PROVE FormInv'
  <2>1. CASE slot = Form
    <3>1. /\ ~At(Form, "answered") /\ form' = form /\ faults' = faults
          /\ awaited = {} /\ awaited' = {}
      BY <1>8, <2>1 DEF Mutate, At, uiVars
    <3> QED
      BY <1>1, <3>1 DEF FormInv, Saved
  <2>2. CASE slot = Card
    BY <1>1, <1>2, <1>3, <1>8, <2>2 DEF Mutate, uiVars
  <2> QED
    BY <1>8, <2>1, <2>2
<1>9. ASSUME NEW slot \in {Form, Card}, Succeed(slot) PROVE FormInv'
  <2>1. /\ req'[slot] = Idle /\ \A r \in Slots \ {slot, Key} : req'[r] = req[r]
        /\ faults' = faults
    BY <1>9, InvalidateTypes DEF Succeed, counters
  <2>2. CASE slot = Form
    <3>1. Saved /\ awaited' # {} /\ form' = form /\ At(Form, "idle")'
      BY <1>2, <1>9, <2>1, <2>2 DEF Succeed, Saved, At, Idle
    <3> QED
      BY <1>1, <2>1, <3>1 DEF FormInv
  <2>3. CASE slot = Card
    <3>1. req'[Form] = req[Form] /\ \E K : Settle(K)
      BY <1>1, <1>2, <1>9, <2>1, <2>3 DEF Succeed
    <3> QED
      BY <1>3, <1>12, <2>1, <3>1
  <2> QED
    BY <1>9, <2>2, <2>3
<1>10. ASSUME NEW slot \in {Form, Card}, Fail(slot) PROVE FormInv'
  <2>1. CASE slot = Form
    <3>1. /\ ~Saved /\ form' = form /\ faults' = faults /\ awaited' = awaited
          /\ At(Form, "idle")'
      <4>1. req[Form].code \in Codes
        BY <1>1, <1>2 DEF Request
      <4>2. /\ req[Form].code >= 400 /\ form' = form /\ faults' = faults
            /\ awaited' = awaited /\ At(Form, "idle")'
        BY <1>1, <1>2, <1>10, <2>1 DEF Fail, uiVars, counters, At, Idle
      <4> QED
        BY <4>1, <4>2 DEF Codes, Saved
    <3> QED
      BY <1>1, <3>1 DEF FormInv
  <2>2. CASE slot = Card
    BY <1>1, <1>2, <1>3, <1>10, <2>2 DEF Fail, uiVars, counters
  <2> QED
    BY <1>10, <2>1, <2>2
<1>11. ASSUME NEW r \in Slots, Work(r) PROVE FormInv'
  <2>1. /\ req[r].pc \in CallPcs
        /\ rows' # rows => /\ req'[r].pc = "answered"
                           /\ req'[r].code < 400 \/ req'[r].code = 500
        /\ \A o \in Slots \ {r} : req'[o] = req[o]
    BY <1>1, <1>11, ServeSlot DEF Work
  <2>2. /\ faults' = IF req'[r].code = 500 THEN faults + 1 ELSE faults
        /\ awaited' = awaited
    BY <1>11 DEF Work
  <2>3. CASE r = Form
    <3>1. form <= faults /\ awaited = {}
      BY <1>1, <2>1, <2>3 DEF FormInv, Saved, At, CallPcs, CheckPcs
    <3>2. CASE rows' # rows
      <4>1. form' = form + 1
        BY <1>11, <2>3, <3>2 DEF Work
      <4> QED
        BY <1>1, <2>1, <2>2, <2>3, <3>1, <3>2, <4>1 DEF FormInv, Saved, At
    <3>3. CASE rows' = rows
      <4>1. form' = form
        BY <1>11, <3>3 DEF Work
      <4> QED
        BY <1>1, <2>2, <3>1, <4>1 DEF FormInv, Saved
    <3> QED
      BY <3>2, <3>3
  <2>4. CASE r # Form
    <3>1. req'[Form] = req[Form] /\ form' = form
      BY <1>2, <1>11, <2>1, <2>4 DEF Work
    <3> QED
      BY <1>1, <2>2, <3>1 DEF FormInv, Saved, At
  <2> QED
    BY <2>3, <2>4
<1> QED
  BY <1>1, <1>4, <1>5, <1>6, <1>7, <1>8, <1>9, <1>10, <1>11, Steps

(***************************************************************************)
(* What is typed into the form becomes one resource, and another one only  *)
(* for every call of the database that has failed: a second click, while   *)
(* the form is being saved or while the list is fetched again afterwards,  *)
(* makes no second resource.                                               *)
(***************************************************************************)
THEOREM FormCreatesOnce == Spec => []CreatedOnce
<1>1. Init => FormInv
  BY DEF Init, FormInv, Saved
<1>2. AppInv /\ FormInv => CreatedOnce
  BY BoundsAssumption DEF AppInv, TypeOK, FormInv, CreatedOnce
<1> QED
  BY <1>1, <1>2, AppInit, AppStep, FormStep, PTL DEF Spec

-----------------------------------------------------------------------------
(***************************************************************************)
(* The list.  While every write is known of, what a fetch has read and what *)
(* an entry keeps is what is in the table, unless the queries were         *)
(* invalidated since the fetch began; and the key on display is fetched,   *)
(* or has data that is not invalid, or shows an error.                     *)
(***************************************************************************)
\* The resources of the table t that the list of key k is about, and items that it
\* may show.
Mine(t, k) == {i \in Ids : t[i].is = "live" /\ t[i].userId = Me /\ t[i].title \in k.search}
ListingsOf(t, S) ==
    {s \in [1 .. Cardinality(S) -> S] :
        \A j, l \in DOMAIN s :
            j < l => s[j] # s[l] /\ t[s[j]].createdAt >= t[s[l]].createdAt}
MayShow(t, k, items) ==
    \E s \in ListingsOf(t, Mine(t, k)) :
        LET p == Page(s, k.page, PageSize) IN
        items = [j \in 1 .. Len(p) |->
                    [id |-> p[j], title |-> t[p[j]].title, status |-> t[p[j]].status]]

\* Some write may not be known of yet.
Dirty == missed \/ Unanswered

Read(k) == At(k, "count") \/ (At(k, "answered") /\ req[k].code = 200)

FetchOK(k) ==
    Fetching(k) /\ ~cache[k].overtaken =>
        /\ Read(k) => MayShow(rows, k, req[k].items)
        /\ At(k, "answered") /\ req[k].code = 200 => req[k].total = Cardinality(Mine(rows, k))

EntryOK(k) ==
    cache[k].has /\ ~cache[k].invalid /\ ~cache[k].error /\ ~cache[k].overtaken
        => Fetching(k) \/ Matches(k)

DisplayOK == Fetching(Key) \/ cache[Key].error \/ (cache[Key].has /\ ~cache[Key].invalid)

ListInv == DisplayOK /\ (~Dirty => \A k \in Keys : FetchOK(k) /\ EntryOK(k))

LEMMA MatchesShows ==
    ASSUME NEW k
    PROVE  /\ Matches(k) <=> /\ cache[k].total = Cardinality(Mine(rows, k))
                             /\ MayShow(rows, k, cache[k].items)
           /\ Matches(k)' <=> /\ cache'[k].total = Cardinality(Mine(rows', k))
                              /\ MayShow(rows', k, cache'[k].items)
<1>1. Matches(k) <=> /\ cache[k].total = Cardinality(Mine(rows, k))
                     /\ MayShow(rows, k, cache[k].items)
  BY DEF Matches, Mine, MayShow, Listings, ListingsOf, Shown
<1>2. Matches(k)' <=> /\ cache'[k].total = Cardinality(Mine(rows', k))
                      /\ MayShow(rows', k, cache'[k].items)
  BY DEF Matches, Mine, MayShow, Listings, ListingsOf, Shown
<1> QED
  BY <1>1, <1>2

\* What a fetch that begins reads.
LEMMA FetchMatches ==
    ASSUME NEW k, req[k].user = Me, req[k].status = {}, req[k].search = k.search
    PROVE  Matching(req[k]) = Mine(rows, k)
BY DEF Matching, Mine

\* A step of the fetch of key k keeps what it has read true.
LEMMA FetchKeeps ==
    ASSUME AppInv, NEW k \in Keys, Serve(k), FetchOK(k), cache' = cache
    PROVE  FetchOK(k)' /\ EntryOK(k)' /\ Fetching(k)' /\ rows' = rows
<1>1. ApiTypeOK /\ FetchShape(k) /\ k \in Slots
  BY SlotsApart DEF AppInv, TypeOK
<1>2. rows' = rows /\ FetchReads(k) /\ req[k].pc \in CallPcs /\ req'[k].pc # "idle"
  BY <1>1, ServeFetch, ServeSlot
<1>3. Fetching(k) /\ Fetching(k)'
  BY <1>2 DEF Fetching, At, CallPcs, CheckPcs
<1>4. Matching(req[k]) = Mine(rows, k) /\ req[k].page = k.page /\ req[k].limit = PageSize
  BY <1>1, <1>3, FetchMatches DEF FetchShape
<1>5. CASE At(k, "findMany") /\ At(k, "count")'
  <2>1. \E s \in Listings(Mine(rows, k)) :
           LET p == Page(s, k.page, PageSize) IN
           req'[k].items = [j \in 1 .. Len(p) |-> Shown(p[j])]
    BY <1>2, <1>4, <1>5 DEF FetchReads, At
  <2>2. MayShow(rows, k, req'[k].items)
    BY <2>1 DEF MayShow, Listings, ListingsOf, Shown
  <2> QED
    BY <1>2, <1>3, <1>5, <2>2 DEF FetchOK, EntryOK, At
<1>6. CASE /\ At(k, "count") /\ At(k, "answered")'
           /\ req'[k].items = req[k].items
           /\ req'[k].total = Cardinality(Matching(req[k]))
  BY <1>2, <1>3, <1>4, <1>6 DEF FetchOK, EntryOK, At, Read
<1>7. CASE At(k, "answered")' /\ req'[k].code = 500
  BY <1>2, <1>3, <1>7 DEF FetchOK, EntryOK, At, Read
<1> QED
  BY <1>2, <1>3, <1>5, <1>6, <1>7 DEF FetchReads

\* A fetch that has just begun has read nothing.
LEMMA FetchFresh ==
    ASSUME NEW k, ListFetch(k, req'[k])
    PROVE  FetchOK(k)' /\ EntryOK(k)' /\ Fetching(k)'
BY DEF ListFetch, FetchOK, EntryOK, Fetching, Read, At

\* What a step leaves alone stays true.
LEMMA KeyStays ==
    ASSUME NEW k, rows' = rows, req'[k] = req[k], cache'[k] = cache[k],
           FetchOK(k), EntryOK(k)
    PROVE  FetchOK(k)' /\ EntryOK(k)'
BY MatchesShows DEF FetchOK, EntryOK, Fetching, Read, At

\* A write that is not known of stays so until a mutation succeeds.
LEMMA DirtyStays ==
    ASSUME Dirty, NEW o \in {Form, Card},
           missed => missed', \A slot \in {Form, Card} \ {o} : req'[slot] = req[slot],
           At(o, "answered") /\ req[o].code < 400 => At(o, "answered")' /\ req'[o].code < 400
    PROVE  Dirty'
<1>1. CASE missed
  BY <1>1 DEF Dirty
<1>2. CASE Unanswered
  <2>1. PICK slot \in {Form, Card} : At(slot, "answered") /\ req[slot].code < 400
    BY <1>2 DEF Unanswered
  <2>2. At(slot, "answered")' /\ req'[slot].code < 400
    BY <2>1 DEF At
  <2> QED
    BY <2>2 DEF Dirty, Unanswered
<1> QED
  BY <1>1, <1>2 DEF Dirty

LEMMA ListStep ==
    ASSUME AppInv, ListInv, [Next]_vars
    PROVE  ListInv'
<1>1. /\ req \in [Slots -> Request] /\ cache \in [Keys -> Entry]
      /\ page \in 1 .. MaxPage /\ search \in Searches /\ Key \in Keys /\ ApiTypeOK
  BY KeyIsKey DEF AppInv, TypeOK, ApiTypeOK
<1>2. /\ Form \in Slots /\ Card \in Slots /\ Form # Card /\ Keys \subseteq Slots
      /\ Form \notin Keys /\ Card \notin Keys
  BY SlotsApart
<1>3. /\ DisplayOK
      /\ ~Dirty => \A k \in Keys : FetchOK(k) /\ EntryOK(k)
  BY DEF ListInv
\* It is enough to look at the keys that a step touches.
<1>4. ASSUME NEW K \in SUBSET Keys, DisplayOK', Dirty => Dirty', rows' = rows,
             \A k \in Keys \ K : req'[k] = req[k] /\ cache'[k] = cache[k],
             ~Dirty => \A k \in K : FetchOK(k)' /\ EntryOK(k)'
      PROVE  ListInv'
  <2>1. ASSUME ~Dirty', NEW k \in Keys PROVE FetchOK(k)' /\ EntryOK(k)'
    <3>1. ~Dirty /\ FetchOK(k) /\ EntryOK(k)
      BY <1>3, <1>4, <2>1
    <3>2. CASE k \in K
      BY <1>4, <3>1, <3>2
    <3>3. CASE k \notin K
      BY <1>4, <3>1, <3>3, KeyStays
    <3> QED
      BY <3>2, <3>3
  <2> QED
    BY <1>4, <2>1 DEF ListInv
<1>5. ASSUME rows' = rows, req' = req, cache' = cache, missed' = missed, DisplayOK'
      PROVE  ListInv'
  <2>1. Dirty' <=> Dirty
    BY <1>5 DEF Dirty, Unanswered, At
  <2>2. {} \in SUBSET Keys
    OBVIOUS
  <2> QED
    BY <1>4, <1>5, <2>1, <2>2
<1>6. CASE UNCHANGED vars \/ Retype
  <2>1. /\ rows' = rows /\ req' = req /\ cache' = cache /\ missed' = missed
        /\ page' = page /\ search' = search
    BY <1>6 DEF vars, uiVars, counters, Retype
  <2>2. DisplayOK'
    BY <1>3, <2>1 DEF DisplayOK, Fetching, At, Key
  <2> QED
    BY <1>5, <2>1, <2>2
\* Key k is fetched (again), and is on display.
<1>7. ASSUME NEW k \in Keys, Key' = k, req' = [req EXCEPT ![k] = Admit(GetAll(k))],
             rows' = rows, missed' = missed,
             \A l \in Keys \ {k} : cache'[l] = cache[l]
      PROVE  ListInv'
  <2>1. ListFetch(k, req'[k]) /\ \A r \in Slots \ {k} : req'[r] = req[r]
    BY <1>1, <1>2, <1>7, FetchBegins
  <2>2. FetchOK(k)' /\ EntryOK(k)' /\ Fetching(k)'
    BY <2>1, FetchFresh
  <2>3. DisplayOK'
    BY <1>7, <2>2 DEF DisplayOK, Fetching, At
  <2>4. Dirty => Dirty'
    BY <1>2, <1>7, <2>1, DirtyStays DEF At
  <2>5. {k} \in SUBSET Keys /\ \A l \in Keys \ {k} : req'[l] = req[l] /\ cache'[l] = cache[l]
    BY <1>2, <1>7, <2>1
  <2> QED
    BY <1>4, <1>7, <2>2, <2>3, <2>4, <2>5
<1>8. ASSUME NEW p \in 1 .. MaxPage, NEW s \in Searches, Display(p, s) PROVE ListInv'
  <2> DEFINE k == Slot("list", p, s)
  <2>1. k \in Keys /\ Key' = k /\ rows' = rows /\ missed' = missed
    BY <1>8, SlotsApart DEF Display, Key
  <2>2. CASE /\ req' = [req EXCEPT ![k] = Admit(GetAll(k))]
             /\ cache' = [cache EXCEPT ![k] = Refetched(k)]
    <3> HIDE DEF k
    <3> QED
      BY <1>1, <1>7, <2>1, <2>2
  <2>3. CASE /\ Fetching(k) \/ (cache[k].has /\ ~cache[k].invalid)
             /\ UNCHANGED <<req, cache>>
    <3> HIDE DEF k
    <3>1. DisplayOK'
      BY <2>1, <2>3 DEF DisplayOK, Fetching, At
    <3> QED
      BY <1>5, <2>1, <2>3, <3>1
  <2> QED
    BY <1>8, <2>2, <2>3 DEF Display
<1>9. CASE Focus
  <2>1. Key' = Key /\ rows' = rows /\ missed' = missed
    BY <1>9 DEF Focus, uiVars, Key
  <2> QED
    BY <1>1, <1>7, <1>9, <2>1 DEF Focus
\* What a fetch brings.
<1>10. ASSUME NEW k \in Keys, Receive(k) PROVE ListInv'
  <2> DEFINE e == [NoEntry EXCEPT !.has = TRUE, !.items = req[k].items,
                                  !.total = req[k].total, !.overtaken = cache[k].overtaken]
  <2>1. /\ rows' = rows /\ missed' = missed /\ page' = page /\ search' = search
        /\ req' = [req EXCEPT ![k] = Idle] /\ cache' = [cache EXCEPT ![k] = e]
        /\ At(k, "answered") /\ req[k].code = 200
    BY <1>10 DEF Receive, uiVars
  <2>2. /\ e.has /\ ~e.invalid /\ ~e.error /\ e.items = req[k].items
        /\ e.total = req[k].total /\ e.overtaken = cache[k].overtaken
    BY DEF NoEntry
  <2> HIDE DEF e
  <2>3. /\ req'[k].pc = "idle" /\ cache'[k] = e
        /\ \A r \in Slots \ {k} : req'[r] = req[r]
        /\ \A l \in Keys \ {k} : req'[l] = req[l] /\ cache'[l] = cache[l]
    BY <1>1, <1>2, <2>1 DEF Idle
  <2>4. DisplayOK'
    <3>1. CASE k = Key
      BY <2>1, <2>2, <2>3, <3>1 DEF DisplayOK, Key
    <3>2. CASE k # Key
      <4>1. Key' = Key /\ req'[Key] = req[Key] /\ cache'[Key] = cache[Key]
        BY <1>1, <2>1, <2>3, <3>2 DEF Key
      <4> QED
        BY <1>3, <4>1 DEF DisplayOK, Fetching, At
    <3> QED
      BY <3>1, <3>2
  <2>5. Dirty => Dirty'
    BY <1>2, <2>1, <2>3, DirtyStays DEF At
  <2>6. ASSUME ~Dirty PROVE FetchOK(k)' /\ EntryOK(k)'
    <3>1. ~Fetching(k)'
      BY <2>3 DEF Fetching, At
    <3>2. ASSUME ~cache[k].overtaken PROVE Matches(k)'
      <4>1. MayShow(rows, k, req[k].items) /\ req[k].total = Cardinality(Mine(rows, k))
        BY <1>3, <2>1, <2>6, <3>2 DEF FetchOK, Fetching, Read, At
      <4>2. MayShow(rows', k, cache'[k].items) /\ cache'[k].total = Cardinality(Mine(rows', k))
        BY <2>1, <2>2, <2>3, <4>1
      <4> QED
        BY <4>2, MatchesShows
    <3> QED
      BY <2>2, <2>3, <3>1, <3>2 DEF FetchOK, EntryOK
  <2>7. /\ {k} \in SUBSET Keys /\ rows' = rows
        /\ \A l \in Keys \ {k} : req'[l] = req[l] /\ cache'[l] = cache[l]
        /\ ~Dirty => \A l \in {k} : FetchOK(l)' /\ EntryOK(l)'
    BY <2>1, <2>3, <2>6
  <2> QED
    BY <1>4, <2>4, <2>5, <2>7
<1>11. ASSUME NEW k \in Keys, ReceiveError(k) PROVE ListInv'
  <2>1. /\ rows' = rows /\ missed' = missed /\ page' = page /\ search' = search
        /\ Key' = Key
    BY <1>11 DEF ReceiveError, uiVars, Key
  <2>2. CASE /\ k = Key /\ req' = [req EXCEPT ![k] = Admit(GetAll(k))]
             /\ cache' = [cache EXCEPT ![k].failures = 1, ![k].overtaken = FALSE]
    <3>1. \A l \in Keys \ {k} : cache'[l] = cache[l]
      BY <1>1, <2>2
    <3> QED
      BY <1>7, <2>1, <2>2, <3>1
  <2>3. CASE /\ req' = [req EXCEPT ![k] = Idle]
             /\ cache' = [cache EXCEPT ![k].failures = 0, ![k].error = TRUE]
    <3>1. cache' = [cache EXCEPT ![k] = [cache[k] EXCEPT !.failures = 0, !.error = TRUE]]
      BY <1>1, <2>3
    <3>2. /\ req'[k].pc = "idle" /\ cache'[k].error
          /\ \A r \in Slots \ {k} : req'[r] = req[r]
          /\ \A l \in Keys \ {k} : req'[l] = req[l] /\ cache'[l] = cache[l]
      BY <1>1, <1>2, <2>3, <3>1 DEF Idle, Entry
    <3>3. DisplayOK'
      <4>1. CASE k = Key
        BY <2>1, <3>2, <4>1 DEF DisplayOK
      <4>2. CASE k # Key
        <5>1. req'[Key] = req[Key] /\ cache'[Key] = cache[Key]
          BY <1>1, <3>2, <4>2
        <5> QED
          BY <1>3, <2>1, <5>1 DEF DisplayOK, Fetching, At
      <4> QED
        BY <4>1, <4>2
    <3>4. Dirty => Dirty'
      BY <1>2, <2>1, <3>2, DirtyStays DEF At
    <3>5. FetchOK(k)' /\ EntryOK(k)'
      BY <3>2 DEF FetchOK, EntryOK, Fetching, At
    <3> QED
      BY <1>4, <2>1, <3>2, <3>3, <3>4, <3>5
  <2> QED
    BY <1>11, <2>2, <2>3 DEF ReceiveError
\* A mutation: the keys are left alone, and so is what is not known of.
<1>12. ASSUME NEW o \in {Form, Card}, NEW q, req' = [req EXCEPT ![o] = q],
              rows' = rows, cache' = cache, missed' = missed, page' = page, search' = search,
              ~(At(o, "answered") /\ req[o].code < 400)
       PROVE  ListInv'
  <2>1. \A r \in Slots \ {o} : req'[r] = req[r]
    BY <1>1, <1>12
  <2>2. \A k \in Keys : req'[k] = req[k] /\ cache'[k] = cache[k]
    BY <1>2, <1>12, <2>1
  <2>3. DisplayOK'
    BY <1>1, <1>3, <1>12, <2>2 DEF DisplayOK, Fetching, At, Key
  <2>4. Dirty => Dirty'
    BY <1>2, <1>12, <2>1, DirtyStays
  <2>5. {} \in SUBSET Keys
    OBVIOUS
  <2> QED
    BY <1>4, <1>12, <2>2, <2>3, <2>4, <2>5
<1>13. ASSUME NEW slot \in {Form, Card}, NEW in \in Input, Mutate(slot, in) PROVE ListInv'
  BY <1>12, <1>13 DEF Mutate, At, uiVars
<1>14. ASSUME NEW slot \in {Form, Card}, Fail(slot) PROVE ListInv'
  <2>1. req[slot].code \in Codes
    BY <1>1, <1>2 DEF Request
  <2>2. ~(At(slot, "answered") /\ req[slot].code < 400)
    BY <1>14, <2>1 DEF Fail, Codes
  <2> QED
    BY <1>12, <1>14, <2>2 DEF Fail, uiVars
\* A mutation succeeds: whatever was read before no longer counts.
<1>15. ASSUME NEW slot \in {Form, Card}, Succeed(slot) PROVE ListInv'
  <2>1. Invalidate(slot) /\ page' = page /\ search' = search /\ Key' = Key
    BY <1>15 DEF Succeed, Key
  <2> PICK K \in Keys : K = Key
    BY <1>1
  <2>2. /\ IF FirstFetch THEN req'[K] = req[K] ELSE ListFetch(K, req'[K])
        /\ req'[K].pc # "idle" /\ \A k \in Keys \ {K} : req'[k] = req[k]
    BY <1>2, <1>15, <2>1, InvalidateTypes
  <2>3. ASSUME NEW k \in Keys, k # Key \/ FirstFetch PROVE FetchOK(k)' /\ EntryOK(k)'
    <3>1. cache'[k] = [cache[k] EXCEPT !.invalid = cache[k].invalid \/ cache[k].has,
                                       !.overtaken = cache[k].overtaken \/ Fetching(k)]
      BY <2>1, <2>3 DEF Invalidate, Invalidated
    <3>2. /\ cache[k] \in Entry /\ cache'[k].has = cache[k].has
          /\ cache'[k].invalid = (cache[k].invalid \/ cache[k].has)
          /\ cache'[k].overtaken = (cache[k].overtaken \/ Fetching(k))
      BY <1>1, <3>1 DEF Entry
    <3>3. Fetching(k)' <=> Fetching(k)
      BY <2>2, <2>3 DEF Fetching, At
    <3> QED
      BY <3>2, <3>3 DEF FetchOK, EntryOK
  <2>4. ~FirstFetch => FetchOK(K)' /\ EntryOK(K)'
    BY <2>2, FetchFresh
  <2>5. DisplayOK'
    BY <2>1, <2>2 DEF DisplayOK, Fetching, At
  <2> QED
    BY <2>3, <2>4, <2>5 DEF ListInv
\* The API at work.
<1>16. ASSUME NEW r \in Slots, Work(r) PROVE ListInv'
  <2>1. /\ Serve(r) /\ cache' = cache /\ page' = page /\ search' = search /\ Key' = Key
        /\ missed' = (missed \/ (rows' # rows /\ req'[r].code = 500))
    BY <1>16 DEF Work, Key
  <2>2. /\ req[r].pc \in CallPcs /\ req'[r].pc # "idle"
        /\ rows' # rows => /\ req'[r].pc = "answered"
                           /\ req'[r].code < 400 \/ req'[r].code = 500
        /\ \A o \in Slots \ {r} : req'[o] = req[o]
    BY <1>1, <2>1, ServeSlot
  <2>3. ~At(r, "answered") /\ ~At(r, "idle") /\ ~At(r, "idle")'
    BY <2>2 DEF At, CallPcs, CheckPcs
  <2>4. Fetching(Key)' <=> Fetching(Key)
    <3>1. CASE Key = r
      BY <2>1, <2>3, <3>1 DEF Fetching, At
    <3>2. CASE Key # r
      BY <1>1, <1>2, <2>1, <2>2, <3>2 DEF Fetching, At
    <3> QED
      BY <3>1, <3>2
  <2>5. DisplayOK'
    BY <1>3, <2>1, <2>4 DEF DisplayOK
  <2>6. CASE r \in Keys
    <3>1. r \notin {Form, Card} /\ FetchShape(r)
      BY <1>2, <2>6 DEF AppInv
    <3>2. rows' = rows
      BY <1>1, <2>1, <2>6, <3>1, ServeFetch
    <3>3. Dirty => Dirty'
      <4>1. (missed => missed') /\ req'[Form] = req[Form] /\ req'[Card] = req[Card]
        BY <1>2, <2>1, <2>2, <3>1
      <4> QED
        BY <4>1, DirtyStays DEF At
    <3>4. ~Dirty => FetchOK(r)' /\ EntryOK(r)'
      BY <1>3, <2>1, <2>6, FetchKeeps
    <3>5. \A k \in Keys \ {r} : req'[k] = req[k] /\ cache'[k] = cache[k]
      BY <1>2, <2>1, <2>2
    <3>6. {r} \in SUBSET Keys
      BY <2>6
    <3> QED
      BY <1>4, <2>5, <3>2, <3>3, <3>4, <3>5, <3>6
  <2>7. CASE r \notin Keys
    <3>1. r \in {Form, Card} /\ \A k \in Keys : req'[k] = req[k] /\ cache'[k] = cache[k]
      BY <1>2, <2>1, <2>2, <2>7, SlotsApart
    <3>2. CASE rows' = rows
      <4>1. Dirty => Dirty'
        <5>1. missed => missed'
          BY <2>1
        <5>2. \A slot \in {Form, Card} \ {r} : req'[slot] = req[slot]
          BY <1>2, <2>2
        <5> QED
          BY <2>3, <3>1, <5>1, <5>2, DirtyStays
      <4>2. {} \in SUBSET Keys
        OBVIOUS
      <4> QED
        BY <1>4, <2>5, <3>1, <3>2, <4>1, <4>2
    <3>3. CASE rows' # rows
      <4>1. Dirty'
        BY <2>1, <2>2, <3>1, <3>3 DEF Dirty, Unanswered, At
      <4> QED
        BY <2>5, <4>1 DEF ListInv
    <3> QED
      BY <3>2, <3>3
  <2> QED
    BY <2>6, <2>7
<1> QED
  BY <1>1, <1>6, <1>8, <1>9, <1>10, <1>11, <1>13, <1>14, <1>15, <1>16, Steps

(***************************************************************************)
(* A list that is not loading and shows no error shows what is in the      *)
(* table, whatever fetches mutations have overtaken and however they were  *)
(* answered.  Apart are a write that was reported as failed, and a fetch   *)
(* that was overtaken and not dropped: off display, or the first of its    *)
(* key.                                                                    *)
(***************************************************************************)
THEOREM ListShowsTheTable == Spec => []ListIsCurrent
<1>1. Init => ListInv
  <2> SUFFICES ASSUME Init PROVE ListInv
    OBVIOUS
  <2>1. page \in 1 .. MaxPage /\ search \in Searches
    BY AppAssumption, BoundsAssumption DEF Init
  <2>2. Key \in Keys /\ Keys \subseteq Slots
    BY <2>1, KeyIsKey, SlotsApart
  <2>3. ListFetch(Key, req[Key])
    BY <2>2, FetchBegins DEF Init
  <2>4. \A k \in Keys : FetchOK(k) /\ EntryOK(k)
    <3>1. \A k \in Keys \ {Key} : ~Fetching(k)
      BY <2>2 DEF Init, Fetching, At, Idle
    <3>2. \A k \in Keys : ~cache[k].has
      BY DEF Init, NoEntry
    <3> QED
      BY <2>3, <3>1, <3>2 DEF FetchOK, EntryOK, Read, At, ListFetch
  <2>5. DisplayOK
    BY <2>3 DEF DisplayOK, Fetching, At, ListFetch
  <2> QED
    BY <2>4, <2>5 DEF ListInv
<1>2. AppInv /\ ListInv => ListIsCurrent
  BY KeyIsKey DEF AppInv, TypeOK, ListInv, DisplayOK, EntryOK, Dirty, ListIsCurrent
<1> QED
  BY <1>1, <1>2, AppInit, AppStep, ListStep, PTL DEF Spec
=============================================================================
