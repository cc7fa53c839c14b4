----------------------------- MODULE ResourceApi -----------------------------
(***************************************************************************)
(* api-template.ts: the Express module that keeps a user's resources in a  *)
(* database.  Requests are served concurrently.  What runs between two     *)
(* awaits is one step: a request goes through authenticate and validate*   *)
(* and then makes its calls of the database one by one.  updates and       *)
(* deletions are two calls, the check of findOne and the write; the two    *)
(* queries of a list see the database at two moments, since a batch        *)
(* $transaction runs under the default isolation of PostgreSQL, READ       *)
(* COMMITTED.                                                              *)
(***************************************************************************)
EXTENDS Integers, FiniteSets, Sequences

CONSTANTS
    Slots,         \* requests that may be in progress at a time
    Users,         \* users a token can name
    Accounts,      \* those that (still) have a row in the database
    Nobody,        \* the user of a missing, malformed or expired token
    Ids,           \* ids of resources
    Titles,        \* titles the schemas accept: 1 to 200 characters
    BadTitle,      \* one they do not
    DefaultLimit,  \* the default of limit (20)
    MaxLimit,      \* its maximum (100)
    MayFail,       \* whether calls of the database may throw
    Tables,        \* what the table may hold at first
    Inputs         \* what clients may send

\* A token that verifies names a user: what line 56 says of its payload with a cast,
\* and whoever issues the tokens has to keep to.
ASSUME UsersAssumption == Accounts \subseteq Users /\ Nobody \notin Users
ASSUME IdsAssumption == IsFiniteSet(Ids) /\ Ids # {}
ASSUME TitlesAssumption == BadTitle \notin Titles
ASSUME LimitsAssumption ==
    DefaultLimit \in Nat /\ MaxLimit \in Nat /\ DefaultLimit \in 1 .. MaxLimit

VARIABLES
    rows,   \* the table
    req     \* the request in each slot

apiVars == <<rows, req>>

Status == {"active", "archived"}
Methods == {"list", "get", "post", "patch", "delete"}

(***************************************************************************)
(* A row is absent, live (deletedAt is null) or deleted.                   *)
(***************************************************************************)
Row == [is : {"absent", "live", "deleted"}, userId : Users \cup {Nobody},
        title : Titles \cup {BadTitle}, status : Status, createdAt : Nat]

NoRow == [is |-> "absent", userId |-> Nobody, title |-> BadTitle,
          status |-> "active", createdAt |-> 0]

ASSUME TablesAssumption == Tables \subseteq [Ids -> Row]

\* What an answer shows of a resource.
Resource == [id : Ids, title : Titles \cup {BadTitle}, status : Status]
Shown(i) == [id |-> i, title |-> rows[i].title, status |-> rows[i].status]

(***************************************************************************)
(* What clients send.  A field that may be left out is the set of its      *)
(* values, empty if it is.  title and status are the body's, or status the *)
(* filter's; search is the set of titles that contain the term, whatever   *)
(* their case, and the set of all of them if there is none.                *)
(***************************************************************************)
Input == [token : Users \cup {Nobody}, method : Methods, id : Ids,
          title : SUBSET (Titles \cup {BadTitle}), status : SUBSET (Status \cup {"other"}),
          page : SUBSET Int, limit : SUBSET Int, search : SUBSET Titles]

ASSUME InputsAssumption == Inputs \subseteq Input

DefaultTo(field, value) == IF field = {} THEN value ELSE CHOOSE v \in field : TRUE

\* (a faulty variant: page may be 0)
FaultyValid(in) ==
    /\ in.method \in {"list", "post", "patch"} => in.status \subseteq Status
    /\ in.method = "list" => in.page \subseteq Nat /\ in.limit \subseteq 1 .. MaxLimit
    /\ in.method = "post" => in.title # {}
    /\ in.method \in {"post", "patch"} => in.title \subseteq Titles

\* ResourceQuerySchema, CreateResourceSchema, UpdateResourceSchema
Valid(in) ==
    /\ in.method \in {"list", "post", "patch"} => in.status \subseteq Status
    /\ in.method = "list" => in.page \subseteq Nat \ {0} /\ in.limit \subseteq 1 .. MaxLimit
    /\ in.method = "post" => in.title # {}
    /\ in.method \in {"post", "patch"} => in.title \subseteq Titles

(***************************************************************************)
(* A request in progress: where it is, what the middleware made of it, and *)
(* what is going to be answered.                                           *)
(***************************************************************************)
CheckPcs == {"findOne", "update", "softDelete"}
CallPcs == CheckPcs \cup {"findMany", "count", "create"}
Codes == {0, 200, 201, 204, 400, 401, 404, 500}

Request == [pc : {"idle", "answered"} \cup CallPcs, user : Users \cup {Nobody},
            method : Methods, id : Ids, title : SUBSET Titles, status : SUBSET Status,
            page : Nat \ {0}, limit : 1 .. MaxLimit, search : SUBSET Titles,
            code : Codes, items : Seq(Resource), total : Nat]

At(r, pc) == req[r].pc = pc

Idle == [pc |-> "idle", user |-> Nobody, method |-> "get", id |-> CHOOSE i \in Ids : TRUE,
         title |-> {}, status |-> {}, page |-> 1, limit |-> DefaultLimit,
         search |-> {}, code |-> 0, items |-> <<>>, total |-> 0]

\* errorHandler, res.json and the like: the answer to q.
Answer(q, code, items) ==
    [q EXCEPT !.pc = "answered", !.code = code,
              !.items = IF code < 400 THEN items ELSE <<>>]
Failure == IF MayFail THEN {500} ELSE {}

FirstCall(method) ==
    CASE method = "list" -> "findMany" [] method = "post" -> "create" [] OTHER -> "findOne"

\* The request after validateQuery or validateBody.
Parsed(in) ==
    [pc |-> FirstCall(in.method), user |-> in.token, method |-> in.method, id |-> in.id,
     title |-> IF in.method \in {"post", "patch"} THEN in.title ELSE {},
     status |-> CASE in.method = "post" -> {DefaultTo(in.status, "active")}
                  [] in.method \in {"list", "patch"} -> in.status
                  [] OTHER -> {},
     page |-> IF in.method = "list" THEN DefaultTo(in.page, 1) ELSE 1,
     limit |-> IF in.method = "list" THEN DefaultTo(in.limit, DefaultLimit) ELSE DefaultLimit,
     search |-> in.search, code |-> 0, items |-> <<>>, total |-> 0]

\* The router: authenticate, validate, and on to the service.
Admit(in) ==
    CASE in.token \notin Users -> Answer(Idle, 401, <<>>)
      [] in.token \in Users /\ ~Valid(in) -> Answer(Idle, 400, <<>>)
      [] OTHER -> Parsed(in)

Arrive(r, in) ==
    /\ At(r, "idle")
    /\ req' = [req EXCEPT ![r] = Admit(in)]
    /\ UNCHANGED rows

-----------------------------------------------------------------------------
(***************************************************************************)
(* ResourcesRepository                                                     *)
(***************************************************************************)

\* the where of findPaginated
Matching(q) ==
    {i \in Ids : /\ rows[i].is = "live" /\ rows[i].userId = q.user
                 /\ q.status # {} => rows[i].status \in q.status
                 /\ rows[i].title \in q.search}

\* orderBy createdAt desc: resources of the same moment come in any order.
Listings(S) ==
    {s \in [1 .. Cardinality(S) -> S] :
        \A j, k \in DOMAIN s :
            j < k => s[j] # s[k] /\ rows[s[j]].createdAt >= rows[s[k]].createdAt}

\* (a faulty variant: pages counted from 0)
FaultyPage(s, page, limit) ==
    SubSeq(s, page * limit + 1,
           IF (page + 1) * limit < Len(s) THEN (page + 1) * limit ELSE Len(s))

\* skip, take
Page(s, page, limit) ==
    SubSeq(s, (page - 1) * limit + 1,
           IF page * limit < Len(s) THEN page * limit ELSE Len(s))

TotalPages(total, limit) == (total + limit - 1) \div limit

FindMany(r) ==
    /\ At(r, "findMany")
    /\ \E s \in Listings(Matching(req[r])) :
          LET page == Page(s, req[r].page, req[r].limit) IN
          req' = [req EXCEPT ![r].pc = "count",
                             ![r].items = [j \in 1 .. Len(page) |-> Shown(page[j])]]
    /\ UNCHANGED rows

Count(r) ==
    /\ At(r, "count")
    /\ req' = [req EXCEPT ![r] = [Answer(@, 200, @.items) EXCEPT
                                     !.total = Cardinality(Matching(req[r]))]]
    /\ UNCHANGED rows

\* (a faulty variant: whose resource it is is not asked)
FaultyFindOne(r) ==
    /\ At(r, "findOne") /\ UNCHANGED rows
    /\ req' = [req EXCEPT ![r] =
           IF rows[@.id].is # "live" THEN Answer(@, 404, <<>>)
           ELSE CASE @.method = "patch" -> [@ EXCEPT !.pc = "update"]
                  [] @.method = "delete" -> [@ EXCEPT !.pc = "softDelete"]
                  [] OTHER -> Answer(@, 200, <<Shown(@.id)>>)]

\* findOne of the service: 404, the resource, or on to the write
FindOne(r) ==
    /\ At(r, "findOne") /\ UNCHANGED rows
    /\ req' = [req EXCEPT ![r] =
           IF rows[@.id].is # "live" \/ rows[@.id].userId # @.user THEN Answer(@, 404, <<>>)
           ELSE CASE @.method = "patch" -> [@ EXCEPT !.pc = "update"]
                  [] @.method = "delete" -> [@ EXCEPT !.pc = "softDelete"]
                  [] OTHER -> Answer(@, 200, <<Shown(@.id)>>)]

\* A row is not older than those before it, but may be of the same moment.
Moments == {t \in 1 .. Cardinality(Ids) :
               /\ \A i \in Ids : rows[i].createdAt <= t
               /\ \E i \in Ids : rows[i].createdAt >= t - 1}

\* A new id (which of them makes no difference).
Fresh(i) == rows[i].is = "absent" /\ i = CHOOSE j \in Ids : rows[j].is = "absent"

\* The write is done and answered, or done and the answer of the database lost.
Create(r) ==
    LET q == req[r] IN
    /\ At(r, "create") /\ q.user \in Accounts
    /\ \E i \in Ids, t \in Moments, code \in {201} \cup Failure :
          LET row == [is |-> "live", userId |-> q.user, title |-> DefaultTo(q.title, BadTitle),
                      status |-> DefaultTo(q.status, "active"), createdAt |-> t]
          IN  /\ Fresh(i)
              /\ rows' = [rows EXCEPT ![i] = row]
              /\ req' = [req EXCEPT ![r] = Answer(@, code,
                            <<[id |-> i, title |-> row.title, status |-> row.status]>>)]

\* connect finds no such user.
CreateFails(r) ==
    /\ At(r, "create") /\ req[r].user \notin Accounts
    /\ req' = [req EXCEPT ![r] = Answer(@, 500, <<>>)]
    /\ UNCHANGED rows

\* update has neither the user nor deletedAt in its where.
Update(r) ==
    LET q == req[r]
        row == [rows[q.id] EXCEPT !.title = DefaultTo(q.title, @),
                                  !.status = DefaultTo(q.status, @)]
    IN  /\ At(r, "update")
        /\ rows' = [rows EXCEPT ![q.id] = row]
        /\ \E code \in {200} \cup Failure :
              req' = [req EXCEPT ![r] = Answer(@, code,
                         <<[id |-> q.id, title |-> row.title, status |-> row.status]>>)]

SoftDelete(r) ==
    /\ At(r, "softDelete")
    /\ rows' = [rows EXCEPT ![req[r].id].is = "deleted"]
    /\ \E code \in {204} \cup Failure :
          req' = [req EXCEPT ![r] = Answer(@, code, <<>>)]

\* A call throws and has done nothing.
CallFails(r) ==
    /\ MayFail /\ req[r].pc \in CallPcs
    /\ req' = [req EXCEPT ![r] = Answer(@, 500, <<>>)]
    /\ UNCHANGED rows

\* The answer reaches the client.
Deliver(r) ==
    /\ At(r, "answered")
    /\ req' = [req EXCEPT ![r] = Idle]
    /\ UNCHANGED rows

-----------------------------------------------------------------------------
ApiInit ==
    /\ rows \in Tables
    /\ req = [r \in Slots |-> Idle]

Serve(r) ==
    \/ FindMany(r) \/ Count(r) \/ FindOne(r)
    \/ Create(r) \/ CreateFails(r) \/ Update(r) \/ SoftDelete(r) \/ CallFails(r)

ApiNext == \E r \in Slots : (\E in \in Inputs : Arrive(r, in)) \/ Serve(r) \/ Deliver(r)

ApiSpec == ApiInit /\ [][ApiNext]_apiVars

-----------------------------------------------------------------------------
ApiTypeOK ==
    /\ rows \in [Ids -> Row]
    /\ req \in [Slots -> Request]

\* A write that was checked by findOne is still about a row of the user.
Checked ==
    \A r \in Slots : req[r].pc \in {"update", "softDelete"} =>
        /\ rows[req[r].id].is # "absent"
        /\ rows[req[r].id].userId = req[r].user

(***************************************************************************)
(* Rows change only by the requests of their owners, although update and   *)
(* softDelete name the row by its id alone; a row never changes hands, and *)
(* what was deleted is never live again, in whatever order the checks and  *)
(* the writes of several requests interleave.                              *)
(***************************************************************************)
OwnersWrite ==
    [][\A i \in Ids : rows[i] # rows'[i] =>
          /\ \E r \in Slots : req[r] # req'[r] /\ req[r].user = rows'[i].userId
          /\ rows[i].is # "absent" => /\ rows'[i].userId = rows[i].userId
                                      /\ rows'[i].createdAt = rows[i].createdAt
                                      /\ rows[i].is = "deleted" => rows'[i].is = "deleted"
          /\ rows'[i].is # "absent"]_apiVars

(***************************************************************************)
(* What was answered can be relied on: what a deletion reports deleted is, *)
(* and stays so; what a creation, a change or a list shows is there, if    *)
(* not deleted since, and is its user's, whatever other requests did.      *)
(***************************************************************************)
AnswersHold ==
    \A r \in Slots : At(r, "answered") =>
        /\ req[r].code = 204 => rows[req[r].id].is = "deleted"
        /\ \A j \in DOMAIN req[r].items :
              /\ rows[req[r].items[j].id].is # "absent"
              /\ rows[req[r].items[j].id].userId = req[r].user

(***************************************************************************)
(* The pages 1 to totalPages of a list show everything that matches once,  *)
(* in order; none of them is empty, and the page after them is.            *)
(***************************************************************************)
PagesCover ==
    \A r \in Slots : At(r, "findMany") =>
        \A s \in Listings(Matching(req[r])), limit \in 1 .. MaxLimit :
            LET pages == TotalPages(Len(s), limit) IN
            /\ \A p \in 1 .. pages : Page(s, p, limit) # <<>>
            /\ Page(s, pages + 1, limit) = <<>>
            /\ \A j \in DOMAIN s : \E p \in 1 .. pages :
                  /\ j - (p - 1) * limit \in DOMAIN Page(s, p, limit)
                  /\ Page(s, p, limit)[j - (p - 1) * limit] = s[j]
                  /\ \A o \in 1 .. pages : o # p =>
                        \A k \in DOMAIN Page(s, o, limit) : Page(s, o, limit)[k] # s[j]

=============================================================================
