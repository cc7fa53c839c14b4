-------------------------- MODULE ResourceApiProofs --------------------------
(***************************************************************************)
(* Theorems about ResourceApi, for any number of requests, users and       *)
(* resources, any limits, and whatever clients send.                       *)
(***************************************************************************)
EXTENDS ResourceApi, FiniteSetTheorems, SequenceTheorems, TLAPS

-----------------------------------------------------------------------------
(***************************************************************************)
(* What the operators of the module return.                                *)
(***************************************************************************)
LEMMA DefaultToType ==
    ASSUME NEW S, NEW field \in SUBSET S, NEW value \in S
    PROVE  DefaultTo(field, value) \in S
  BY DEF DefaultTo

LEMMA ShownType ==
    ASSUME rows \in [Ids -> Row], NEW i \in Ids
    PROVE  Shown(i) \in Resource
  BY DEF Shown, Resource, Row

LEMMA IdleType == Idle \in Request
<1>1. (CHOOSE i \in Ids : TRUE) \in Ids
  BY IdsAssumption
<1>2. <<>> \in Seq(Resource)
  BY EmptySeq
<1>3. DefaultLimit \in 1 .. MaxLimit
  BY LimitsAssumption
<1>4. QED
  BY <1>1, <1>2, <1>3 DEF Idle, Request, Codes, Methods

LEMMA AnswerType ==
    ASSUME NEW q \in Request, NEW code \in Codes, NEW items \in Seq(Resource)
    PROVE  Answer(q, code, items) \in Request
<1>1. <<>> \in Seq(Resource)
  BY EmptySeq
<1> DEFINE sent == IF code < 400 THEN items ELSE <<>>
<1>2. sent \in Seq(Resource)
  BY <1>1
<1>3. Answer(q, code, items) = [q EXCEPT !.pc = "answered", !.code = code, !.items = sent]
  BY DEF Answer
<1> HIDE DEF sent
<1>4. QED
  BY <1>2, <1>3 DEF Request

LEMMA AdmitType ==
    ASSUME NEW in \in Input
    PROVE  Admit(in) \in Request
<1>1. in \in Input
  OBVIOUS
<1>2. <<>> \in Seq(Resource) /\ DefaultLimit \in 1 .. MaxLimit
  BY EmptySeq, LimitsAssumption
<1>3. \A code \in {400, 401} : Answer(Idle, code, <<>>) \in Request
  <2>1. 400 \in Codes /\ 401 \in Codes
    BY DEF Codes
  <2>2. QED
    BY <1>2, <2>1, IdleType, AnswerType
<1>4. ASSUME in.token \in Users, Valid(in) PROVE Parsed(in) \in Request
  <2>1. FirstCall(in.method) \in CallPcs
    BY <1>1 DEF FirstCall, CallPcs, CheckPcs, Input, Methods
  <2>2. in.method \in {"post", "patch"} => in.title \in SUBSET Titles
    BY <1>4 DEF Valid
  <2>3. in.method \in {"list", "post", "patch"} => in.status \in SUBSET Status
    BY <1>4 DEF Valid
  <2>4. in.method = "post" => DefaultTo(in.status, "active") \in Status
    BY <2>3, DefaultToType DEF Status
  <2>5. in.method = "list" => DefaultTo(in.page, 1) \in Nat \ {0}
    <3>1. ASSUME in.method = "list" PROVE in.page \in SUBSET (Nat \ {0})
      BY <1>4, <3>1 DEF Valid
    <3>2. 1 \in Nat \ {0}
      OBVIOUS
    <3>3. QED
      BY <3>1, <3>2, DefaultToType
  <2>6. in.method = "list" => DefaultTo(in.limit, DefaultLimit) \in 1 .. MaxLimit
    <3>1. ASSUME in.method = "list" PROVE in.limit \in SUBSET (1 .. MaxLimit)
      BY <1>4, <3>1 DEF Valid
    <3>2. QED
      BY <3>1, <1>2, DefaultToType
  <2> DEFINE title == IF in.method \in {"post", "patch"} THEN in.title ELSE {}
             status == CASE in.method = "post" -> {DefaultTo(in.status, "active")}
                         [] in.method \in {"list", "patch"} -> in.status
                         [] OTHER -> {}
             page == IF in.method = "list" THEN DefaultTo(in.page, 1) ELSE 1
             limit == IF in.method = "list" THEN DefaultTo(in.limit, DefaultLimit)
                      ELSE DefaultLimit
  <2>7. title \in SUBSET Titles
    BY <2>2
  <2>8. status \in SUBSET Status
    BY <2>3, <2>4
  <2>9. page \in Nat \ {0} /\ limit \in 1 .. MaxLimit
    BY <2>5, <2>6, <1>2
  <2>10. in.token \in Users \cup {Nobody} /\ in.method \in Methods /\ in.id \in Ids
         /\ in.search \in SUBSET Titles
    BY <1>1 DEF Input
  <2>11. Parsed(in) = [pc |-> FirstCall(in.method), user |-> in.token, method |-> in.method,
                       id |-> in.id, title |-> title, status |-> status, page |-> page,
                       limit |-> limit, search |-> in.search, code |-> 0, items |-> <<>>,
                       total |-> 0]
    BY DEF Parsed
  <2> HIDE DEF title, status, page, limit
  <2>12. QED
    BY <2>1, <2>7, <2>8, <2>9, <2>10, <2>11, <1>2 DEF Request, Codes
<1>5. QED
  BY <1>3, <1>4 DEF Admit

\* A page is a sequence of what the listing has.
LEMMA PageType ==
    ASSUME NEW S, NEW s \in Seq(S), NEW page \in Nat \ {0}, NEW limit \in Nat \ {0}
    PROVE  Page(s, page, limit) \in Seq(S)
<1> DEFINE m == (page - 1) * limit + 1
           n == IF page * limit < Len(s) THEN page * limit ELSE Len(s)
<1>1. page - 1 \in Nat /\ limit \in Nat
  OBVIOUS
<1>2. (page - 1) * limit \in Nat /\ page * limit \in Nat
  BY <1>1
<1>3. m \in Int /\ m >= 1
  BY <1>2
<1>4. n \in Int /\ n <= Len(s) /\ Len(s) \in Nat
  BY <1>2
<1> HIDE DEF m, n
<1>5. \A i \in m .. n : s[i] \in S
  BY <1>3, <1>4, ElementOfSeq
<1>6. SubSeq(s, m, n) \in Seq(S)
  BY <1>3, <1>4, <1>5, SubSeqProperties
<1>7. QED
  BY <1>6 DEF Page, m, n

LEMMA ListingType ==
    ASSUME rows \in [Ids -> Row], NEW q \in Request, NEW s \in Listings(Matching(q))
    PROVE  /\ s \in Seq(Matching(q))
           /\ Page(s, q.page, q.limit) \in Seq(Matching(q))
           /\ Cardinality(Matching(q)) \in Nat
<1>1. Matching(q) \subseteq Ids
  BY DEF Matching
<1>2. Cardinality(Matching(q)) \in Nat
  BY <1>1, IdsAssumption, FS_Subset, FS_CardinalityType
<1>3. s \in Seq(Matching(q))
  BY <1>2 DEF Listings
<1>4. q.page \in Nat \ {0} /\ q.limit \in Nat \ {0}
  BY LimitsAssumption DEF Request
<1>5. QED
  BY <1>2, <1>3, <1>4, PageType

-----------------------------------------------------------------------------
(***************************************************************************)
(* Types: what validate* let through stays well-typed up to the answer.    *)
(***************************************************************************)
LEMMA FailureType == Failure \subseteq Codes
  BY DEF Failure, Codes

\* A slot is given a well-typed request.
LEMMA SlotType ==
    ASSUME req \in [Slots -> Request], NEW r \in Slots, NEW q \in Request,
           req' = [req EXCEPT ![r] = q]
    PROVE  req' \in [Slots -> Request]
  OBVIOUS

LEMMA RowShape ==
    ASSUME NEW row \in Row, NEW title \in Titles \cup {BadTitle}, NEW status \in Status
    PROVE  /\ [row EXCEPT !.title = title, !.status = status] \in Row
           /\ [row EXCEPT !.is = "deleted"] \in Row
  BY DEF Row

LEMMA TypeInit == ApiInit => ApiTypeOK
  BY IdleType, TablesAssumption DEF ApiInit, ApiTypeOK

LEMMA FindManyType ==
    ASSUME ApiTypeOK, NEW r \in Slots, FindMany(r)
    PROVE  ApiTypeOK'
<1>1. PICK s \in Listings(Matching(req[r])) :
          LET page == Page(s, req[r].page, req[r].limit) IN
          req' = [req EXCEPT ![r].pc = "count",
                             ![r].items = [j \in 1 .. Len(page) |-> Shown(page[j])]]
  BY DEF FindMany
<1> DEFINE page == Page(s, req[r].page, req[r].limit)
           items == [j \in 1 .. Len(page) |-> Shown(page[j])]
<1>2. req[r] \in Request /\ rows \in [Ids -> Row]
  BY DEF ApiTypeOK
<1>3. page \in Seq(Matching(req[r])) /\ Matching(req[r]) \subseteq Ids
  BY <1>2, ListingType DEF Matching
<1>4. req' = [req EXCEPT ![r].pc = "count", ![r].items = items]
  BY <1>1
<1> HIDE DEF page
<1>5. \A j \in 1 .. Len(page) : page[j] \in Ids
  BY <1>3, ElementOfSeq
<1>6. \A j \in 1 .. Len(page) : Shown(page[j]) \in Resource
  BY <1>2, <1>5, ShownType
<1>7. Len(page) \in Nat
  BY <1>3
<1>8. items \in Seq(Resource)
  BY <1>6, <1>7
<1> HIDE DEF items
<1>9. [req[r] EXCEPT !.pc = "count", !.items = items] \in Request
  BY <1>2, <1>8 DEF Request, CallPcs, CheckPcs
<1>10. req' = [req EXCEPT ![r] = [req[r] EXCEPT !.pc = "count", !.items = items]]
  BY <1>4 DEF ApiTypeOK
<1>11. QED
  BY <1>9, <1>10 DEF FindMany, ApiTypeOK

LEMMA CountType ==
    ASSUME ApiTypeOK, NEW r \in Slots, Count(r)
    PROVE  ApiTypeOK'
<1>1. req[r] \in Request /\ rows \in [Ids -> Row]
  BY DEF ApiTypeOK
<1>2. Matching(req[r]) \subseteq Ids
  BY DEF Matching
<1>3. Cardinality(Matching(req[r])) \in Nat
  BY <1>2, IdsAssumption, FS_Subset, FS_CardinalityType
<1>4. 200 \in Codes /\ req[r].items \in Seq(Resource)
  BY <1>1 DEF Codes, Request
<1>5. Answer(req[r], 200, req[r].items) \in Request
  BY <1>1, <1>4, AnswerType
<1> DEFINE q == [Answer(req[r], 200, req[r].items)
                    EXCEPT !.total = Cardinality(Matching(req[r]))]
<1>6. q \in Request
  BY <1>3, <1>5 DEF Request
<1>7. req' = [req EXCEPT ![r] = q]
  BY DEF Count
<1>8. QED
  BY <1>6, <1>7 DEF Count, ApiTypeOK

LEMMA FindOneType ==
    ASSUME ApiTypeOK, NEW r \in Slots, FindOne(r)
    PROVE  ApiTypeOK'
<1>1. req[r] \in Request /\ rows \in [Ids -> Row]
  BY DEF ApiTypeOK
<1>2. 404 \in Codes /\ 200 \in Codes /\ <<>> \in Seq(Resource)
  BY EmptySeq DEF Codes
<1>3. req[r].id \in Ids
  BY <1>1 DEF Request
<1>4. <<Shown(req[r].id)>> \in Seq(Resource)
  BY <1>1, <1>3, ShownType
<1>5. /\ Answer(req[r], 404, <<>>) \in Request
      /\ Answer(req[r], 200, <<Shown(req[r].id)>>) \in Request
  BY <1>1, <1>2, <1>4, AnswerType
<1>6. [req[r] EXCEPT !.pc = "update"] \in Request
      /\ [req[r] EXCEPT !.pc = "softDelete"] \in Request
  BY <1>1 DEF Request, CallPcs, CheckPcs
<1> DEFINE q == IF rows[req[r].id].is # "live" \/ rows[req[r].id].userId # req[r].user
                THEN Answer(req[r], 404, <<>>)
                ELSE CASE req[r].method = "patch" -> [req[r] EXCEPT !.pc = "update"]
                       [] req[r].method = "delete" -> [req[r] EXCEPT !.pc = "softDelete"]
                       [] OTHER -> Answer(req[r], 200, <<Shown(req[r].id)>>)
<1>7. q \in Request
  BY <1>5, <1>6
<1>8. req' = [req EXCEPT ![r] = q] /\ rows' = rows
  BY DEF FindOne
<1> HIDE DEF q
<1>9. QED
  BY <1>7, <1>8 DEF ApiTypeOK

LEMMA CreateType ==
    ASSUME ApiTypeOK, NEW r \in Slots, Create(r)
    PROVE  ApiTypeOK'
<1> DEFINE q == req[r]
           title == DefaultTo(q.title, BadTitle)
           status == DefaultTo(q.status, "active")
           row(t) == [is |-> "live", userId |-> q.user, title |-> title,
                      status |-> status, createdAt |-> t]
           shown(i, t) == [id |-> i, title |-> row(t).title, status |-> row(t).status]
<1>1. q \in Request /\ rows \in [Ids -> Row] /\ req \in [Slots -> Request]
  BY DEF ApiTypeOK
<1>2. PICK i \in Ids, t \in Moments, code \in {201} \cup Failure :
          /\ Fresh(i)
          /\ rows' = [rows EXCEPT ![i] = row(t)]
          /\ req' = [req EXCEPT ![r] = Answer(req[r], code, <<shown(i, t)>>)]
  BY Zenon DEF Create
<1>3. title \in Titles \cup {BadTitle} /\ status \in Status
  <2>1. q.title \in SUBSET (Titles \cup {BadTitle}) /\ q.status \in SUBSET Status
    BY <1>1 DEF Request
  <2>2. BadTitle \in Titles \cup {BadTitle} /\ "active" \in Status
    BY DEF Status
  <2>3. QED
    BY <2>1, <2>2, DefaultToType
<1>4. t \in Nat
  <2>1. Cardinality(Ids) \in Nat
    BY IdsAssumption, FS_CardinalityType
  <2>2. QED
    BY <2>1 DEF Moments
<1>5. code \in Codes
  BY FailureType DEF Codes
<1> HIDE DEF title, status
<1>6. row(t) \in Row
  BY <1>1, <1>3, <1>4 DEF Row, Request
<1>7. <<shown(i, t)>> \in Seq(Resource)
  <2>1. shown(i, t) \in Resource
    BY <1>3 DEF Resource
  <2> HIDE DEF shown
  <2>2. QED
    BY <2>1
<1>8. Answer(q, code, <<shown(i, t)>>) \in Request
  BY <1>1, <1>5, <1>7, AnswerType
<1> HIDE DEF q, row, shown
<1>9. QED
  BY <1>1, <1>2, <1>6, <1>8 DEF ApiTypeOK, q

LEMMA UpdateType ==
    ASSUME ApiTypeOK, NEW r \in Slots, Update(r)
    PROVE  ApiTypeOK'
<1> DEFINE q == req[r]
           title == DefaultTo(q.title, rows[q.id].title)
           status == DefaultTo(q.status, rows[q.id].status)
           row == [rows[q.id] EXCEPT !.title = title, !.status = status]
           shown == [id |-> q.id, title |-> row.title, status |-> row.status]
<1>1. /\ q \in Request /\ q.id \in Ids /\ rows \in [Ids -> Row]
      /\ req \in [Slots -> Request] /\ rows[q.id] \in Row
  BY DEF ApiTypeOK, Request
<1>2. PICK code \in {200} \cup Failure :
          /\ rows' = [rows EXCEPT ![q.id] = row]
          /\ req' = [req EXCEPT ![r] = Answer(q, code, <<shown>>)]
  BY DEF Update
<1>3. title \in Titles \cup {BadTitle} /\ status \in Status
  <2>1. q.title \in SUBSET (Titles \cup {BadTitle}) /\ q.status \in SUBSET Status
    BY <1>1 DEF Request
  <2>2. rows[q.id].title \in Titles \cup {BadTitle} /\ rows[q.id].status \in Status
    BY <1>1 DEF Row
  <2>3. QED
    BY <2>1, <2>2, DefaultToType
<1>4. code \in Codes
  BY FailureType DEF Codes
<1> HIDE DEF title, status
<1>5. row \in Row
  BY <1>1, <1>3, RowShape
<1>6. <<shown>> \in Seq(Resource)
  <2> HIDE DEF row
  <2>1. shown \in Resource
    BY <1>1, <1>5 DEF Resource, Row
  <2> HIDE DEF shown
  <2>2. QED
    BY <2>1
<1>7. Answer(q, code, <<shown>>) \in Request
  BY <1>1, <1>4, <1>6, AnswerType
<1> HIDE DEF q, row, shown
<1>8. QED
  BY <1>1, <1>2, <1>5, <1>7 DEF ApiTypeOK

LEMMA ServeType ==
    ASSUME ApiTypeOK, NEW r \in Slots, Serve(r)
    PROVE  ApiTypeOK'
<1>1. rows \in [Ids -> Row] /\ req \in [Slots -> Request] /\ <<>> \in Seq(Resource)
  BY EmptySeq DEF ApiTypeOK
<1>2. CASE CreateFails(r) \/ CallFails(r)
  <2>1. Answer(req[r], 500, <<>>) \in Request
    <3>1. 500 \in Codes
      BY DEF Codes
    <3>2. QED
      BY <1>1, <3>1, AnswerType
  <2>2. req' = [req EXCEPT ![r] = Answer(req[r], 500, <<>>)] /\ rows' = rows
    BY <1>2 DEF CreateFails, CallFails
  <2>3. QED
    BY <1>1, <2>1, <2>2, SlotType DEF ApiTypeOK
<1>3. CASE SoftDelete(r)
  <2>1. PICK code \in {204} \cup Failure : req' = [req EXCEPT ![r] = Answer(req[r], code, <<>>)]
    BY <1>3 DEF SoftDelete
  <2>2. code \in Codes
    BY FailureType DEF Codes
  <2>3. Answer(req[r], code, <<>>) \in Request
    BY <1>1, <2>2, AnswerType
  <2>4. rows' \in [Ids -> Row]
    BY <1>1, <1>3, RowShape DEF SoftDelete, Row
  <2>5. QED
    BY <1>1, <2>1, <2>3, <2>4, SlotType DEF ApiTypeOK
<1>4. QED
  BY <1>2, <1>3, FindManyType, CountType, FindOneType, CreateType, UpdateType DEF Serve

LEMMA TypeStep == ApiTypeOK /\ [ApiNext]_apiVars => ApiTypeOK'
<1> SUFFICES ASSUME ApiTypeOK, [ApiNext]_apiVars PROVE ApiTypeOK'
  OBVIOUS
<1>1. ASSUME NEW r \in Slots, NEW in \in Inputs, Arrive(r, in) PROVE ApiTypeOK'
  BY <1>1, AdmitType, SlotType, InputsAssumption DEF Arrive, ApiTypeOK
<1>2. ASSUME NEW r \in Slots, Serve(r) PROVE ApiTypeOK'
  BY <1>2, ServeType
<1>3. ASSUME NEW r \in Slots, Deliver(r) PROVE ApiTypeOK'
  BY <1>3, IdleType, SlotType DEF Deliver, ApiTypeOK
<1>4. CASE UNCHANGED apiVars
  BY <1>4 DEF ApiTypeOK, apiVars
<1>5. QED
  BY <1>1, <1>2, <1>3, <1>4 DEF ApiNext

(***************************************************************************)
(* The table and the requests stay well-typed, whatever clients send: a    *)
(* page is positive, a limit within its bounds, and only titles and        *)
(* statuses that the schemas accept are written.                           *)
(***************************************************************************)
THEOREM ApiTypeCorrect == ApiSpec => []ApiTypeOK
  BY TypeInit, TypeStep, PTL DEF ApiSpec

-----------------------------------------------------------------------------
(***************************************************************************)
(* Ownership.                                                              *)
(***************************************************************************)

\* What one step may do to row i, if it was written for request r.
WrittenFor(r, i) ==
    /\ req[r].user = rows'[i].userId
    /\ req[r] # req'[r]
    /\ rows'[i].is # "absent"
    /\ rows[i].is # "absent" => /\ rows'[i].userId = rows[i].userId
                                /\ rows'[i].createdAt = rows[i].createdAt
                                /\ rows[i].is = "deleted" => rows'[i].is = "deleted"

\* An answered request is not in the middle of a call.
LEMMA AnswerEnds ==
    ASSUME NEW q \in Request, NEW code, NEW items
    PROVE  /\ Answer(q, code, items).pc = "answered"
           /\ Answer(q, code, items).user = q.user
           /\ Answer(q, code, items).id = q.id
           /\ Answer(q, code, items).code = code
           /\ Answer(q, code, items).items \in {items, <<>>}
<1> DEFINE sent == IF code < 400 THEN items ELSE <<>>
<1>1. Answer(q, code, items) = [q EXCEPT !.pc = "answered", !.code = code, !.items = sent]
  BY DEF Answer
<1>2. sent \in {items, <<>>}
  OBVIOUS
<1> HIDE DEF sent
<1>3. QED
  BY <1>1, <1>2 DEF Request

LEMMA CreateWrites ==
    ASSUME ApiTypeOK, NEW r \in Slots, Create(r)
    PROVE  \E i \in Ids, code \in {201} \cup Failure : \E title, status :
              /\ rows[i].is = "absent"
              /\ rows'[i].is = "live" /\ rows'[i].userId = req[r].user
              /\ \A j \in Ids : j # i => rows'[j] = rows[j]
              /\ req' = [req EXCEPT ![r] = Answer(req[r], code,
                            <<[id |-> i, title |-> title, status |-> status]>>)]
<1> DEFINE row(t) == [is |-> "live", userId |-> req[r].user,
                      title |-> DefaultTo(req[r].title, BadTitle),
                      status |-> DefaultTo(req[r].status, "active"), createdAt |-> t]
<1>1. PICK i \in Ids, t \in Moments, code \in {201} \cup Failure :
          /\ Fresh(i)
          /\ rows' = [rows EXCEPT ![i] = row(t)]
          /\ req' = [req EXCEPT ![r] = Answer(req[r], code,
                        <<[id |-> i, title |-> row(t).title, status |-> row(t).status]>>)]
  BY Zenon DEF Create
<1>2. rows[i].is = "absent"
  BY <1>1 DEF Fresh
<1>3. rows'[i] = row(t) /\ \A j \in Ids : j # i => rows'[j] = rows[j]
  BY <1>1 DEF ApiTypeOK
<1>4. row(t).is = "live" /\ row(t).userId = req[r].user
  OBVIOUS
<1> HIDE DEF row
<1>5. QED
  BY <1>1, <1>2, <1>3, <1>4

LEMMA UpdateWrites ==
    ASSUME ApiTypeOK, NEW r \in Slots, Update(r)
    PROVE  /\ \A j \in Ids : j # req[r].id => rows'[j] = rows[j]
           /\ \A f \in {"is", "userId", "createdAt"} :
                 rows'[req[r].id][f] = rows[req[r].id][f]
           /\ \E code \in {200} \cup Failure : \E title, status :
                 req' = [req EXCEPT ![r] = Answer(req[r], code,
                            <<[id |-> req[r].id, title |-> title, status |-> status]>>)]
<1> DEFINE old == rows[req[r].id]
           row == [old EXCEPT !.title = DefaultTo(req[r].title, @),
                              !.status = DefaultTo(req[r].status, @)]
<1>1. rows' = [rows EXCEPT ![req[r].id] = row]
  BY DEF Update
<1>2. PICK code \in {200} \cup Failure :
          req' = [req EXCEPT ![r] = Answer(req[r], code,
                     <<[id |-> req[r].id, title |-> row.title, status |-> row.status]>>)]
  BY DEF Update
<1>3. req[r].id \in Ids /\ rows \in [Ids -> Row] /\ old \in Row
  BY DEF ApiTypeOK, Request
<1>4. \A f \in {"is", "userId", "createdAt"} : row[f] = old[f]
  BY <1>3 DEF Row
<1> HIDE DEF row
<1>5. QED
  BY <1>1, <1>2, <1>3, <1>4

\* Each step changes rows only for the request that it serves.
LEMMA StepWrites ==
    ASSUME ApiTypeOK, Checked, ApiNext
    PROVE  \A i \in Ids : rows[i] # rows'[i] => \E r \in Slots : WrittenFor(r, i)
<1> SUFFICES ASSUME NEW i \in Ids, rows[i] # rows'[i]
             PROVE  \E r \in Slots : WrittenFor(r, i)
  OBVIOUS
<1>1. rows \in [Ids -> Row] /\ req \in [Slots -> Request]
  BY DEF ApiTypeOK
<1>2. PICK r \in Slots : Create(r) \/ Update(r) \/ SoftDelete(r)
  BY DEF ApiNext, Serve, Arrive, FindMany, Count, FindOne, CreateFails, CallFails, Deliver
<1>3. req[r] \in Request /\ req[r].pc \in {"create", "update", "softDelete"}
  BY <1>1, <1>2 DEF Create, Update, SoftDelete, At
<1>4. ASSUME req'[r].pc = "answered" PROVE req[r] # req'[r]
  BY <1>3, <1>4
<1>5. CASE Create(r)
  <2>1. PICK k \in Ids, code \in {201} \cup Failure : \E title, status :
           /\ rows[k].is = "absent"
           /\ rows'[k].is = "live" /\ rows'[k].userId = req[r].user
           /\ \A j \in Ids : j # k => rows'[j] = rows[j]
           /\ req' = [req EXCEPT ![r] = Answer(req[r], code,
                         <<[id |-> k, title |-> title, status |-> status]>>)]
    BY <1>5, CreateWrites
  <2>2. k = i
    BY <2>1
  <2>3. req'[r].pc = "answered"
    BY <1>1, <1>3, <2>1, AnswerEnds
  <2>4. QED
    BY <1>4, <2>1, <2>2, <2>3 DEF WrittenFor
<1>6. CASE Update(r)
  <2>1. req'[r].pc = "answered"
    <3>1. PICK code \in {200} \cup Failure : \E title, status :
             req' = [req EXCEPT ![r] = Answer(req[r], code,
                        <<[id |-> req[r].id, title |-> title, status |-> status]>>)]
      BY <1>6, UpdateWrites
    <3>2. QED
      BY <1>1, <1>3, <3>1, AnswerEnds
  <2>2. req[r].id = i
    BY <1>6, UpdateWrites
  <2>3. rows[i].is # "absent" /\ rows[i].userId = req[r].user
    BY <1>6, <2>2 DEF Update, At, Checked
  <2>4. rows'[i].is = rows[i].is /\ rows'[i].userId = rows[i].userId
        /\ rows'[i].createdAt = rows[i].createdAt
    <3>1. rows'[i]["is"] = rows[i]["is"] /\ rows'[i]["userId"] = rows[i]["userId"]
          /\ rows'[i]["createdAt"] = rows[i]["createdAt"]
      BY <1>6, <2>2, UpdateWrites
    <3>2. QED
      BY <3>1
  <2>5. QED
    BY <1>4, <2>1, <2>3, <2>4 DEF WrittenFor
<1>7. CASE SoftDelete(r)
  <2>1. rows' = [rows EXCEPT ![req[r].id] = [rows[req[r].id] EXCEPT !.is = "deleted"]]
    BY <1>1, <1>7 DEF SoftDelete
  <2>2. req[r].id = i
    BY <2>1, <1>1
  <2>3. rows[i].is # "absent" /\ rows[i].userId = req[r].user /\ rows[i] \in Row
    BY <1>1, <1>7, <2>2 DEF SoftDelete, At, Checked
  <2>4. rows'[i].is = "deleted" /\ rows'[i].userId = rows[i].userId
        /\ rows'[i].createdAt = rows[i].createdAt
    BY <1>1, <2>1, <2>2, <2>3 DEF Row
  <2>5. req'[r].pc = "answered"
    BY <1>1, <1>3, <1>7, AnswerEnds DEF SoftDelete
  <2>6. QED
    BY <1>4, <2>3, <2>4, <2>5 DEF WrittenFor
<1>8. QED
  BY <1>2, <1>5, <1>6, <1>7

\* A row that is there stays, deleted ones deleted, and is its user's.
LEMMA RowsStay ==
    ASSUME ApiTypeOK, Checked, ApiNext, NEW i \in Ids, rows[i].is # "absent"
    PROVE  /\ rows'[i].is # "absent"
           /\ rows'[i].userId = rows[i].userId
           /\ rows[i].is = "deleted" => rows'[i].is = "deleted"
  BY StepWrites DEF WrittenFor

\* The requests of the other slots stay as they are.
LEMMA OthersStay ==
    ASSUME ApiTypeOK, NEW r \in Slots,
           Serve(r) \/ Deliver(r) \/ \E in \in Inputs : Arrive(r, in)
    PROVE  \A o \in Slots : o # r => req'[o] = req[o]
<1>1. \E q : req' = [req EXCEPT ![r] = q]
  <2>1. CASE FindMany(r)
    <3>1. PICK page : req' = [req EXCEPT ![r].pc = "count",
                                  ![r].items = [j \in 1 .. Len(page) |-> Shown(page[j])]]
      BY <2>1 DEF FindMany
    <3> DEFINE items == [j \in 1 .. Len(page) |-> Shown(page[j])]
    <3>2. req' = [req EXCEPT ![r].pc = "count", ![r].items = items]
      BY <3>1
    <3> HIDE DEF items
    <3>3. req' = [req EXCEPT ![r] = [req[r] EXCEPT !.pc = "count", !.items = items]]
      BY <3>2 DEF ApiTypeOK
    <3>4. QED
      BY <3>3
  <2>2. CASE Create(r)
    BY <2>2, CreateWrites
  <2>3. CASE Update(r)
    BY <2>3, UpdateWrites
  <2>4. CASE ~(FindMany(r) \/ Create(r) \/ Update(r))
    BY <2>4 DEF Serve, Deliver, Arrive, Count, FindOne, CreateFails, SoftDelete, CallFails
  <2>5. QED
    BY <2>1, <2>2, <2>3, <2>4
<1>2. QED
  BY <1>1 DEF ApiTypeOK

(***************************************************************************)
(* The inductive invariant of AnswersHold: what findOne has checked stays  *)
(* true up to the write, and what a request is about to show is its        *)
(* user's.                                                                 *)
(***************************************************************************)
CheckedSlot(r) ==
    req[r].pc \in {"update", "softDelete"} =>
        /\ rows[req[r].id].is # "absent"
        /\ rows[req[r].id].userId = req[r].user

ShowsOwn(r) ==
    \A j \in DOMAIN req[r].items :
        /\ req[r].items[j].id \in Ids
        /\ rows[req[r].items[j].id].is # "absent"
        /\ rows[req[r].items[j].id].userId = req[r].user

GoneSlot(r) == req[r].code = 204 => rows[req[r].id].is = "deleted"

SlotOK(r) == CheckedSlot(r) /\ ShowsOwn(r) /\ GoneSlot(r)

OwnInv == ApiTypeOK /\ \A r \in Slots : SlotOK(r)

LEMMA OwnInvImplies == OwnInv => Checked /\ AnswersHold
  BY DEF OwnInv, SlotOK, CheckedSlot, ShowsOwn, GoneSlot, Checked, AnswersHold

\* A slot whose request does not change stays as it should be.
LEMMA SlotStays ==
    ASSUME OwnInv, ApiNext, NEW r \in Slots, req'[r] = req[r]
    PROVE  SlotOK(r)'
<1>1. Checked /\ ApiTypeOK /\ SlotOK(r)
  BY OwnInvImplies DEF OwnInv
<1>2. req[r].id \in Ids
  BY <1>1 DEF ApiTypeOK, Request
<1>3. CheckedSlot(r)'
  BY <1>1, <1>2, RowsStay DEF SlotOK, CheckedSlot
<1>4. ShowsOwn(r)'
  BY <1>1, RowsStay DEF SlotOK, ShowsOwn
<1>5. GoneSlot(r)'
  <2>1. ASSUME req[r].code = 204 PROVE rows'[req[r].id].is = "deleted"
    BY <1>1, <1>2, <2>1, RowsStay DEF SlotOK, GoneSlot
  <2>2. QED
    BY <2>1 DEF GoneSlot
<1>6. QED
  BY <1>3, <1>4, <1>5 DEF SlotOK

\* An answer without a resource, and not of a deletion, claims nothing.
LEMMA PlainAnswer ==
    ASSUME NEW r \in Slots, NEW q \in Request, NEW code \in Codes \ {204},
           req'[r] = Answer(q, code, <<>>)
    PROVE  SlotOK(r)'
<1>1. req'[r].pc = "answered" /\ req'[r].items = <<>> /\ req'[r].code = code
  BY AnswerEnds
<1>2. QED
  BY <1>1 DEF SlotOK, CheckedSlot, ShowsOwn, GoneSlot

\* An answer that shows one resource of the user.
LEMMA OneShown ==
    ASSUME NEW r \in Slots, NEW q \in Request, NEW code \in Codes \ {204}, NEW i \in Ids,
           NEW title, NEW status,
           req'[r] = Answer(q, code, <<[id |-> i, title |-> title, status |-> status]>>),
           rows'[i].is # "absent", rows'[i].userId = q.user
    PROVE  SlotOK(r)'
<1> DEFINE shown == [id |-> i, title |-> title, status |-> status]
<1>1. /\ req'[r].pc = "answered" /\ req'[r].code = code /\ req'[r].user = q.user
      /\ req'[r].items \in {<<shown>>, <<>>}
  BY AnswerEnds
<1>2. shown.id = i
  OBVIOUS
<1> HIDE DEF shown
<1>3. \A j \in DOMAIN req'[r].items : req'[r].items[j] = shown
  BY <1>1
<1>4. QED
  BY <1>1, <1>2, <1>3 DEF SlotOK, CheckedSlot, ShowsOwn, GoneSlot

LEMMA ArriveOwn ==
    ASSUME OwnInv, NEW r \in Slots, NEW in \in Inputs, Arrive(r, in)
    PROVE  SlotOK(r)'
<1>1. req'[r] = Admit(in)
  BY DEF Arrive, OwnInv, ApiTypeOK
<1>2. CASE in.token \in Users /\ Valid(in)
  <2>1. Parsed(in).pc \in {"findMany", "create", "findOne"}
    BY DEF Parsed, FirstCall
  <2>2. Parsed(in).items = <<>> /\ Parsed(in).code = 0
    BY DEF Parsed
  <2>3. req'[r] = Parsed(in)
    BY <1>1, <1>2 DEF Admit
  <2>4. QED
    BY <2>1, <2>2, <2>3 DEF SlotOK, CheckedSlot, ShowsOwn, GoneSlot
<1>3. CASE ~(in.token \in Users /\ Valid(in))
  <2>1. 400 \in Codes \ {204} /\ 401 \in Codes \ {204}
    BY DEF Codes
  <2>2. req'[r] = Answer(Idle, 400, <<>>) \/ req'[r] = Answer(Idle, 401, <<>>)
    BY <1>1, <1>3 DEF Admit
  <2>3. QED
    BY <2>1, <2>2, IdleType, PlainAnswer
<1>4. QED
  BY <1>2, <1>3

LEMMA FindManyOwn ==
    ASSUME OwnInv, NEW r \in Slots, FindMany(r)
    PROVE  SlotOK(r)'
<1>1. PICK s \in Listings(Matching(req[r])) :
          LET page == Page(s, req[r].page, req[r].limit) IN
          req' = [req EXCEPT ![r].pc = "count",
                             ![r].items = [j \in 1 .. Len(page) |-> Shown(page[j])]]
  BY DEF FindMany
<1> DEFINE page == Page(s, req[r].page, req[r].limit)
           items == [j \in 1 .. Len(page) |-> Shown(page[j])]
<1>2. req[r] \in Request /\ rows \in [Ids -> Row] /\ SlotOK(r) /\ rows' = rows
  BY DEF OwnInv, ApiTypeOK, FindMany
<1>3. page \in Seq(Matching(req[r]))
  BY <1>2, ListingType
<1>4. req' = [req EXCEPT ![r].pc = "count", ![r].items = items]
  BY <1>1
<1> HIDE DEF page
<1>5. \A j \in 1 .. Len(page) : page[j] \in Matching(req[r])
  BY <1>3, ElementOfSeq
<1>6. DOMAIN items = 1 .. Len(page) /\ \A j \in 1 .. Len(page) : items[j].id = page[j]
  BY DEF Shown
<1> HIDE DEF items
<1>7. req'[r] = [req[r] EXCEPT !.pc = "count", !.items = items]
  BY <1>4 DEF OwnInv, ApiTypeOK
<1>8. /\ req'[r].pc = "count" /\ req'[r].items = items /\ req'[r].code = req[r].code
      /\ req'[r].id = req[r].id /\ req'[r].user = req[r].user
  BY <1>2, <1>7 DEF Request
<1>9. \A i \in Matching(req[r]) : i \in Ids /\ rows[i].is = "live" /\ rows[i].userId = req[r].user
  BY DEF Matching
<1>10. ShowsOwn(r)'
  BY <1>2, <1>5, <1>6, <1>8, <1>9 DEF ShowsOwn
<1>11. QED
  BY <1>2, <1>8, <1>10 DEF SlotOK, CheckedSlot, GoneSlot

LEMMA CountOwn ==
    ASSUME OwnInv, NEW r \in Slots, Count(r)
    PROVE  SlotOK(r)'
<1>1. req[r] \in Request /\ SlotOK(r) /\ rows' = rows
  BY DEF OwnInv, ApiTypeOK, Count
<1> DEFINE total == Cardinality(Matching(req[r]))
           q == Answer(req[r], 200, req[r].items)
<1>2. req'[r] = [q EXCEPT !.total = total]
  BY DEF Count, OwnInv, ApiTypeOK
<1>3. 200 \in Codes /\ req[r].items \in Seq(Resource)
  BY <1>1 DEF Codes, Request
<1>4. q \in Request
  BY <1>1, <1>3, AnswerType
<1>5. q.pc = "answered" /\ q.code = 200 /\ q.user = req[r].user /\ q.items \in {req[r].items, <<>>}
  BY <1>1, AnswerEnds
<1> HIDE DEF q, total
<1>6. req'[r].pc = "answered" /\ req'[r].code = 200 /\ req'[r].user = req[r].user
      /\ req'[r].items \in {req[r].items, <<>>}
  BY <1>2, <1>4, <1>5 DEF Request
<1>7. QED
  BY <1>1, <1>6 DEF SlotOK, CheckedSlot, ShowsOwn, GoneSlot

LEMMA FindOneOwn ==
    ASSUME OwnInv, NEW r \in Slots, FindOne(r)
    PROVE  SlotOK(r)'
<1>1. /\ req[r] \in Request /\ req[r].id \in Ids /\ rows \in [Ids -> Row] /\ rows' = rows
      /\ SlotOK(r) /\ req \in [Slots -> Request]
  BY DEF OwnInv, ApiTypeOK, FindOne, Request
<1>2. 404 \in Codes \ {204} /\ 200 \in Codes \ {204}
  BY DEF Codes
<1>3. CASE rows[req[r].id].is # "live" \/ rows[req[r].id].userId # req[r].user
  <2>1. req'[r] = Answer(req[r], 404, <<>>)
    BY <1>1, <1>3 DEF FindOne
  <2>2. QED
    BY <1>1, <1>2, <2>1, PlainAnswer
<1>4. CASE rows[req[r].id].is = "live" /\ rows[req[r].id].userId = req[r].user
  <2>1. CASE req[r].method \in {"patch", "delete"}
    <3>1. PICK pc \in {"update", "softDelete"} : req'[r] = [req[r] EXCEPT !.pc = pc]
      BY <1>1, <1>4, <2>1 DEF FindOne
    <3>2. /\ req'[r].items = req[r].items /\ req'[r].code = req[r].code
          /\ req'[r].id = req[r].id /\ req'[r].user = req[r].user
      BY <1>1, <3>1 DEF Request
    <3>3. QED
      BY <1>1, <1>4, <3>2 DEF SlotOK, CheckedSlot, ShowsOwn, GoneSlot
  <2>2. CASE req[r].method \notin {"patch", "delete"}
    <3>1. req'[r] = Answer(req[r], 200, <<Shown(req[r].id)>>)
      BY <1>1, <1>4, <2>2 DEF FindOne
    <3>2. QED
      BY <1>1, <1>2, <1>4, <3>1, OneShown DEF Shown
  <2>3. QED
    BY <2>1, <2>2
<1>5. QED
  BY <1>3, <1>4

LEMMA CreateOwn ==
    ASSUME OwnInv, NEW r \in Slots, Create(r)
    PROVE  SlotOK(r)'
<1>1. req[r] \in Request /\ req \in [Slots -> Request] /\ ApiTypeOK
  BY DEF OwnInv, ApiTypeOK
<1>2. PICK i \in Ids, code \in {201} \cup Failure : \E title, status :
          /\ rows[i].is = "absent"
          /\ rows'[i].is = "live" /\ rows'[i].userId = req[r].user
          /\ \A j \in Ids : j # i => rows'[j] = rows[j]
          /\ req' = [req EXCEPT ![r] = Answer(req[r], code,
                        <<[id |-> i, title |-> title, status |-> status]>>)]
  BY <1>1, CreateWrites
<1>3. code \in Codes \ {204}
  BY DEF Codes, Failure
<1>4. QED
  BY <1>1, <1>2, <1>3, OneShown

LEMMA UpdateOwn ==
    ASSUME OwnInv, NEW r \in Slots, Update(r)
    PROVE  SlotOK(r)'
<1>1. req[r] \in Request /\ req[r].id \in Ids /\ req \in [Slots -> Request] /\ ApiTypeOK
  BY DEF OwnInv, ApiTypeOK, Request
<1>2. PICK code \in {200} \cup Failure : \E title, status :
          req' = [req EXCEPT ![r] = Answer(req[r], code,
                     <<[id |-> req[r].id, title |-> title, status |-> status]>>)]
  BY <1>1, UpdateWrites
<1>3. code \in Codes \ {204}
  BY DEF Codes, Failure
<1>4. rows[req[r].id].is # "absent" /\ rows[req[r].id].userId = req[r].user
  BY DEF Update, At, OwnInv, SlotOK, CheckedSlot
<1>5. rows'[req[r].id].is # "absent" /\ rows'[req[r].id].userId = req[r].user
  <2>1. ApiNext /\ Checked
    BY OwnInvImplies DEF ApiNext, Serve
  <2>2. QED
    BY <1>1, <1>4, <2>1, RowsStay
<1>6. QED
  BY <1>1, <1>2, <1>3, <1>5, OneShown

LEMMA SoftDeleteOwn ==
    ASSUME OwnInv, NEW r \in Slots, SoftDelete(r)
    PROVE  SlotOK(r)'
<1>1. /\ req[r] \in Request /\ req[r].id \in Ids /\ req \in [Slots -> Request]
      /\ rows \in [Ids -> Row] /\ rows[req[r].id] \in Row
  BY DEF OwnInv, ApiTypeOK, Request
<1>2. PICK code : req' = [req EXCEPT ![r] = Answer(req[r], code, <<>>)]
  BY DEF SoftDelete
<1>3. rows' = [rows EXCEPT ![req[r].id] = [rows[req[r].id] EXCEPT !.is = "deleted"]]
  BY <1>1 DEF SoftDelete
<1>4. rows'[req[r].id].is = "deleted"
  BY <1>1, <1>3 DEF Row
<1>5. /\ req'[r].pc = "answered" /\ req'[r].items = <<>> /\ req'[r].id = req[r].id
  BY <1>1, <1>2, AnswerEnds
<1>6. QED
  BY <1>4, <1>5 DEF SlotOK, CheckedSlot, ShowsOwn, GoneSlot

LEMMA OwnStep == OwnInv /\ [ApiNext]_apiVars => OwnInv'
<1> SUFFICES ASSUME OwnInv, [ApiNext]_apiVars PROVE OwnInv'
  OBVIOUS
<1>1. ApiTypeOK'
  BY TypeStep DEF OwnInv
<1>2. CASE UNCHANGED apiVars
  BY <1>2 DEF OwnInv, ApiTypeOK, SlotOK, CheckedSlot, ShowsOwn, GoneSlot, apiVars
<1>3. CASE ApiNext
  <2>1. PICK r \in Slots : Serve(r) \/ Deliver(r) \/ \E in \in Inputs : Arrive(r, in)
    BY <1>3 DEF ApiNext
  <2>2. ASSUME NEW o \in Slots, o # r PROVE SlotOK(o)'
    <3>1. req'[o] = req[o]
      BY <2>1, <2>2, OthersStay DEF OwnInv
    <3>2. QED
      BY <1>3, <3>1, SlotStays
  <2>3. SlotOK(r)'
    <3>1. ASSUME CreateFails(r) \/ CallFails(r) PROVE SlotOK(r)'
      <4>1. 500 \in Codes \ {204} /\ req[r] \in Request /\ req \in [Slots -> Request]
        BY DEF Codes, OwnInv, ApiTypeOK
      <4>2. QED
        BY <3>1, <4>1, PlainAnswer DEF CreateFails, CallFails
    <3>2. ASSUME Deliver(r) PROVE SlotOK(r)'
      <4>1. req'[r] = Idle
        BY <3>2 DEF Deliver, OwnInv, ApiTypeOK
      <4>2. Idle.items = <<>> /\ Idle.pc = "idle" /\ Idle.code = 0
        BY DEF Idle
      <4>3. QED
        BY <4>1, <4>2 DEF SlotOK, CheckedSlot, ShowsOwn, GoneSlot
    <3>3. QED
      BY <2>1, <3>1, <3>2, ArriveOwn, FindManyOwn, CountOwn, FindOneOwn, CreateOwn,
         UpdateOwn, SoftDeleteOwn DEF Serve
  <2>4. QED
    BY <1>1, <2>2, <2>3 DEF OwnInv
<1>4. QED
  BY <1>2, <1>3

LEMMA OwnInit == ApiInit => OwnInv
<1> SUFFICES ASSUME ApiInit PROVE OwnInv
  OBVIOUS
<1>1. \A r \in Slots : req[r] = Idle
  BY DEF ApiInit
<1>2. Idle.items = <<>> /\ Idle.pc = "idle" /\ Idle.code = 0
  BY DEF Idle
<1>3. QED
  BY <1>1, <1>2, TypeInit DEF OwnInv, SlotOK, CheckedSlot, ShowsOwn, GoneSlot

(***************************************************************************)
(* However the checks and writes of any number of requests interleave, a   *)
(* row is changed only for its owner, never changes hands, and is not      *)
(* brought back once it is deleted, although update and softDelete name    *)
(* it by its id alone.                                                     *)
(***************************************************************************)
THEOREM OnlyOwnersWrite == ApiSpec => OwnersWrite
<1>1. OwnInv /\ [ApiNext]_apiVars =>
        [\A i \in Ids : rows[i] # rows'[i] =>
            /\ \E r \in Slots : req[r] # req'[r] /\ req[r].user = rows'[i].userId
            /\ rows[i].is # "absent" => /\ rows'[i].userId = rows[i].userId
                                        /\ rows'[i].createdAt = rows[i].createdAt
                                        /\ rows[i].is = "deleted" => rows'[i].is = "deleted"
            /\ rows'[i].is # "absent"]_apiVars
  BY StepWrites, OwnInvImplies DEF WrittenFor, OwnInv
<1>2. QED
  BY <1>1, OwnInit, OwnStep, PTL DEF ApiSpec, OwnersWrite

(***************************************************************************)
(* What was answered holds: a resource reported deleted is deleted, one    *)
(* shown or reported created is there and is the user's, for any number of *)
(* requests in progress and whatever calls of the database fail.           *)
(***************************************************************************)
THEOREM AnswersAreTrue == ApiSpec => []AnswersHold
  BY OwnInit, OwnStep, OwnInvImplies, PTL DEF ApiSpec

-----------------------------------------------------------------------------
(***************************************************************************)
(* Pages.                                                                  *)
(***************************************************************************)
LEMMA Division ==
    ASSUME NEW n \in Nat, NEW l \in Nat \ {0}
    PROVE  n \div l \in Nat /\ l * (n \div l) <= n /\ n < l * (n \div l) + l
  OBVIOUS

LEMMA Multiples ==
    ASSUME NEW a \in Int, NEW b \in Int, NEW l \in Nat, a < b
    PROVE  a * l + l <= b * l /\ a * l \in Int /\ b * l \in Int
  OBVIOUS

\* The element at k of a page is the one at (page - 1) * limit + k of the listing.
LEMMA PageElements ==
    ASSUME NEW S, NEW s \in Seq(S), NEW page \in Nat \ {0}, NEW limit \in Nat \ {0}
    PROVE  /\ \A k \in DOMAIN Page(s, page, limit) :
                 /\ k \in 1 .. limit /\ (page - 1) * limit + k \in 1 .. Len(s)
                 /\ Page(s, page, limit)[k] = s[(page - 1) * limit + k]
           /\ \A k \in 1 .. limit : (page - 1) * limit + k <= Len(s)
                                       => k \in DOMAIN Page(s, page, limit)
           /\ (page - 1) * limit >= Len(s) => Page(s, page, limit) = <<>>
<1> DEFINE before == (page - 1) * limit
           n == IF page * limit < Len(s) THEN page * limit ELSE Len(s)
<1>1. before \in Nat /\ page * limit = before + limit
  <2>1. page - 1 \in Nat /\ limit \in Nat
    OBVIOUS
  <2>2. before \in Nat
    BY <2>1
  <2>3. page * limit = before + limit
    OBVIOUS
  <2>4. QED
    BY <2>2, <2>3
<1> HIDE DEF before
<1>2. n = IF before + limit < Len(s) THEN before + limit ELSE Len(s)
  BY <1>1
<1> HIDE DEF n
<1>3. n \in Int /\ n <= Len(s) /\ n <= before + limit /\ Len(s) \in Nat
  BY <1>1, <1>2
<1>4. \A i \in before + 1 .. n : s[i] \in S
  BY <1>1, <1>3, ElementOfSeq
<1> DEFINE sub == SubSeq(s, before + 1, n)
<1>5. /\ sub \in Seq(S) /\ Len(sub) = IF before + 1 <= n THEN n - before ELSE 0
      /\ \A k \in 1 .. n - before : sub[k] = s[before + k]
  <2>1. before + 1 \in Int
    BY <1>1
  <2>2. /\ sub \in Seq(S)
        /\ Len(sub) = IF before + 1 <= n THEN n - (before + 1) + 1 ELSE 0
        /\ \A k \in 1 .. n - (before + 1) + 1 : sub[k] = s[(before + 1) + k - 1]
    BY <1>3, <1>4, <2>1, SubSeqProperties
  <2> HIDE DEF sub
  <2>3. QED
    BY <1>1, <1>3, <2>2
<1>6. Page(s, page, limit) = sub
  BY DEF Page, sub, before, n
<1>7. before >= Len(s) => sub = <<>>
  BY <1>1, <1>3, SubSeqEmpty
<1> HIDE DEF sub
<1>8. DOMAIN sub = 1 .. Len(sub)
  BY <1>5
<1>9. \A k \in DOMAIN sub : k \in 1 .. limit /\ before + k \in 1 .. Len(s) /\ sub[k] = s[before + k]
  BY <1>1, <1>3, <1>5, <1>8
<1>10. \A k \in 1 .. limit : before + k <= Len(s) => k \in DOMAIN sub
  BY <1>1, <1>2, <1>3, <1>5, <1>8
<1>11. QED
  BY <1>6, <1>7, <1>9, <1>10 DEF before

\* There are as many pages as the elements need.
LEMMA PageCount ==
    ASSUME NEW total \in Nat, NEW limit \in Nat \ {0}
    PROVE  /\ TotalPages(total, limit) \in Nat
           /\ \A p \in 1 .. TotalPages(total, limit) : (p - 1) * limit < total
           /\ TotalPages(total, limit) * limit >= total
<1> DEFINE pages == TotalPages(total, limit)
<1>1. total + limit - 1 \in Nat
  OBVIOUS
<1>2. pages \in Nat /\ limit * pages <= total + limit - 1 /\ total + limit - 1 < limit * pages + limit
  BY <1>1, Division DEF TotalPages
<1>3. limit * pages = pages * limit /\ pages * limit \in Int
  BY <1>2
<1> HIDE DEF pages
<1>4. ASSUME NEW p \in 1 .. pages PROVE (p - 1) * limit < total
  <2>1. p - 1 \in Int /\ p - 1 < pages
    BY <1>2
  <2>2. (p - 1) * limit + limit <= pages * limit /\ (p - 1) * limit \in Int
    BY <1>2, <2>1, Multiples
  <2>3. QED
    BY <1>2, <1>3, <2>2
<1>5. pages * limit >= total
  BY <1>2, <1>3
<1>6. QED
  BY <1>2, <1>4, <1>5 DEF pages

\* Every element is on the page of its number, and on no other.
LEMMA PageOf ==
    ASSUME NEW S, NEW s \in Seq(S), NEW limit \in Nat \ {0}, NEW j \in 1 .. Len(s),
           \A i, k \in 1 .. Len(s) : i # k => s[i] # s[k]
    PROVE  \E p \in 1 .. TotalPages(Len(s), limit) :
              /\ j - (p - 1) * limit \in DOMAIN Page(s, p, limit)
              /\ Page(s, p, limit)[j - (p - 1) * limit] = s[j]
              /\ \A o \in 1 .. TotalPages(Len(s), limit) : o # p =>
                    \A k \in DOMAIN Page(s, o, limit) : Page(s, o, limit)[k] # s[j]
<1> DEFINE d == (j - 1) \div limit
           pages == TotalPages(Len(s), limit)
<1>1. j - 1 \in Nat /\ Len(s) \in Nat
  OBVIOUS
<1>2. d \in Nat /\ limit * d <= j - 1 /\ j - 1 < limit * d + limit
  BY <1>1, Division
<1>3. pages \in Nat /\ pages * limit >= Len(s) /\ pages * limit \in Nat
  <2>1. pages \in Nat /\ pages * limit >= Len(s)
    BY <1>1, PageCount
  <2> HIDE DEF pages
  <2>2. QED
    BY <2>1
<1> HIDE DEF d, pages
<1>4. d * limit = limit * d /\ d * limit \in Nat
  BY <1>2
<1>5. d < pages
  <2>1. ASSUME pages <= d PROVE FALSE
    <3>1. pages * limit <= d * limit
      BY <1>2, <1>3, <2>1, Multiples
    <3>2. QED
      BY <1>1, <1>2, <1>3, <1>4, <3>1
  <2>2. QED
    BY <1>2, <1>3, <2>1
<1> DEFINE p == d + 1
           k0 == j - (p - 1) * limit
<1>6. p \in 1 .. pages /\ p \in Nat \ {0} /\ p - 1 = d
  BY <1>2, <1>3, <1>5
<1>7. k0 \in 1 .. limit /\ (p - 1) * limit + k0 = j
  BY <1>1, <1>2, <1>4, <1>6
<1> HIDE DEF p, k0
<1>8. k0 \in DOMAIN Page(s, p, limit)
  BY <1>6, <1>7, PageElements
<1>9. Page(s, p, limit)[k0] = s[j]
  BY <1>6, <1>7, <1>8, PageElements
<1>10. ASSUME NEW o \in 1 .. pages, o # p, NEW k \in DOMAIN Page(s, o, limit)
       PROVE  Page(s, o, limit)[k] # s[j]
  <2>1. o \in Nat \ {0}
    BY <1>3
  <2>2. /\ k \in 1 .. limit /\ (o - 1) * limit + k \in 1 .. Len(s)
        /\ Page(s, o, limit)[k] = s[(o - 1) * limit + k]
    BY <2>1, PageElements
  <2>3. (o - 1) * limit \in Int /\ (p - 1) * limit \in Int
    BY <1>6, <2>1
  <2>4. (o - 1) * limit + k # j
    <3>1. CASE o < p
      <4>1. (o - 1) * limit + limit <= (p - 1) * limit
        BY <1>6, <2>1, <3>1, Multiples
      <4>2. QED
        BY <1>1, <1>7, <2>2, <2>3, <4>1
    <3>2. CASE p < o
      <4>1. (p - 1) * limit + limit <= (o - 1) * limit
        BY <1>6, <2>1, <3>2, Multiples
      <4>2. QED
        BY <1>1, <1>7, <2>2, <2>3, <4>1
    <3>3. QED
      BY <1>6, <1>10, <2>1, <3>1, <3>2
  <2>5. QED
    BY <2>2, <2>4
<1>11. QED
  BY <1>6, <1>8, <1>9, <1>10 DEF k0, pages

LEMMA PagesCoverAlways == PagesCover
<1> SUFFICES ASSUME NEW r \in Slots, NEW s \in Listings(Matching(req[r])),
                    NEW limit \in 1 .. MaxLimit
             PROVE  LET pages == TotalPages(Len(s), limit) IN
                    /\ \A p \in 1 .. pages : Page(s, p, limit) # <<>>
                    /\ Page(s, pages + 1, limit) = <<>>
                    /\ \A j \in DOMAIN s : \E p \in 1 .. pages :
                          /\ j - (p - 1) * limit \in DOMAIN Page(s, p, limit)
                          /\ Page(s, p, limit)[j - (p - 1) * limit] = s[j]
                          /\ \A o \in 1 .. pages : o # p =>
                                \A k \in DOMAIN Page(s, o, limit) : Page(s, o, limit)[k] # s[j]
  BY DEF PagesCover
<1> DEFINE S == Matching(req[r])
           pages == TotalPages(Len(s), limit)
<1>1. Cardinality(S) \in Nat
  BY IdsAssumption, FS_Subset, FS_CardinalityType DEF Matching
<1>2. s \in [1 .. Cardinality(S) -> S]
  BY DEF Listings
<1>3. \A i, k \in DOMAIN s : i < k => s[i] # s[k]
  BY DEF Listings
<1> HIDE DEF S
<1>4. s \in Seq(S) /\ DOMAIN s = 1 .. Len(s) /\ Len(s) \in Nat
  BY <1>1, <1>2
<1>5. \A i, k \in 1 .. Len(s) : i # k => s[i] # s[k]
  BY <1>3, <1>4
<1>6. limit \in Nat \ {0}
  BY LimitsAssumption
<1>7. /\ pages \in Nat /\ pages * limit >= Len(s)
      /\ \A p \in 1 .. pages : (p - 1) * limit < Len(s)
  BY <1>4, <1>6, PageCount
<1>8. ASSUME NEW j \in DOMAIN s
      PROVE  \E p \in 1 .. pages :
                /\ j - (p - 1) * limit \in DOMAIN Page(s, p, limit)
                /\ Page(s, p, limit)[j - (p - 1) * limit] = s[j]
                /\ \A o \in 1 .. pages : o # p =>
                      \A k \in DOMAIN Page(s, o, limit) : Page(s, o, limit)[k] # s[j]
  <2>1. j \in 1 .. Len(s)
    BY <1>4
  <2>2. s \in Seq(S)
    BY <1>4
  <2> HIDE DEF pages
  <2>3. QED
    BY <1>5, <1>6, <2>1, <2>2, PageOf, Zenon DEF pages
<1> HIDE DEF pages
<1>9. ASSUME NEW p \in 1 .. pages PROVE Page(s, p, limit) # <<>>
  <2>1. p \in Nat \ {0} /\ (p - 1) * limit \in Int
    BY <1>6, <1>7
  <2>2. (p - 1) * limit + 1 <= Len(s) /\ 1 \in 1 .. limit
    BY <1>4, <1>6, <1>7, <2>1
  <2>3. 1 \in DOMAIN Page(s, p, limit)
    BY <1>4, <1>6, <2>1, <2>2, PageElements
  <2>4. QED
    BY <2>3
<1>10. Page(s, pages + 1, limit) = <<>>
  <2>1. pages + 1 \in Nat \ {0} /\ (pages + 1) - 1 = pages
    BY <1>7
  <2>2. ((pages + 1) - 1) * limit >= Len(s)
    BY <1>7, <2>1
  <2>3. QED
    BY <1>4, <1>6, <2>1, <2>2, PageElements
<1>11. QED
  BY <1>8, <1>9, <1>10 DEF pages

(***************************************************************************)
(* skip, take and totalPages fit together for every limit and every number *)
(* of resources: the pages show each resource that matches exactly once.   *)
(***************************************************************************)
THEOREM PagesAlwaysCover == ApiSpec => []PagesCover
  BY PagesCoverAlways, PTL

=============================================================================
