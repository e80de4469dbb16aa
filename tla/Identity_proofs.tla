--------------------------- MODULE Identity_proofs ---------------------------
(***************************************************************************)
(* Proofs about external identities and registration, for any people,      *)
(* addresses, providers and policies and any number of requests.           *)
(***************************************************************************)
EXTENDS Identity, TLAPS

(* How a request moves.  It goes on to a later step with what it has found *)
(* or inserted so far, or it is over.                                      *)
GoesOn(q, step, U, M) ==
    \E r \in RequestRecords :
        /\ req' = [req EXCEPT ![q] = r]
        /\ r.pc = step /\ r.user = U /\ r.made = M
        /\ r.claims = req[q].claims /\ r.asleep = req[q].asleep

IsOver(q) ==
    \E answer \in {"in", "out", "error"} :
        req' = [req EXCEPT ![q] = [Idle EXCEPT !.answer = answer]]

Begins(q, claims, step) ==
    \E r \in RequestRecords :
        /\ req' = [req EXCEPT ![q] = r]
        /\ r.pc = step /\ r.user = {} /\ r.made = {}
        /\ r.claims = claims /\ r.asleep \subseteq inactive

Tables == <<mail, external, inactive, links, unlinking>>

LEMMA IdleTyped ==
    \A answer \in {"in", "out", "error"} : [Idle EXCEPT !.answer = answer] \in RequestRecords
BY DEF Idle, RequestRecords, NoClaims, Claims, Steps

LEMMA PresentedTyped == Presented \subseteq Claims
BY DEF Presented, Claims

LEMMA GoesOnByStep ==
    ASSUME IdTypeOK, NEW q \in Requests, NEW step \in Steps, NEW U \in SUBSET Ids,
           NEW M \in SUBSET Ids,
           req' = [req EXCEPT ![q].pc = step, ![q].user = U, ![q].made = M]
    PROVE  GoesOn(q, step, U, M)
<1>. DEFINE r == [req[q] EXCEPT !.pc = step, !.user = U, !.made = M]
<1>1. req[q] \in RequestRecords
  BY DEF IdTypeOK
<1>2. /\ r \in RequestRecords
      /\ r.pc = step /\ r.user = U /\ r.made = M
      /\ r.claims = req[q].claims /\ r.asleep = req[q].asleep
  BY <1>1 DEF RequestRecords
<1>3. req' = [req EXCEPT ![q] = r]
  OBVIOUS
<1>. HIDE DEF r
<1>. QED
  BY <1>2, <1>3 DEF GoesOn

LEMMA GotoGoesOn ==
    ASSUME IdTypeOK, NEW q \in Requests, NEW step \in Steps, Goto(q, step)
    PROVE  GoesOn(q, step, req[q].user, req[q].made)
<1>1. req[q] \in RequestRecords /\ req \in [Requests -> RequestRecords]
  BY DEF IdTypeOK
<1>2. req[q].user \in SUBSET Ids /\ req[q].made \in SUBSET Ids
  BY <1>1 DEF RequestRecords
<1>3. [req[q] EXCEPT !.pc = step] =
        [req[q] EXCEPT !.pc = step, !.user = req[q].user, !.made = req[q].made]
  BY <1>1 DEF RequestRecords
<1>4. req' = [req EXCEPT ![q].pc = step, ![q].user = req[q].user, ![q].made = req[q].made]
  BY <1>3 DEF Goto
<1>. QED
  BY <1>2, <1>4, GoesOnByStep

-----------------------------------------------------------------------------
(* Every step that leaves the tables alone, by what its guards have found. *)
Found(q) ==
    \E s \in req[q].claims.subject : \E u \in Owners(s) :
        req[q].pc = "lookup" /\ MayEnter(u) /\ GoesOn(q, "touch", {u}, req[q].made)

NotFound(q) ==
    /\ req[q].pc = "lookup"
    /\ GoesOn(q, "email", req[q].user, req[q].made)

Registers(q) ==
    /\ req[q].pc = "email"
    /\ req[q].claims.mail # {}
    /\ GoesOn(q, "person", req[q].user, req[q].made)

Matches(q) ==
    /\ req[q].pc = "email"
    /\ Vouched(q)
    /\ \E u \in Named(q) : MayEnter(u) /\ GoesOn(q, "conflict", {u}, req[q].made)

Clear(q) ==
    /\ req[q].pc = "conflict"
    /\ ~Conflicting(q)
    /\ GoesOn(q, "link", req[q].user, req[q].made)

Inserts(q, before, after) ==
    /\ req[q].pc = before
    /\ ~MailPending(q)
    /\ ~MailTaken(q)
    /\ \E u \in Ids \ (People \cup Made) : GoesOn(q, after, req[q].user, {u})

Links(q) ==
    /\ req[q].pc \in {"link", "personlink"}
    /\ ~SubjectPending(q)
    /\ ~SubjectTaken(q)
    /\ GoesOn(q, "return", req[q].user, req[q].made)

Moves(q) ==
    \/ IsOver(q)
    \/ \E claims \in Presented : req[q].pc = "idle" /\ Begins(q, claims, "lookup")
    \/ \E e \in Emails :
         req[q].pc = "idle" /\ Begins(q, [NoClaims EXCEPT !.mail = {e}], "create")
    \/ Found(q) \/ NotFound(q) \/ Registers(q) \/ Matches(q) \/ Clear(q)
    \/ Inserts(q, "person", "personlink") \/ Inserts(q, "create", "created")
    \/ Links(q)

LEMMA AnswerIsOver ==
    ASSUME NEW q, Refuse(q) \/ Crash(q) \/ Answer(q, "in") PROVE IsOver(q)
BY DEF Refuse, Crash, Answer, IsOver

LEMMA CallbackMoves ==
    ASSUME IdTypeOK, NEW q \in Requests, NEW claims \in Presented, NEW policy \in Policies,
           Callback(q, claims, policy)
    PROVE  Moves(q) /\ UNCHANGED Tables
<1>1. CASE Crash(q)
  BY <1>1, AnswerIsOver DEF Callback, Moves, Tables
<1>2. CASE CallerAtomic /\ ~Crash(q)
  <2>. DEFINE r == [Idle EXCEPT !.pc = "lookup", !.claims = claims,
                                !.signup = policy.signup, !.asleep = inactive]
  <2>1. req[q].pc = "idle" /\ req' = [req EXCEPT ![q] = r] /\ UNCHANGED Tables
    BY <1>2 DEF Callback, Tables
  <2>2. claims \in Claims /\ policy.signup \in BOOLEAN /\ inactive \in SUBSET Ids
    BY PresentedTyped, PolicyAssumption DEF IdTypeOK, People
  <2>3. /\ r \in RequestRecords
        /\ r.pc = "lookup" /\ r.user = {} /\ r.made = {}
        /\ r.claims = claims /\ r.asleep \subseteq inactive
    BY <2>2 DEF Idle, RequestRecords, Steps
  <2>. HIDE DEF r
  <2>4. Begins(q, claims, "lookup")
    BY <2>1, <2>3 DEF Begins
  <2>. QED
    BY <2>1, <2>4 DEF Moves
<1>. QED
  BY <1>1, <1>2 DEF Callback

LEMMA RegisterMoves ==
    ASSUME IdTypeOK, NEW q \in Requests, NEW e \in Emails, Register(q, e)
    PROVE  Moves(q) /\ UNCHANGED Tables
<1>. DEFINE c == [NoClaims EXCEPT !.mail = {e}]
            r == [Idle EXCEPT !.pc = "create", !.claims = c]
<1>1. req[q].pc = "idle" /\ req' = [req EXCEPT ![q] = r] /\ UNCHANGED Tables
  BY DEF Register, Tables
<1>2. /\ r \in RequestRecords
      /\ r.pc = "create" /\ r.user = {} /\ r.made = {}
      /\ r.claims = c /\ r.asleep \subseteq inactive
  BY DEF Idle, NoClaims, RequestRecords, Claims, Steps
<1>. HIDE DEF r
<1>3. Begins(q, c, "create")
  BY <1>1, <1>2 DEF Begins
<1>. QED
  BY <1>1, <1>3 DEF Moves

LEMMA LookupMoves ==
    ASSUME IdTypeOK, NEW q \in Requests, Lookup(q) PROVE Moves(q)
<1>0. req[q].pc = "lookup" /\ req[q].made \in SUBSET Ids /\ req[q] \in RequestRecords
  BY DEF Lookup, IdTypeOK, RequestRecords
<1>1. CASE Goto(q, "email")
  BY <1>0, <1>1, GotoGoesOn DEF NotFound, Moves, Steps
<1>2. CASE Refuse(q)
  BY <1>2, AnswerIsOver DEF Moves
<1>3. ASSUME NEW s \in req[q].claims.subject, NEW u \in Owners(s), MayEnter(u),
             req' = [req EXCEPT ![q].pc = "touch", ![q].user = {u}]
      PROVE  Moves(q)
  <2>1. {u} \in SUBSET Ids /\ "touch" \in Steps
    BY DEF Owners, Steps
  <2>2. [req[q] EXCEPT !.pc = "touch", !.user = {u}] =
          [req[q] EXCEPT !.pc = "touch", !.user = {u}, !.made = req[q].made]
    BY <1>0 DEF RequestRecords
  <2>3. req' = [req EXCEPT ![q].pc = "touch", ![q].user = {u}, ![q].made = req[q].made]
    BY <1>3, <2>2
  <2>4. GoesOn(q, "touch", {u}, req[q].made)
    BY <1>0, <2>1, <2>3, GoesOnByStep
  <2>. QED
    BY <1>0, <1>3, <2>4 DEF Found, Moves
<1>. QED
  BY <1>1, <1>2, <1>3 DEF Lookup

LEMMA ByEmailMoves ==
    ASSUME IdTypeOK, NEW q \in Requests, ByEmail(q) PROVE Moves(q)
<1>0. req[q].pc = "email" /\ req[q].made \in SUBSET Ids /\ req[q] \in RequestRecords
  BY DEF ByEmail, IdTypeOK, RequestRecords
<1>1. CASE Refuse(q) \/ Crash(q)
  BY <1>1, AnswerIsOver DEF Moves
<1>2. CASE SelfRegister(q) /\ req[q].claims.mail # {} /\ Goto(q, "person")
  BY <1>0, <1>2, GotoGoesOn DEF Registers, Moves, Steps
<1>3. ASSUME Vouched(q), NEW u \in Named(q), MayEnter(u),
             req' = [req EXCEPT ![q].pc = "conflict", ![q].user = {u}]
      PROVE  Moves(q)
  <2>1. {u} \in SUBSET Ids /\ "conflict" \in Steps
    BY DEF Named, People, Steps
  <2>2. [req[q] EXCEPT !.pc = "conflict", !.user = {u}] =
          [req[q] EXCEPT !.pc = "conflict", !.user = {u}, !.made = req[q].made]
    BY <1>0 DEF RequestRecords
  <2>3. req' = [req EXCEPT ![q].pc = "conflict", ![q].user = {u}, ![q].made = req[q].made]
    BY <1>3, <2>2
  <2>4. GoesOn(q, "conflict", {u}, req[q].made)
    BY <1>0, <2>1, <2>3, GoesOnByStep
  <2>. QED
    BY <1>0, <1>3, <2>4 DEF Matches, Moves
<1>. QED
  BY <1>1, <1>2, <1>3 DEF ByEmail, SelfRegister

LEMMA InsertPersonMoves ==
    ASSUME IdTypeOK, NEW q \in Requests, NEW before, NEW after \in Steps,
           InsertPerson(q, before, after)
    PROVE  IsOver(q) \/ Inserts(q, before, after)
<1>0. req[q].user \in SUBSET Ids /\ req[q] \in RequestRecords
  BY DEF IdTypeOK, RequestRecords
<1>1. CASE Refuse(q)
  BY <1>1, AnswerIsOver
<1>2. ASSUME ~MailTaken(q), NEW u \in Ids \ (People \cup Made),
             req' = [req EXCEPT ![q].pc = after, ![q].made = {u}]
      PROVE  Inserts(q, before, after)
  <2>1. [req[q] EXCEPT !.pc = after, !.made = {u}] =
          [req[q] EXCEPT !.pc = after, !.user = req[q].user, !.made = {u}]
    BY <1>0 DEF RequestRecords
  <2>2. req' = [req EXCEPT ![q].pc = after, ![q].user = req[q].user, ![q].made = {u}]
    BY <1>2, <2>1
  <2>3. {u} \in SUBSET Ids
    OBVIOUS
  <2>4. GoesOn(q, after, req[q].user, {u})
    BY <1>0, <2>2, <2>3, GoesOnByStep
  <2>. QED
    BY <1>2, <2>4 DEF InsertPerson, Inserts
<1>. QED
  BY <1>1, <1>2 DEF InsertPerson

LEMMA HowRequestsMove ==
    ASSUME IdTypeOK, NEW q \in Requests,
           \/ Arrive(q) \/ RequestFails(q)
           \/ Work(q) /\ ~Return(q) /\ ~RegisterCommit(q)
    PROVE  Moves(q) /\ UNCHANGED Tables
<1>. DEFINE Goal == Moves(q) /\ UNCHANGED Tables
<1>. SUFFICES Goal
  OBVIOUS
<1>1. CASE Arrive(q)
  BY <1>1, CallbackMoves, RegisterMoves DEF Arrive
<1>2. CASE RequestFails(q) \/ Touch(q)
  BY <1>2, AnswerIsOver DEF RequestFails, Touch, Moves, Tables
<1>3. CASE Lookup(q) \/ ByEmail(q)
  BY <1>3, LookupMoves, ByEmailMoves DEF Lookup, ByEmail, Tables
<1>4. CASE CheckConflict(q)
  BY <1>4, GotoGoesOn, AnswerIsOver DEF CheckConflict, Clear, Moves, Tables, Steps
<1>5. CASE NewPerson(q) \/ RegisterInsert(q)
  <2>1. "personlink" \in Steps /\ "created" \in Steps
    BY DEF Steps
  <2>2. Moves(q)
    BY <1>5, <2>1, InsertPersonMoves DEF NewPerson, RegisterInsert, Moves
  <2>. QED
    BY <1>5, <2>2 DEF NewPerson, RegisterInsert, InsertPerson, Tables
<1>6. CASE InsertLink(q, "link") \/ InsertLink(q, "personlink")
  BY <1>6, GotoGoesOn, AnswerIsOver DEF InsertLink, Links, Moves, Tables, Steps
<1>. HIDE DEF Goal
<1>. QED
  BY <1>1, <1>2, <1>3, <1>4, <1>5, <1>6, Zenon DEF Work

-----------------------------------------------------------------------------
LEMMA TypedInit == Init => IdTypeOK
<1>. SUFFICES ASSUME Init PROVE IdTypeOK
  OBVIOUS
<1>1. Idle \in RequestRecords
  BY DEF Idle, RequestRecords, NoClaims, Claims, Steps
<1>. HIDE DEF Idle, RequestRecords
<1>. QED
  BY <1>1 DEF Init, IdTypeOK

LEMMA MovesTyped ==
    ASSUME IdTypeOK, NEW q \in Requests, Moves(q)
    PROVE  req' \in [Requests -> RequestRecords]
<1>. DEFINE Some(r) == r \in RequestRecords /\ req' = [req EXCEPT ![q] = r]
<1>1. \E r : Some(r)
  <2>1. CASE IsOver(q)
    BY <2>1, IdleTyped DEF IsOver
  <2>2. ASSUME NEW claims, NEW step, Begins(q, claims, step) PROVE \E r : Some(r)
    BY <2>2 DEF Begins
  <2>3. ASSUME NEW step, NEW U, NEW M, GoesOn(q, step, U, M) PROVE \E r : Some(r)
    BY <2>3 DEF GoesOn
  <2>. HIDE DEF Some
  <2>. QED
    BY <2>1, <2>2, <2>3, Zenon
       DEF Moves, Found, NotFound, Registers, Matches, Clear, Inserts, Links
<1>. QED
  BY <1>1 DEF IdTypeOK

\* The two steps that commit a person, and what they do to the table of mails.
LEMMA MailTyped ==
    ASSUME IdTypeOK, NEW q \in Requests
    PROVE  /\ MailWith(q) \in [Ids -> SUBSET Emails]
           /\ req[q].made \in SUBSET Ids /\ req[q].user \in SUBSET Ids
           /\ req[q].claims.subject \in SUBSET Subjects
<1>1. req[q] \in RequestRecords /\ mail \in [Ids -> SUBSET Emails]
  BY DEF IdTypeOK
<1>2. req[q].claims \in Claims /\ req[q].made \in SUBSET Ids /\ req[q].user \in SUBSET Ids
  BY <1>1 DEF RequestRecords
<1>3. req[q].claims.mail \in SUBSET Emails /\ req[q].claims.subject \in SUBSET Subjects
  BY <1>2 DEF Claims
<1>. QED
  BY <1>1, <1>2, <1>3 DEF MailWith

(* What each request knows, by how far it has come.  A row that a request  *)
(* found is a person's, a row that it inserted is nobody's yet.            *)
Alone(S) == \E x \in Ids : S = {x}

ShapeOK(q) ==
    /\ req[q].claims.mail = {} \/ \E e \in Emails : req[q].claims.mail = {e}
    /\ req[q].pc \in {"lookup", "touch", "email", "conflict", "link", "person",
                      "personlink", "return"} =>
         \E s \in Subjects : req[q].claims.subject = {s}
    /\ req[q].pc \in {"idle", "lookup", "email", "person", "create"} =>
         req[q].user = {} /\ req[q].made = {}
    /\ req[q].pc \in {"touch", "conflict", "link"} =>
         req[q].made = {} /\ Alone(req[q].user)
    /\ req[q].pc \in {"personlink", "created"} =>
         req[q].user = {} /\ Alone(req[q].made)
    /\ req[q].pc = "return" =>
         \/ req[q].made = {} /\ Alone(req[q].user)
         \/ req[q].user = {} /\ Alone(req[q].made)
    /\ req[q].pc \in {"person", "create"} \/ req[q].made # {} => req[q].claims.mail # {}
    /\ req[q].user \subseteq People
    /\ req[q].made \cap People = {}
    /\ req[q].made # {} => \A u \in Ids : mail[u] # req[q].claims.mail
    /\ req[q].pc = "return" => ~SubjectTaken(q)

ShapeInv == \A q \in Requests : ShapeOK(q)

(* What the waiting at the unique indexes gives: rows that two requests    *)
(* have inserted and not committed are different in every respect.         *)
ApartOK(p, q) ==
    /\ req[p].made \cap req[q].made = {}
    /\ req[p].made # {} /\ req[q].made # {} => req[p].claims.mail # req[q].claims.mail
    /\ req[p].pc = "return" /\ req[q].pc = "return" =>
         req[p].claims.subject # req[q].claims.subject

ApartInv == \A p, q \in Requests : p # q => ApartOK(p, q)

\* One address per person, one person per subject.
TablesInv ==
    /\ \A u \in People : \E e \in Emails : mail[u] = {e}
    /\ \A k, l \in links : k.subject = l.subject => k = l

IndexInv == ShapeInv /\ ApartInv /\ TablesInv

LEMMA MovesOne ==
    ASSUME IdTypeOK, NEW q \in Requests, Moves(q)
    PROVE  \A p \in Requests \ {q} : req'[p] = req[p]
<1>. DEFINE Some(r) == req' = [req EXCEPT ![q] = r]
<1>1. \E r : Some(r)
  <2>1. CASE IsOver(q)
    BY <2>1 DEF IsOver
  <2>2. ASSUME NEW claims, NEW step, Begins(q, claims, step) PROVE \E r : Some(r)
    BY <2>2 DEF Begins
  <2>3. ASSUME NEW step, NEW U, NEW M, GoesOn(q, step, U, M) PROVE \E r : Some(r)
    BY <2>3 DEF GoesOn
  <2>. HIDE DEF Some
  <2>. QED
    BY <2>1, <2>2, <2>3, Zenon
       DEF Moves, Found, NotFound, Registers, Matches, Clear, Inserts, Links
<1>. QED
  BY <1>1 DEF IdTypeOK

LEMMA OverOK == ASSUME IdTypeOK, NEW q \in Requests, IsOver(q) PROVE
    /\ req'[q].pc = "idle" /\ req'[q].user = {} /\ req'[q].made = {}
    /\ req'[q].claims = NoClaims /\ req'[q].asleep = {}
BY DEF IsOver, IdTypeOK, Idle

LEMMA BeginsOK ==
    ASSUME IdTypeOK, NEW q \in Requests, NEW claims, NEW step, Begins(q, claims, step)
    PROVE  /\ req'[q].pc = step /\ req'[q].user = {} /\ req'[q].made = {}
           /\ req'[q].claims = claims /\ req'[q].asleep \subseteq inactive
BY DEF Begins, IdTypeOK

LEMMA GoesOnOK ==
    ASSUME IdTypeOK, NEW q \in Requests, NEW step, NEW U, NEW M, GoesOn(q, step, U, M)
    PROVE  /\ req'[q].pc = step /\ req'[q].user = U /\ req'[q].made = M
           /\ req'[q].claims = req[q].claims /\ req'[q].asleep = req[q].asleep
BY DEF GoesOn, IdTypeOK

LEMMA ShapeMoves ==
    ASSUME IdTypeOK, ShapeInv, NEW q \in Requests, Moves(q), UNCHANGED Tables
    PROVE  ShapeOK(q)'
<1>. DEFINE Goal == ShapeOK(q)'
<1>. SUFFICES Goal
  OBVIOUS
<1>0. ShapeOK(q)
  BY DEF ShapeInv
<1>t. People' = People /\ mail' = mail /\ links' = links /\ \A s : Owners(s)' = Owners(s)
  BY DEF Tables, People, Owners
<1>1. CASE IsOver(q)
  BY <1>1, OverOK DEF ShapeOK, NoClaims
<1>2. ASSUME NEW claims \in Presented, Begins(q, claims, "lookup") PROVE Goal
  <2>1. /\ claims.mail = {} \/ \E e \in Emails : claims.mail = {e}
        /\ \E s \in Subjects : claims.subject = {s}
    BY DEF Presented
  <2>2. /\ req'[q].pc = "lookup" /\ req'[q].user = {} /\ req'[q].made = {}
        /\ req'[q].claims = claims
    BY <1>2, BeginsOK
  <2>. QED
    BY <2>1, <2>2 DEF ShapeOK
<1>3. ASSUME NEW e \in Emails, Begins(q, [NoClaims EXCEPT !.mail = {e}], "create") PROVE Goal
  <2>1. [NoClaims EXCEPT !.mail = {e}].mail = {e}
    BY DEF NoClaims
  <2>2. /\ req'[q].pc = "create" /\ req'[q].user = {} /\ req'[q].made = {}
        /\ req'[q].claims = [NoClaims EXCEPT !.mail = {e}]
    BY <1>3, BeginsOK
  <2>3. req'[q].claims.mail = {e}
    BY <2>1, <2>2
  <2>. QED
    BY <2>2, <2>3 DEF ShapeOK
<1>4. CASE Found(q)
  <2>. PICK s \in req[q].claims.subject : \E u \in Owners(s) :
              req[q].pc = "lookup" /\ GoesOn(q, "touch", {u}, req[q].made)
    BY <1>4 DEF Found
  <2>. PICK u \in Owners(s) : req[q].pc = "lookup" /\ GoesOn(q, "touch", {u}, req[q].made)
    OBVIOUS
  <2>1. u \in People /\ u \in Ids
    BY DEF Owners, Link, IdTypeOK, People
  <2>2. /\ req'[q].pc = "touch" /\ req'[q].user = {u} /\ req'[q].made = req[q].made
        /\ req'[q].claims = req[q].claims
    BY GoesOnOK
  <2>. QED
    BY <1>0, <1>t, <2>1, <2>2 DEF ShapeOK, Alone
<1>5. CASE NotFound(q)
  <2>1. /\ req[q].pc = "lookup" /\ req'[q].pc = "email" /\ req'[q].user = req[q].user
        /\ req'[q].made = req[q].made /\ req'[q].claims = req[q].claims
    BY <1>5, GoesOnOK DEF NotFound
  <2>. QED
    BY <1>0, <1>t, <2>1 DEF ShapeOK
<1>6. CASE Registers(q)
  <2>1. /\ req[q].pc = "email" /\ req[q].claims.mail # {}
        /\ req'[q].pc = "person" /\ req'[q].user = req[q].user
        /\ req'[q].made = req[q].made /\ req'[q].claims = req[q].claims
    BY <1>6, GoesOnOK DEF Registers
  <2>. QED
    BY <1>0, <1>t, <2>1 DEF ShapeOK
<1>7. CASE Matches(q)
  <2>. PICK u \in Named(q) : req[q].pc = "email" /\ GoesOn(q, "conflict", {u}, req[q].made)
    BY <1>7 DEF Matches
  <2>1. u \in People /\ u \in Ids
    BY DEF Named, People
  <2>2. /\ req'[q].pc = "conflict" /\ req'[q].user = {u} /\ req'[q].made = req[q].made
        /\ req'[q].claims = req[q].claims
    BY GoesOnOK
  <2>. QED
    BY <1>0, <1>t, <2>1, <2>2 DEF ShapeOK, Alone
<1>8. CASE Clear(q)
  <2>1. /\ req[q].pc = "conflict" /\ req'[q].pc = "link" /\ req'[q].user = req[q].user
        /\ req'[q].made = req[q].made /\ req'[q].claims = req[q].claims
    BY <1>8, GoesOnOK DEF Clear
  <2>. QED
    BY <1>0, <1>t, <2>1 DEF ShapeOK
<1>9. ASSUME NEW before \in {"person", "create"}, NEW after,
             after = IF before = "person" THEN "personlink" ELSE "created",
             Inserts(q, before, after)
      PROVE  Goal
  <2>. PICK u \in Ids \ (People \cup Made) : GoesOn(q, after, req[q].user, {u})
    BY <1>9 DEF Inserts
  <2>1. /\ req[q].pc = before /\ req'[q].pc = after /\ req'[q].user = req[q].user
        /\ req'[q].made = {u} /\ req'[q].claims = req[q].claims
    BY <1>9, GoesOnOK DEF Inserts
  <2>2. \A w \in Ids : mail[w] # req[q].claims.mail
    BY <1>0, <1>9, <2>1 DEF Inserts, MailTaken, Named, People, ShapeOK
  <2>. QED
    BY <1>0, <1>9, <1>t, <2>1, <2>2 DEF ShapeOK, Alone
<1>10. CASE Links(q)
  <2>1. /\ req[q].pc \in {"link", "personlink"} /\ req'[q].pc = "return"
        /\ req'[q].user = req[q].user
        /\ req'[q].made = req[q].made /\ req'[q].claims = req[q].claims
        /\ ~SubjectTaken(q)
    BY <1>10, GoesOnOK DEF Links
  <2>2. ~SubjectTaken(q)'
    BY <1>t, <2>1 DEF SubjectTaken
  <2>. QED
    BY <1>0, <1>t, <2>1, <2>2 DEF ShapeOK
<1>11. (Inserts(q, "person", "personlink") \/ Inserts(q, "create", "created")) => Goal
  BY <1>9
<1>. HIDE DEF Goal
<1>. QED
  BY <1>1, <1>2, <1>3, <1>4, <1>5, <1>6, <1>7, <1>8, <1>10, <1>11, Zenon DEF Moves

\* A request that moves inserts at most one row, and waits for equal ones.
LEMMA ApartMoves ==
    ASSUME IdTypeOK, IndexInv, NEW q \in Requests, Moves(q), UNCHANGED Tables,
           NEW p \in Requests \ {q}
    PROVE  ApartOK(p, q)' /\ ApartOK(q, p)'
<1>. DEFINE Goal == ApartOK(p, q)' /\ ApartOK(q, p)'
<1>. SUFFICES Goal
  OBVIOUS
<1>0. ShapeOK(q) /\ ShapeOK(p) /\ ApartOK(p, q) /\ req'[p] = req[p]
  BY MovesOne DEF IndexInv, ShapeInv, ApartInv
<1>. HIDE DEF IndexInv
<1>1. CASE req'[q].made = {} /\ req'[q].pc # "return"
  BY <1>0, <1>1 DEF ApartOK
<1>2. ASSUME NEW before, NEW after, after \in {"personlink", "created"}, Inserts(q, before, after)
      PROVE  Goal
  <2>. PICK u \in Ids \ (People \cup Made) : GoesOn(q, after, req[q].user, {u})
    BY <1>2 DEF Inserts
  <2>1. req'[q].pc = after /\ req'[q].made = {u} /\ req'[q].claims = req[q].claims
    BY GoesOnOK
  <2>2. u \notin req[p].made
    BY DEF Made
  <2>3. req[p].made = {} \/ req[p].claims.mail # req[q].claims.mail
    BY <1>2 DEF Inserts, MailPending
  <2>. QED
    BY <1>0, <1>2, <2>1, <2>2, <2>3 DEF ApartOK
<1>3. CASE Links(q)
  <2>1. /\ req'[q].pc = "return" /\ req'[q].made = req[q].made
        /\ req'[q].claims = req[q].claims /\ ~SubjectPending(q)
    BY <1>3, GoesOnOK DEF Links
  <2>2. req[p].pc = "return" => req[p].claims.subject # req[q].claims.subject
    BY <2>1 DEF SubjectPending
  <2>. QED
    BY <1>0, <2>1, <2>2 DEF ApartOK
<1>4. CASE IsOver(q)
  BY <1>1, <1>4, OverOK
<1>5. ASSUME NEW claims, NEW step \in {"lookup", "create"}, Begins(q, claims, step) PROVE Goal
  BY <1>1, <1>5, BeginsOK
<1>6. CASE Found(q) \/ NotFound(q) \/ Registers(q) \/ Matches(q) \/ Clear(q)
  <2>1. req[q].pc \in {"lookup", "email", "conflict"}
    BY <1>6 DEF Found, NotFound, Registers, Matches, Clear
  <2>2. req[q].made = {}
    BY <1>0, <2>1 DEF ShapeOK
  <2>3. ASSUME NEW step \in {"touch", "email", "person", "conflict", "link"}, NEW U,
               GoesOn(q, step, U, req[q].made)
        PROVE  Goal
    BY <1>1, <2>2, <2>3, GoesOnOK
  <2>. HIDE DEF Goal
  <2>4. /\ "touch" \in {"touch", "email", "person", "conflict", "link"}
        /\ "email" \in {"touch", "email", "person", "conflict", "link"}
        /\ "person" \in {"touch", "email", "person", "conflict", "link"}
        /\ "conflict" \in {"touch", "email", "person", "conflict", "link"}
        /\ "link" \in {"touch", "email", "person", "conflict", "link"}
    OBVIOUS
  <2>. QED
    BY <1>6, <2>3, <2>4, Zenon DEF Found, NotFound, Registers, Matches, Clear
<1>7. /\ \A claims \in Presented : Begins(q, claims, "lookup") => Goal
      /\ \A claims : Begins(q, claims, "create") => Goal
  BY <1>5
<1>8. (Inserts(q, "person", "personlink") \/ Inserts(q, "create", "created")) => Goal
  BY <1>2
<1>. HIDE DEF Goal
<1>. QED
  BY <1>3, <1>4, <1>6, <1>7, <1>8, Zenon DEF Moves

-----------------------------------------------------------------------------
(* The steps that change a table: two commit, three are from outside.      *)
Commits(q) ==
    /\ Return(q) \/ RegisterCommit(q)
    /\ mail' = MailWith(q)
    /\ unlinking' = unlinking
    /\ IsOver(q)

LEMMA CommitStep ==
    ASSUME NEW q \in Requests, Return(q) \/ RegisterCommit(q) PROVE Commits(q)
BY AnswerIsOver DEF Return, RegisterCommit, Commits

LEMMA HowStepsGo ==
    ASSUME IdTypeOK, [Next]_idVars
    PROVE  \/ \E q \in Requests : Moves(q) /\ UNCHANGED Tables
           \/ \E q \in Requests : Commits(q)
           \/ \E u \in Ids : SwitchOff(u) \/ SwitchOn(u)
           \/ \E x \in Unlinkers : Unlink(x)
           \/ UNCHANGED idVars
BY HowRequestsMove, CommitStep DEF Next, Around

\* When a request commits: who is a person, and who owns what, afterwards.
LEMMA CommitFacts ==
    ASSUME IdTypeOK, ShapeInv, NEW q \in Requests, Commits(q)
    PROVE  /\ req[q].pc \in {"return", "created"}
           /\ People' = People \cup req[q].made
           /\ \A u \in Ids : mail'[u] = IF u \in req[q].made THEN req[q].claims.mail ELSE mail[u]
           /\ req[q].made # {} => req[q].claims.mail # {}
           /\ links' = IF req[q].pc = "return"
                       THEN links \cup {Link(s, u) : s \in req[q].claims.subject,
                                                     u \in req[q].user \cup req[q].made}
                       ELSE links
           /\ external' = IF req[q].pc = "return" THEN external \cup req[q].made ELSE external
           /\ inactive \subseteq inactive' /\ inactive' \subseteq inactive \cup req[q].made
<1>1. ShapeOK(q) /\ req[q].made \in SUBSET Ids
  BY MailTyped DEF ShapeInv
<1>2. \A u \in Ids : mail'[u] = IF u \in req[q].made THEN req[q].claims.mail ELSE mail[u]
  BY DEF Commits, MailWith
<1>3. req[q].made # {} => req[q].claims.mail # {}
  BY <1>1 DEF ShapeOK
<1>4. People' = People \cup req[q].made
  BY <1>1, <1>2, <1>3 DEF People
<1>. QED
  BY <1>2, <1>3, <1>4 DEF Commits, Return, RegisterCommit

LEMMA CommitTyped ==
    ASSUME IdTypeOK, IndexInv, NEW q \in Requests, Commits(q) PROVE IdTypeOK'
<1>1. mail' \in [Ids -> SUBSET Emails]
  BY MailTyped DEF Commits
<1>2. req' \in [Requests -> RequestRecords]
  <2>1. Moves(q)
    BY DEF Commits, Moves
  <2>. QED
    BY <2>1, MovesTyped
<1>3. req[q].user \subseteq People /\ req[q].claims.subject \subseteq Subjects
  BY MailTyped DEF IndexInv, ShapeInv, ShapeOK
<1>4. links' \subseteq [subject : Subjects, user : People']
  <2>1. {Link(s, u) : s \in req[q].claims.subject, u \in req[q].user \cup req[q].made}
          \subseteq [subject : Subjects, user : People']
    BY <1>3, CommitFacts DEF Link, IndexInv
  <2>2. links \subseteq [subject : Subjects, user : People']
    BY CommitFacts DEF IdTypeOK, IndexInv
  <2>. QED
    BY <2>1, <2>2, CommitFacts DEF IndexInv
<1>5. external' \subseteq People' /\ inactive' \subseteq People'
  BY CommitFacts DEF IdTypeOK, IndexInv
<1>6. unlinking' \in [Unlinkers -> SUBSET [subject : Subjects, user : People']]
  <2>1. unlinking' = unlinking /\ People \subseteq People'
    BY CommitFacts DEF Commits, IndexInv
  <2>2. [subject : Subjects, user : People] \subseteq [subject : Subjects, user : People']
    BY <2>1
  <2>. QED
    BY <2>1, <2>2 DEF IdTypeOK
<1>. QED
  BY <1>1, <1>2, <1>4, <1>5, <1>6 DEF IdTypeOK

LEMMA TypedStep == IdTypeOK /\ IndexInv /\ [Next]_idVars => IdTypeOK'
<1>. SUFFICES ASSUME IdTypeOK, IndexInv, [Next]_idVars PROVE IdTypeOK'
  OBVIOUS
<1>1. ASSUME NEW q \in Requests, Moves(q), UNCHANGED Tables PROVE IdTypeOK'
  BY <1>1, MovesTyped DEF IdTypeOK, Tables, People
<1>2. ASSUME NEW u \in Ids, SwitchOff(u) PROVE IdTypeOK'
  BY <1>2 DEF SwitchOff, IdTypeOK, People
<1>3. ASSUME NEW u \in Ids, SwitchOn(u) PROVE IdTypeOK'
  <2>1. ASSUME NEW q \in Requests PROVE [req[q] EXCEPT !.asleep = @ \ {u}] \in RequestRecords
    <3>1. req[q] \in RequestRecords
      BY DEF IdTypeOK
    <3>. QED
      BY <3>1 DEF RequestRecords
  <2>2. req' \in [Requests -> RequestRecords]
    BY <1>3, <2>1 DEF SwitchOn
  <2>. QED
    BY <1>3, <2>2 DEF SwitchOn, IdTypeOK, People
<1>4. ASSUME NEW x \in Unlinkers, Unlink(x) PROVE IdTypeOK'
  <2>1. unlinking' \in [Unlinkers -> SUBSET [subject : Subjects, user : People]]
    BY <1>4 DEF Unlink, UnlinkCheck, UnlinkDelete, UnlinkFails, IdTypeOK
  <2>2. links' \subseteq links /\ UNCHANGED <<mail, external, inactive, req>>
    BY <1>4 DEF Unlink, UnlinkCheck, UnlinkDelete, UnlinkFails
  <2>. QED
    BY <2>1, <2>2 DEF IdTypeOK, People
<1>5. CASE UNCHANGED idVars
  BY <1>5 DEF idVars, IdTypeOK, People
<1>. QED
  BY <1>1, <1>2, <1>3, <1>4, <1>5, CommitTyped, HowStepsGo

\* A step that leaves the requests' fields, mails and links as they are, or
\* takes a link away, leaves what each request knows true.
Same(q) ==
    /\ req'[q].pc = req[q].pc /\ req'[q].user = req[q].user /\ req'[q].made = req[q].made
    /\ req'[q].claims = req[q].claims

LEMMA SameOK ==
    ASSUME NEW q \in Requests, ShapeOK(q), Same(q), mail' = mail, links' \subseteq links
    PROVE  ShapeOK(q)'
<1>1. People' = People
  BY DEF People
<1>2. ~SubjectTaken(q) => ~SubjectTaken(q)'
  BY DEF SubjectTaken, Owners, Same
<1>. QED
  BY <1>1, <1>2 DEF ShapeOK, Same

LEMMA SameApart ==
    ASSUME NEW p \in Requests, NEW q \in Requests, ApartOK(p, q), Same(p), Same(q)
    PROVE  ApartOK(p, q)'
BY DEF ApartOK, Same

LEMMA AroundSame ==
    ASSUME IdTypeOK, NEW q \in Requests,
           \/ \E u \in Ids : SwitchOff(u) \/ SwitchOn(u)
           \/ \E x \in Unlinkers : Unlink(x)
           \/ UNCHANGED idVars
    PROVE  Same(q) /\ mail' = mail /\ links' \subseteq links
<1>1. req[q] \in RequestRecords
  BY DEF IdTypeOK
<1>2. ASSUME NEW u \in Ids, SwitchOn(u) PROVE Same(q)
  <2>1. req'[q] = [req[q] EXCEPT !.asleep = req[q].asleep \ {u}]
    BY <1>2 DEF SwitchOn
  <2>. QED
    BY <1>1, <2>1 DEF RequestRecords, Same
<1>. QED
  BY <1>2 DEF SwitchOff, SwitchOn, Unlink, UnlinkCheck, UnlinkDelete, UnlinkFails,
              idVars, Same

LEMMA ShapeCommits ==
    ASSUME IdTypeOK, IndexInv, NEW q \in Requests, Commits(q), NEW p \in Requests
    PROVE  ShapeOK(p)'
<1>1. CASE p = q
  BY <1>1, OverOK DEF Commits, ShapeOK, NoClaims
<1>2. CASE p # q
  <2>1. Moves(q)
    BY DEF Commits, Moves
  <2>2. /\ req'[p] = req[p] /\ ShapeOK(p) /\ ShapeOK(q) /\ ApartOK(p, q)
        /\ req[p].made \in SUBSET Ids
    BY <1>2, <2>1, MovesOne, MailTyped DEF IndexInv, ShapeInv, ApartInv
  <2>3. /\ req[q].pc \in {"return", "created"}
        /\ People' = People \cup req[q].made
        /\ \A u \in Ids : mail'[u] = IF u \in req[q].made THEN req[q].claims.mail ELSE mail[u]
        /\ links' = IF req[q].pc = "return"
                    THEN links \cup {Link(s, u) : s \in req[q].claims.subject,
                                                  u \in req[q].user \cup req[q].made}
                    ELSE links
    BY CommitFacts DEF IndexInv
  <2>4. req[p].made \cap People' = {} /\ req[p].user \subseteq People'
    BY <2>2, <2>3 DEF ShapeOK, ApartOK
  <2>5. ASSUME req[p].made # {}, NEW u \in Ids PROVE mail'[u] # req[p].claims.mail
    BY <2>2, <2>3, <2>5 DEF ShapeOK, ApartOK
  <2>6. ASSUME req[p].pc = "return" PROVE ~SubjectTaken(p)'
    <3>. PICK s \in Subjects : req[p].claims.subject = {s}
      BY <2>2, <2>6 DEF ShapeOK
    <3>1. Owners(s) = {}
      BY <2>2, <2>6 DEF ShapeOK, SubjectTaken
    <3>2. req[q].pc = "return" => s \notin req[q].claims.subject
      <4>. SUFFICES ASSUME req[q].pc = "return" PROVE s \notin req[q].claims.subject
        OBVIOUS
      <4>. PICK t \in Subjects : req[q].claims.subject = {t}
        BY <2>2 DEF ShapeOK
      <4>. QED
        BY <2>2, <2>6 DEF ApartOK
    <3>3. ASSUME NEW u \in Ids, Link(s, u) \in links' PROVE FALSE
      <4>1. Link(s, u) \notin links
        BY <3>1 DEF Owners
      <4>2. PICK t \in req[q].claims.subject, w \in req[q].user \cup req[q].made :
              req[q].pc = "return" /\ Link(s, u) = Link(t, w)
        BY <2>3, <3>3, <4>1
      <4>3. s = t
        BY <4>2 DEF Link
      <4>. QED
        BY <3>2, <4>2, <4>3
    <3>. QED
      BY <2>2, <3>3 DEF SubjectTaken, Owners
  <2>. QED
    BY <2>2, <2>4, <2>5, <2>6 DEF ShapeOK
<1>. QED
  BY <1>1, <1>2

LEMMA ApartCommits ==
    ASSUME IdTypeOK, IndexInv, NEW q \in Requests, Commits(q) PROVE ApartInv'
<1>. SUFFICES ASSUME NEW p \in Requests, NEW r \in Requests, p # r PROVE ApartOK(p, r)'
  BY DEF ApartInv
<1>1. Moves(q) /\ IsOver(q) /\ ApartOK(p, r)
  BY DEF Commits, Moves, IndexInv, ApartInv
<1>2. req'[q].pc = "idle" /\ req'[q].made = {}
  BY <1>1, OverOK
<1>3. (p # q => req'[p] = req[p]) /\ (r # q => req'[r] = req[r])
  BY <1>1, MovesOne
<1>. QED
  BY <1>1, <1>2, <1>3 DEF ApartOK

\* What a callback binds: one subject nobody owns, one person.
LEMMA ReturnsOne ==
    ASSUME NEW q \in Requests, ShapeOK(q), req[q].pc = "return"
    PROVE  \E s \in Subjects, w \in Ids :
             /\ req[q].claims.subject = {s} /\ Owners(s) = {}
             /\ req[q].user \cup req[q].made = {w}
             /\ \/ req[q].made = {} /\ req[q].user = {w} /\ w \in People
                \/ req[q].made = {w} /\ req[q].user = {} /\ w \notin People
<1>1. PICK s \in Subjects : req[q].claims.subject = {s}
  BY DEF ShapeOK
<1>2. Owners(s) = {}
  BY <1>1 DEF ShapeOK, SubjectTaken
<1>3. CASE req[q].made = {} /\ Alone(req[q].user)
  <2>1. PICK w \in Ids : req[q].user = {w}
    BY <1>3 DEF Alone
  <2>2. w \in People /\ req[q].user \cup req[q].made = {w}
    BY <1>3, <2>1 DEF ShapeOK
  <2>. QED
    BY <1>1, <1>2, <1>3, <2>1, <2>2
<1>4. CASE req[q].user = {} /\ Alone(req[q].made)
  <2>1. PICK w \in Ids : req[q].made = {w}
    BY <1>4 DEF Alone
  <2>2. w \notin People /\ req[q].user \cup req[q].made = {w}
    BY <1>4, <2>1 DEF ShapeOK
  <2>. QED
    BY <1>1, <1>2, <1>4, <2>1, <2>2
<1>. QED
  BY <1>3, <1>4 DEF ShapeOK

LEMMA TablesCommits ==
    ASSUME IdTypeOK, IndexInv, NEW q \in Requests, Commits(q) PROVE TablesInv'
<1>0. ShapeOK(q) /\ TablesInv
  BY DEF IndexInv, ShapeInv
<1>1. /\ req[q].pc \in {"return", "created"}
      /\ People' = People \cup req[q].made
      /\ \A u \in Ids : mail'[u] = IF u \in req[q].made THEN req[q].claims.mail ELSE mail[u]
      /\ req[q].made # {} => req[q].claims.mail # {}
      /\ links' = IF req[q].pc = "return"
                  THEN links \cup {Link(s, u) : s \in req[q].claims.subject,
                                                u \in req[q].user \cup req[q].made}
                  ELSE links
  BY CommitFacts DEF IndexInv
<1>2. ASSUME NEW u \in People' PROVE \E e \in Emails : mail'[u] = {e}
  <2>1. u \in Ids
    BY DEF People
  <2>2. CASE u \in req[q].made
    <3>1. mail'[u] = req[q].claims.mail /\ req[q].claims.mail # {}
      BY <1>1, <2>1, <2>2
    <3>. QED
      BY <1>0, <3>1 DEF ShapeOK
  <2>3. CASE u \notin req[q].made
    BY <1>0, <1>1, <2>1, <2>3 DEF TablesInv
  <2>. QED
    BY <2>2, <2>3
<1>3. ASSUME NEW k \in links', NEW l \in links', k.subject = l.subject PROVE k = l
  <2>1. CASE req[q].pc # "return"
    BY <1>0, <1>1, <1>3, <2>1 DEF TablesInv
  <2>2. CASE req[q].pc = "return"
    <3>. PICK s \in Subjects, w \in Ids :
           /\ req[q].claims.subject = {s} /\ Owners(s) = {}
           /\ req[q].user \cup req[q].made = {w}
      BY <1>0, <2>2, ReturnsOne
    <3>1. links' = links \cup {Link(s, w)}
      BY <1>1, <2>2
    <3>2. ASSUME NEW j \in links PROVE j.subject # s
      <4>1. j = Link(j.subject, j.user) /\ j.user \in Ids
        BY DEF IdTypeOK, People, Link
      <4>. QED
        BY <4>1 DEF Owners
    <3>3. Link(s, w).subject = s
      BY DEF Link
    <3>. QED
      BY <1>0, <1>3, <3>1, <3>2, <3>3 DEF TablesInv
  <2>. QED
    BY <2>1, <2>2
<1>. QED
  BY <1>2, <1>3 DEF TablesInv

LEMMA IndexStep == IdTypeOK /\ IndexInv /\ [Next]_idVars => IndexInv'
<1>. SUFFICES ASSUME IdTypeOK, IndexInv, [Next]_idVars PROVE IndexInv'
  OBVIOUS
<1>0. ShapeInv /\ ApartInv /\ TablesInv
  BY DEF IndexInv
<1>1. ASSUME NEW q \in Requests, Moves(q), UNCHANGED Tables PROVE IndexInv'
  <2>1. ASSUME NEW p \in Requests PROVE ShapeOK(p)'
    <3>1. CASE p = q
      BY <1>0, <1>1, <3>1, ShapeMoves
    <3>2. CASE p # q
      <4>1. Same(p) /\ mail' = mail /\ links' \subseteq links
        BY <1>1, <3>2, MovesOne DEF Same, Tables
      <4>. QED
        BY <1>0, <4>1, SameOK DEF ShapeInv
    <3>. QED
      BY <3>1, <3>2
  <2>2. ASSUME NEW p \in Requests, NEW r \in Requests, p # r PROVE ApartOK(p, r)'
    <3>1. CASE p # q /\ r # q
      <4>1. Same(p) /\ Same(r)
        BY <1>1, <3>1, MovesOne DEF Same
      <4>. QED
        BY <1>0, <2>2, <4>1, SameApart DEF ApartInv
    <3>2. CASE p = q \/ r = q
      BY <1>1, <2>2, <3>2, ApartMoves
    <3>. QED
      BY <3>1, <3>2
  <2>3. TablesInv'
    BY <1>0, <1>1 DEF Tables, TablesInv, People
  <2>. QED
    BY <2>1, <2>2, <2>3 DEF IndexInv, ShapeInv, ApartInv
<1>2. ASSUME NEW q \in Requests, Commits(q) PROVE IndexInv'
  BY <1>2, ShapeCommits, ApartCommits, TablesCommits DEF IndexInv, ShapeInv
<1>3. CASE \/ \E u \in Ids : SwitchOff(u) \/ SwitchOn(u)
           \/ \E x \in Unlinkers : Unlink(x)
           \/ UNCHANGED idVars
  <2>1. ShapeInv' /\ ApartInv'
    BY <1>0, <1>3, AroundSame, SameOK, SameApart DEF ShapeInv, ApartInv
  <2>2. mail' = mail /\ links' \subseteq links
    BY <1>3 DEF SwitchOff, SwitchOn, Unlink, UnlinkCheck, UnlinkDelete, UnlinkFails, idVars
  <2>. QED
    BY <1>0, <2>1, <2>2 DEF IndexInv, TablesInv, People
<1>. QED
  BY <1>1, <1>2, <1>3, HowStepsGo

LEMMA IndexAlways == Spec => [](IdTypeOK /\ IndexInv)
<1>1. Init => IndexInv
  BY DEF Init, IndexInv, ShapeInv, ShapeOK, ApartInv, ApartOK, TablesInv, Idle, NoClaims, People
<1>. QED
  BY <1>1, TypedInit, TypedStep, IndexStep, PTL DEF Spec

(* The tables and the requests stay well-formed, and every link is to a    *)
(* row that exists, however callbacks and registrations race.              *)
THEOREM IdentityTyped == Spec => []IdTypeOK
<1>. QED
  BY IndexAlways, PTL

-----------------------------------------------------------------------------
(* An unlinking that has been checked leaves its person another link, as   *)
(* long as nobody else is about to take that one away.                     *)
UnlinkInv ==
    \A x \in Unlinkers : \A l \in unlinking[x] :
        /\ unlinking[x] = {l}
        /\ l \in links
        /\ l.user \in external => \E k \in links \ {l} : k.user = l.user

LEMMA UnlinkFacts ==
    ASSUME UnlinkInv, NEW x \in Unlinkers, Unlink(x)
    PROVE  /\ UNCHANGED <<mail, external, inactive, req>>
           /\ \/ links' = links
              \/ \E m \in links : /\ unlinking[x] = {m}
                                  /\ links' = links \ {m}
                                  /\ unlinking' = [y \in Unlinkers |-> unlinking[y] \ {m}]
<1>1. CASE UnlinkDelete(x)
  <2>1. PICK m \in unlinking[x] : TRUE
    BY <1>1 DEF UnlinkDelete
  <2>2. unlinking[x] = {m} /\ m \in links
    BY <2>1 DEF UnlinkInv
  <2>. QED
    BY <1>1, <2>2 DEF UnlinkDelete
<1>. QED
  BY <1>1 DEF Unlink, UnlinkCheck, UnlinkFails

LEMMA UnlinkStep ==
    IdTypeOK /\ IndexInv /\ UnlinksApart /\ UnlinkInv /\ [Next]_idVars => UnlinkInv'
<1>. SUFFICES ASSUME IdTypeOK, IndexInv, UnlinksApart, UnlinkInv, [Next]_idVars,
                     NEW y \in Unlinkers, NEW l \in unlinking'[y]
              PROVE  /\ unlinking'[y] = {l}
                     /\ l \in links'
                     /\ l.user \in external' => \E k \in links' \ {l} : k.user = l.user
  BY DEF UnlinkInv
<1>. DEFINE Goal == /\ unlinking'[y] = {l}
                    /\ l \in links'
                    /\ l.user \in external' => \E k \in links' \ {l} : k.user = l.user
<1>1. ASSUME UNCHANGED <<external, links, unlinking>> PROVE Goal
  BY <1>1 DEF UnlinkInv
<1>2. ASSUME NEW q \in Requests, Commits(q) PROVE Goal
  <2>1. l \in unlinking[y] /\ unlinking' = unlinking
    BY <1>2 DEF Commits
  <2>2. l.user \in People
    BY <2>1 DEF IdTypeOK
  <2>3. req[q].made \cap People = {}
    BY DEF IndexInv, ShapeInv, ShapeOK
  <2>4. external' \subseteq external \cup req[q].made /\ links \subseteq links'
    BY <1>2, CommitFacts DEF IndexInv
  <2>. QED
    BY <2>1, <2>2, <2>3, <2>4 DEF UnlinkInv
<1>3. ASSUME NEW x \in Unlinkers, NEW k \in links, UnlinkCheck(x, k) PROVE Goal
  <2>1. CASE y = x
    <3>1. unlinking'[y] = {k}
      BY <1>3, <2>1 DEF UnlinkCheck, IdTypeOK
    <3>. QED
      BY <1>3, <3>1 DEF UnlinkCheck
  <2>2. CASE y # x
    <3>1. unlinking'[y] = unlinking[y]
      BY <1>3, <2>2 DEF UnlinkCheck, IdTypeOK
    <3>. QED
      BY <1>3, <3>1 DEF UnlinkCheck, UnlinkInv
  <2>. QED
    BY <2>1, <2>2
<1>4. ASSUME NEW x \in Unlinkers, UnlinkDelete(x) PROVE Goal
  <2>1. PICK m \in unlinking[x] : TRUE
    BY <1>4 DEF UnlinkDelete
  <2>2. unlinking[x] = {m}
    BY <2>1 DEF UnlinkInv
  <2>3. /\ links' = links \ {m}
        /\ unlinking'[y] = unlinking[y] \ {m}
        /\ external' = external
    BY <1>4, <2>2 DEF UnlinkDelete
  <2>4. l \in unlinking[y] /\ l # m
    BY <2>3
  <2>5. unlinking[y] = {l} /\ x # y
    BY <2>2, <2>4 DEF UnlinkInv
  <2>6. l.user # m.user
    BY <2>1, <2>4, <2>5 DEF UnlinksApart
  <2>. QED
    BY <2>3, <2>4, <2>5, <2>6 DEF UnlinkInv
<1>5. ASSUME NEW x \in Unlinkers, UnlinkFails(x) PROVE Goal
  <2>1. x # y /\ unlinking'[y] = unlinking[y]
    BY <1>5 DEF UnlinkFails, IdTypeOK
  <2>. QED
    BY <1>5, <2>1 DEF UnlinkFails, UnlinkInv
<1>6. ASSUME NEW u \in Ids, SwitchOff(u) \/ SwitchOn(u)
      PROVE  UNCHANGED <<external, links, unlinking>>
  BY <1>6 DEF SwitchOff, SwitchOn
<1>7. ASSUME UNCHANGED Tables \/ UNCHANGED idVars PROVE UNCHANGED <<external, links, unlinking>>
  BY <1>7 DEF Tables, idVars
<1>. HIDE DEF Goal
<1>8. Goal
  BY <1>1, <1>2, <1>3, <1>4, <1>5, <1>6, <1>7, HowStepsGo DEF Unlink
<1>. QED
  BY <1>8 DEF Goal

LEMMA UnlinkAlways == Spec /\ []UnlinksApart => []UnlinkInv
<1>1. Init => UnlinkInv
  BY DEF Init, UnlinkInv
<1>. QED
  BY <1>1, UnlinkStep, IndexAlways, PTL DEF Spec

LEMMA ExternalStep ==
    IdTypeOK /\ IndexInv /\ UnlinkInv /\ ExternalHasLink /\ [Next]_idVars => ExternalHasLink'
<1>. SUFFICES ASSUME IdTypeOK, IndexInv, UnlinkInv, ExternalHasLink, [Next]_idVars,
                     NEW u \in external'
              PROVE  \E l \in links' : l.user = u
  BY DEF ExternalHasLink
<1>1. ASSUME NEW q \in Requests, Commits(q) PROVE \E l \in links' : l.user = u
  <2>1. CASE u \in external
    <3>1. links \subseteq links'
      BY <1>1, CommitFacts DEF IndexInv
    <3>. QED
      BY <2>1, <3>1 DEF ExternalHasLink
  <2>2. CASE u \notin external
    <3>1. req[q].pc = "return" /\ u \in req[q].made
      BY <1>1, <2>2, CommitFacts DEF IndexInv
    <3>2. PICK s \in Subjects : req[q].claims.subject = {s}
      BY <3>1 DEF IndexInv, ShapeInv, ShapeOK
    <3>3. Link(s, u) \in links' /\ Link(s, u).user = u
      BY <1>1, <3>1, <3>2, CommitFacts DEF IndexInv, Link
    <3>. QED
      BY <3>3
  <2>. QED
    BY <2>1, <2>2
<1>2. ASSUME NEW x \in Unlinkers, Unlink(x) PROVE \E k \in links' : k.user = u
  <2>1. u \in external
    BY <1>2, UnlinkFacts
  <2>2. ASSUME NEW m \in links, unlinking[x] = {m}, links' = links \ {m}
        PROVE  \E k \in links' : k.user = u
    BY <2>1, <2>2 DEF UnlinkInv, ExternalHasLink
  <2>. QED
    BY <1>2, <2>1, <2>2, UnlinkFacts DEF ExternalHasLink
<1>3. CASE external' = external /\ links' = links
  BY <1>3 DEF ExternalHasLink
<1>4. ASSUME NEW v \in Ids, SwitchOff(v) \/ SwitchOn(v)
      PROVE  external' = external /\ links' = links
  BY <1>4 DEF SwitchOff, SwitchOn
<1>. QED
  BY <1>1, <1>2, <1>3, <1>4, HowStepsGo DEF Tables, idVars

(* A person with no password always has a subject to log in with: the row  *)
(* and its link are committed together or not at all, and as long as no    *)
(* two requests dissolve links of one person at the same time, the last    *)
(* link stays.                                                             *)
THEOREM ExternalCanLogIn == Spec /\ []UnlinksApart => []ExternalHasLink
<1>1. Init => ExternalHasLink
  BY DEF Init, ExternalHasLink
<1>. QED
  BY <1>1, ExternalStep, IndexAlways, UnlinkAlways, PTL DEF Spec

-----------------------------------------------------------------------------
(* The refinement.  What the directory sees of the links: each subject's   *)
(* owners, a set that a step changes for one subject at most.              *)
Owned == [s \in Subjects |-> Owners(s)]

LEMMA OwnersOnly ==
    ASSUME NEW s \in Subjects, NEW t \in Subjects, NEW w \in Ids, NEW u \in Ids
    PROVE  Link(t, u) = Link(s, w) <=> t = s /\ u = w
<1>1. Link(t, u).subject = t /\ Link(t, u).user = u /\ Link(s, w).subject = s /\ Link(s, w).user = w
  BY DEF Link
<1>. QED
  BY <1>1

LEMMA BindsOwned ==
    ASSUME NEW s \in Subjects, NEW w \in Ids, Owners(s) = {}, links' = links \cup {Link(s, w)}
    PROVE  Owned' = [Owned EXCEPT ![s] = {w}]
<1>1. ASSUME NEW t \in Subjects PROVE Owners(t)' = IF t = s THEN {w} ELSE Owners(t)
  <2>1. ASSUME NEW u \in Ids
        PROVE  Link(t, u) \in links' <=> Link(t, u) \in links \/ (t = s /\ u = w)
    BY OwnersOnly
  <2>. QED
    BY <2>1 DEF Owners
<1>. QED
  BY <1>1 DEF Owned

LEMMA UnbindsOwned ==
    ASSUME IdTypeOK, TablesInv, NEW l \in links, links' = links \ {l}
    PROVE  /\ l.subject \in Subjects /\ Owners(l.subject) = {l.user}
           /\ Owned' = [Owned EXCEPT ![l.subject] = {}]
<1>. DEFINE s == l.subject
            w == l.user
<1>1. s \in Subjects /\ w \in Ids /\ l = Link(s, w)
  BY DEF IdTypeOK, People, Link
<1>2. ASSUME NEW u \in Ids PROVE Link(s, u) \in links <=> u = w
  <2>1. Link(s, u).subject = s /\ Link(s, u).user = u
    BY DEF Link
  <2>2. Link(s, u) \in links => Link(s, u) = l
    BY <2>1 DEF TablesInv
  <2>. QED
    BY <1>1, <2>1, <2>2
<1>3. Owners(s) = {w}
  BY <1>1, <1>2 DEF Owners
<1>4. ASSUME NEW t \in Subjects PROVE Owners(t)' = IF t = s THEN {} ELSE Owners(t)
  <2>1. ASSUME NEW u \in Ids
        PROVE  Link(t, u) \in links' <=> Link(t, u) \in links /\ ~(t = s /\ u = w)
    BY <1>1, OwnersOnly
  <2>. QED
    BY <1>2, <2>1 DEF Owners
<1>. QED
  BY <1>1, <1>3, <1>4 DEF Owned

LEMMA DirectoryCommit ==
    ASSUME IdTypeOK, IndexInv, NEW q \in Requests, Commits(q)
    PROVE  D!DirectoryNext
<1>0. ShapeOK(q)
  BY DEF IndexInv, ShapeInv
<1>1. /\ req[q].pc \in {"return", "created"}
      /\ \A u \in Ids : mail'[u] = IF u \in req[q].made THEN req[q].claims.mail ELSE mail[u]
      /\ links' = IF req[q].pc = "return"
                  THEN links \cup {Link(s, u) : s \in req[q].claims.subject,
                                                u \in req[q].user \cup req[q].made}
                  ELSE links
      /\ external' = IF req[q].pc = "return" THEN external \cup req[q].made ELSE external
  BY CommitFacts DEF IndexInv
<1>2. mail \in [Ids -> SUBSET Emails] /\ mail' \in [Ids -> SUBSET Emails]
  BY CommitTyped DEF IdTypeOK
<1>3. ASSUME NEW w \in Ids, req[q].made = {w}
      PROVE  \E e \in Emails : D!Free(w, e) /\ mail' = [mail EXCEPT ![w] = {e}]
  <2>1. req[q].claims.mail # {} /\ w \notin People /\ \A u \in Ids : mail[u] # req[q].claims.mail
    BY <1>0, <1>3 DEF ShapeOK
  <2>2. PICK e \in Emails : req[q].claims.mail = {e}
    BY <1>0, <2>1 DEF ShapeOK
  <2>3. mail' = [mail EXCEPT ![w] = {e}]
    BY <1>1, <1>2, <1>3, <2>2
  <2>4. mail[w] = {}
    BY <2>1 DEF People
  <2>5. ASSUME NEW u \in Ids, e \in mail[u] PROVE FALSE
    <3>1. PICK f \in Emails : mail[u] = {f}
      BY <2>5 DEF IndexInv, TablesInv, People
    <3>. QED
      BY <2>1, <2>2, <2>5, <3>1
  <2>. QED
    BY <2>3, <2>4, <2>5 DEF D!Free
<1>4. CASE req[q].pc = "created"
  <2>1. PICK w \in Ids : req[q].made = {w}
    BY <1>0, <1>4 DEF ShapeOK, Alone
  <2>2. PICK e \in Emails : D!Free(w, e) /\ mail' = [mail EXCEPT ![w] = {e}]
    BY <1>3, <2>1
  <2>3. links' = links /\ external' = external
    BY <1>1, <1>4
  <2>4. Owned' = Owned
    BY <2>3 DEF Owned, Owners
  <2>5. D!Join(w, e)
    BY <2>2, <2>3, <2>4 DEF D!Join, Owned
  <2>. QED
    BY <2>5 DEF D!DirectoryNext
<1>5. CASE req[q].pc = "return"
  <2>. PICK s \in Subjects, w \in Ids :
         /\ req[q].claims.subject = {s} /\ Owners(s) = {}
         /\ req[q].user \cup req[q].made = {w}
         /\ \/ req[q].made = {} /\ req[q].user = {w} /\ w \in People
            \/ req[q].made = {w} /\ req[q].user = {} /\ w \notin People
    BY <1>0, <1>5, ReturnsOne
  <2>1. links' = links \cup {Link(s, w)}
    BY <1>1, <1>5
  <2>2. Owned[s] = {} /\ Owned' = [Owned EXCEPT ![s] = {w}]
    BY <2>1, BindsOwned DEF Owned
  <2>3. CASE req[q].made = {}
    <3>1. mail' = mail /\ external' = external /\ mail[w] # {}
      BY <1>1, <1>2, <1>5, <2>3 DEF People
    <3>2. D!Bind(s, w)
      BY <2>2, <3>1 DEF D!Bind, Owned
    <3>. QED
      BY <3>2 DEF D!DirectoryNext
  <2>4. CASE req[q].made = {w}
    <3>1. PICK e \in Emails : D!Free(w, e) /\ mail' = [mail EXCEPT ![w] = {e}]
      BY <1>3, <2>4
    <3>2. external' = external \cup {w}
      BY <1>1, <1>5, <2>4
    <3>3. D!JoinBound(s, w, e)
      BY <2>2, <3>1, <3>2 DEF D!JoinBound, Owned
    <3>. QED
      BY <3>3 DEF D!DirectoryNext
  <2>. QED
    BY <2>3, <2>4
<1>. QED
  BY <1>1, <1>4, <1>5

LEMMA DirectoryUnlink ==
    ASSUME IdTypeOK, IndexInv, UnlinkInv, NEW x \in Unlinkers, NEW l \in links, Unlink(x),
           unlinking[x] = {l}, links' = links \ {l}
    PROVE  D!DirectoryNext
<1>1. /\ l.subject \in Subjects /\ Owned[l.subject] = {l.user}
      /\ Owned' = [Owned EXCEPT ![l.subject] = {}]
  BY UnbindsOwned DEF IndexInv, Owned
<1>2. ASSUME l.user \in external PROVE \E t \in Subjects \ {l.subject} : l.user \in Owned[t]
  <2>1. PICK k \in links \ {l} : k.user = l.user
    BY <1>2 DEF UnlinkInv
  <2>2. k.subject # l.subject
    BY <2>1 DEF IndexInv, TablesInv
  <2>3. k.subject \in Subjects /\ k.user \in Ids /\ k = Link(k.subject, k.user)
    BY DEF IdTypeOK, People, Link
  <2>4. l.user \in Owned[k.subject]
    BY <2>1, <2>3 DEF Owned, Owners
  <2>. QED
    BY <2>2, <2>3, <2>4
<1>3. mail' = mail /\ external' = external
  BY UnlinkFacts
<1>4. D!Unbind(l.subject)
  BY <1>1, <1>2, <1>3 DEF D!Unbind, Owned
<1>. QED
  BY <1>1, <1>4 DEF D!DirectoryNext

LEMMA DirectoryStep ==
    IdTypeOK /\ IndexInv /\ UnlinkInv /\ [Next]_idVars => [D!DirectoryNext]_(D!directoryVars)
<1>. SUFFICES ASSUME IdTypeOK, IndexInv, UnlinkInv, [Next]_idVars
              PROVE  [D!DirectoryNext]_(D!directoryVars)
  OBVIOUS
<1>1. CASE UNCHANGED <<mail, external, links>>
  <2>1. Owned' = Owned
    BY <1>1 DEF Owned, Owners
  <2>. QED
    BY <1>1, <2>1 DEF D!directoryVars, Owned
<1>2. ASSUME NEW q \in Requests, Commits(q) PROVE D!DirectoryNext
  BY <1>2, DirectoryCommit
<1>3. ASSUME NEW x \in Unlinkers, Unlink(x)
      PROVE  D!DirectoryNext \/ UNCHANGED <<mail, external, links>>
  BY <1>3, UnlinkFacts, DirectoryUnlink
<1>4. ASSUME \/ \E q \in Requests : Moves(q) /\ UNCHANGED Tables
             \/ \E u \in Ids : SwitchOff(u) \/ SwitchOn(u)
             \/ UNCHANGED idVars
      PROVE  UNCHANGED <<mail, external, links>>
  BY <1>4 DEF Tables, SwitchOff, SwitchOn, idVars
<1>. QED
  BY <1>1, <1>2, <1>3, <1>4, HowStepsGo

(* Whatever races: an address names one person, a subject belongs to one   *)
(* person until it is unlinked, and a person with no password keeps one.   *)
(* The unique indexes and the order of the inserts give this, not the      *)
(* reads before them; the last of it also needs that unlinkings of one     *)
(* person do not overlap.                                                  *)
THEOREM IdentityImplementsDirectory == Spec /\ []UnlinksApart => ImplementsDirectory
<1>1. Init => D!DirectoryInit
  BY DEF Init, D!DirectoryInit, Owners
<1>. QED
  BY <1>1, DirectoryStep, IndexAlways, UnlinkAlways, PTL
  DEF Spec, ImplementsDirectory, D!DirectorySpec

-----------------------------------------------------------------------------
(* A step of one request, seen by another. *)
LEMMA OthersStay ==
    ASSUME IdTypeOK, IndexInv, NEW p \in Requests, NEW q \in Requests, p # q,
           Moves(p), UNCHANGED Tables \/ Commits(p)
    PROVE  /\ req'[q] = req[q] /\ inactive \subseteq inactive'
           /\ \A u \in People : mail'[u] = mail[u]
<1>1. req'[q] = req[q]
  BY MovesOne
<1>2. CASE UNCHANGED Tables
  BY <1>1, <1>2 DEF Tables
<1>3. CASE Commits(p)
  <2>1. /\ \A u \in Ids : mail'[u] = IF u \in req[p].made THEN req[p].claims.mail ELSE mail[u]
        /\ inactive \subseteq inactive' /\ req[p].made \cap People = {}
    BY <1>3, CommitFacts DEF IndexInv, ShapeInv, ShapeOK
  <2>. QED
    BY <1>1, <2>1 DEF People
<1>. QED
  BY <1>2, <1>3

(* A request that is about to link a person who existed has the word of    *)
(* the provider for that person's address.                                 *)
VouchOK(q) ==
    req[q].pc \in {"conflict", "link"} \/ (req[q].pc = "return" /\ req[q].user # {}) =>
        Vouched(q) /\ \A u \in req[q].user : mail[u] = req[q].claims.mail

VouchInv == \A q \in Requests : VouchOK(q)

LEMMA VouchMoves ==
    ASSUME IdTypeOK, IndexInv, VouchInv, NEW q \in Requests, Moves(q), UNCHANGED Tables
    PROVE  VouchOK(q)'
<1>. DEFINE Goal == VouchOK(q)'
<1>. SUFFICES Goal
  OBVIOUS
<1>0. VouchOK(q) /\ ShapeOK(q) /\ mail' = mail
  BY DEF VouchInv, IndexInv, ShapeInv, Tables
<1>1. CASE IsOver(q)
  BY <1>1, OverOK DEF VouchOK
<1>2. ASSUME NEW claims, NEW step \in {"lookup", "create"}, Begins(q, claims, step) PROVE Goal
  BY <1>2, BeginsOK DEF VouchOK
<1>3. ASSUME NEW step \in {"touch", "email", "person", "personlink", "created"},
             NEW U, NEW M, GoesOn(q, step, U, M)
      PROVE  Goal
  BY <1>3, GoesOnOK DEF VouchOK
<1>4. CASE Matches(q)
  <2>. PICK u \in Named(q) : GoesOn(q, "conflict", {u}, req[q].made)
    BY <1>4 DEF Matches
  <2>1. req'[q].user = {u} /\ req'[q].claims = req[q].claims
    BY GoesOnOK
  <2>2. Vouched(q) /\ mail[u] = req[q].claims.mail
    BY <1>4 DEF Matches, Named
  <2>. QED
    BY <1>0, <2>1, <2>2 DEF VouchOK, Vouched
<1>5. CASE Clear(q)
  <2>1. /\ req[q].pc = "conflict" /\ req'[q].user = req[q].user
        /\ req'[q].claims = req[q].claims
    BY <1>5, GoesOnOK DEF Clear
  <2>. QED
    BY <1>0, <2>1 DEF VouchOK, Vouched
<1>6. CASE Links(q)
  <2>1. /\ req[q].pc \in {"link", "personlink"} /\ req'[q].user = req[q].user
        /\ req'[q].claims = req[q].claims /\ req'[q].pc = "return"
    BY <1>6, GoesOnOK DEF Links
  <2>2. req[q].pc = "personlink" => req[q].user = {}
    BY <1>0 DEF ShapeOK
  <2>. QED
    BY <1>0, <2>1, <2>2 DEF VouchOK, Vouched
<1>7. (Found(q) \/ NotFound(q) \/ Registers(q) \/ Inserts(q, "person", "personlink")
         \/ Inserts(q, "create", "created")) => Goal
  BY <1>3 DEF Found, NotFound, Registers, Inserts
<1>. HIDE DEF Goal
<1>. QED
  BY <1>1, <1>2, <1>4, <1>5, <1>6, <1>7, Zenon DEF Moves

LEMMA VouchStep == IdTypeOK /\ IndexInv /\ VouchInv /\ [Next]_idVars => VouchInv'
<1>. SUFFICES ASSUME IdTypeOK, IndexInv, VouchInv, [Next]_idVars, NEW q \in Requests
              PROVE  VouchOK(q)'
  BY DEF VouchInv
<1>0. VouchOK(q) /\ req[q].user \subseteq People
  BY DEF VouchInv, IndexInv, ShapeInv, ShapeOK
<1>1. ASSUME NEW p \in Requests, p # q, Moves(p), UNCHANGED Tables \/ Commits(p)
      PROVE  VouchOK(q)'
  BY <1>0, <1>1, OthersStay DEF VouchOK, Vouched
<1>2. CASE Moves(q) /\ UNCHANGED Tables
  BY <1>2, VouchMoves
<1>3. CASE Commits(q)
  BY <1>3, OverOK DEF Commits, VouchOK
<1>4. CASE \/ \E u \in Ids : SwitchOff(u) \/ SwitchOn(u)
           \/ \E x \in Unlinkers : Unlink(x)
           \/ UNCHANGED idVars
  <2>1. Same(q) /\ mail' = mail
    BY <1>4, AroundSame
  <2>. QED
    BY <1>0, <2>1 DEF VouchOK, Vouched, Same
<1>5. ASSUME NEW p \in Requests, Commits(p) PROVE Moves(p)
  BY <1>5 DEF Commits, Moves
<1>. QED
  BY <1>1, <1>2, <1>3, <1>4, <1>5, HowStepsGo

(* B.4.7: whatever changes between the reads of a callback and its insert, *)
(* a person who existed gets a link only from a provider that vouched for  *)
(* that person's address.                                                  *)
THEOREM LinksAreVouchedFor == Spec => LinkIsVouchedFor
<1>1. Init => VouchInv
  BY DEF Init, VouchInv, VouchOK, Idle
<1>2. ASSUME IdTypeOK, IndexInv, VouchInv, [Next]_idVars,
             NEW l \in links', l \notin links, l.user \in People
      PROVE  \E q \in Requests : /\ l.subject \in req[q].claims.subject
                                 /\ req[q].claims.verified
                                 /\ mail[l.user] = req[q].claims.mail
  <2>1. PICK q \in Requests : Commits(q)
    BY <1>2, HowStepsGo DEF Tables, idVars, SwitchOff, SwitchOn, Unlink, UnlinkCheck,
                            UnlinkDelete, UnlinkFails
  <2>2. ShapeOK(q) /\ VouchOK(q)
    BY <1>2 DEF IndexInv, ShapeInv, VouchInv
  <2>3. /\ req[q].pc = "return"
        /\ l \in {Link(s, u) : s \in req[q].claims.subject,
                               u \in req[q].user \cup req[q].made}
    BY <1>2, <2>1, CommitFacts DEF IndexInv
  <2>4. l.subject \in req[q].claims.subject /\ l.user \in req[q].user \cup req[q].made
    BY <2>3 DEF Link
  <2>5. l.user \in req[q].user
    BY <1>2, <2>2, <2>4 DEF ShapeOK
  <2>. QED
    BY <2>2, <2>3, <2>4, <2>5 DEF VouchOK, Vouched
<1>3. IdTypeOK /\ IndexInv /\ VouchInv /\ [Next]_idVars =>
        [\A l \in links' \ links : l.user \in People =>
           \E q \in Requests : /\ l.subject \in req[q].claims.subject
                               /\ req[q].claims.verified
                               /\ mail[l.user] = req[q].claims.mail]_idVars
  BY <1>2
<1>. QED
  BY <1>1, <1>3, VouchStep, IndexAlways, PTL DEF Spec, LinkIsVouchedFor

-----------------------------------------------------------------------------
(* Who has slept since a request began is none of those it has found.      *)
AsleepOK(q) == req[q].asleep \subseteq inactive /\ req[q].user \cap req[q].asleep = {}

AsleepInv == \A q \in Requests : AsleepOK(q)

LEMMA AsleepMoves ==
    ASSUME IdTypeOK, AsleepInv, NEW q \in Requests, Moves(q), inactive \subseteq inactive'
    PROVE  AsleepOK(q)'
<1>. DEFINE Goal == AsleepOK(q)'
<1>. SUFFICES Goal
  OBVIOUS
<1>0. AsleepOK(q)
  BY DEF AsleepInv
<1>1. CASE IsOver(q)
  BY <1>1, OverOK DEF AsleepOK
<1>2. ASSUME NEW claims, NEW step, Begins(q, claims, step) PROVE Goal
  BY <1>2, BeginsOK DEF AsleepOK
<1>3. ASSUME NEW step, NEW M, GoesOn(q, step, req[q].user, M) PROVE Goal
  BY <1>0, <1>3, GoesOnOK DEF AsleepOK
<1>4. ASSUME NEW u, MayEnter(u), NEW step, NEW M, GoesOn(q, step, {u}, M) PROVE Goal
  <2>1. req'[q].user = {u} /\ req'[q].asleep = req[q].asleep
    BY <1>4, GoesOnOK
  <2>. QED
    BY <1>0, <1>4, <2>1 DEF AsleepOK, MayEnter
<1>5. (NotFound(q) \/ Registers(q) \/ Clear(q) \/ Links(q)
         \/ Inserts(q, "person", "personlink") \/ Inserts(q, "create", "created")) => Goal
  BY <1>3 DEF NotFound, Registers, Clear, Links, Inserts
<1>6. (Found(q) \/ Matches(q)) => Goal
  BY <1>4 DEF Found, Matches
<1>. HIDE DEF Goal
<1>. QED
  BY <1>1, <1>2, <1>5, <1>6, Zenon DEF Moves

LEMMA AsleepStep == IdTypeOK /\ IndexInv /\ AsleepInv /\ [Next]_idVars => AsleepInv'
<1>. SUFFICES ASSUME IdTypeOK, IndexInv, AsleepInv, [Next]_idVars, NEW q \in Requests
              PROVE  AsleepOK(q)'
  BY DEF AsleepInv
<1>0. AsleepOK(q)
  BY DEF AsleepInv
<1>1. ASSUME NEW p \in Requests, p # q, Moves(p), UNCHANGED Tables \/ Commits(p)
      PROVE  AsleepOK(q)'
  BY <1>0, <1>1, OthersStay DEF AsleepOK
<1>2. CASE Moves(q) /\ UNCHANGED Tables
  BY <1>2, AsleepMoves DEF Tables
<1>3. CASE Commits(q)
  BY <1>3, OverOK DEF Commits, AsleepOK
<1>4. ASSUME NEW u \in Ids, SwitchOff(u) PROVE AsleepOK(q)'
  BY <1>0, <1>4 DEF SwitchOff, AsleepOK
<1>5. ASSUME NEW u \in Ids, SwitchOn(u) PROVE AsleepOK(q)'
  <2>1. req[q] \in RequestRecords
    BY DEF IdTypeOK
  <2>2. req'[q] = [req[q] EXCEPT !.asleep = req[q].asleep \ {u}]
    BY <1>5 DEF SwitchOn
  <2>3. req'[q].user = req[q].user /\ req'[q].asleep = req[q].asleep \ {u}
    BY <2>1, <2>2 DEF RequestRecords
  <2>. QED
    BY <1>0, <1>5, <2>3 DEF SwitchOn, AsleepOK
<1>6. ASSUME NEW x \in Unlinkers, Unlink(x) PROVE AsleepOK(q)'
  BY <1>0, <1>6 DEF Unlink, UnlinkCheck, UnlinkDelete, UnlinkFails, AsleepOK
<1>7. CASE UNCHANGED idVars
  BY <1>0, <1>7 DEF idVars, AsleepOK
<1>8. ASSUME NEW p \in Requests, Commits(p) PROVE Moves(p)
  BY <1>8 DEF Commits, Moves
<1>. QED
  BY <1>1, <1>2, <1>3, <1>4, <1>5, <1>6, <1>7, <1>8, HowStepsGo

(* Nobody is logged in who has been inactive since the callback began,     *)
(* although is_active is read long before the login.                       *)
THEOREM InactiveStayOut == Spec => InactiveStaysOut
<1>1. Init => AsleepInv
  BY DEF Init, AsleepInv, AsleepOK, Idle
<1>2. ASSUME IdTypeOK, IndexInv, AsleepInv, NEW q \in Requests
      PROVE  (req[q].user \cup req[q].made) \cap req[q].asleep = {}
  <2>1. req[q].asleep \subseteq People /\ req[q].user \cap req[q].asleep = {}
    BY <1>2 DEF AsleepInv, AsleepOK, IdTypeOK
  <2>2. req[q].made \cap People = {}
    BY <1>2 DEF IndexInv, ShapeInv, ShapeOK
  <2>. QED
    BY <2>1, <2>2
<1>3. IdTypeOK /\ IndexInv /\ AsleepInv =>
        [\A q \in Requests :
           req[q].pc # "idle" /\ req'[q].answer = "in" =>
             (req[q].user \cup req[q].made) \cap req[q].asleep = {}]_idVars
  BY <1>2
<1>. QED
  BY <1>1, <1>3, AsleepStep, IndexAlways, PTL DEF Spec, InactiveStaysOut

-----------------------------------------------------------------------------
(* Rule 4 of B.4.7, one request at a time: what a request found when it    *)
(* looked for a conflict is still so when it links.                        *)
CalmOK(q) ==
    req[q].pc = "link" \/ (req[q].pc = "return" /\ req[q].user # {}) => ~Conflicting(q)

CalmInv == \A q \in Requests : CalmOK(q)

LEMMA CalmMoves ==
    ASSUME IdTypeOK, IndexInv, CalmInv, NEW q \in Requests, Moves(q), UNCHANGED Tables
    PROVE  CalmOK(q)'
<1>. DEFINE Goal == CalmOK(q)'
<1>. SUFFICES Goal
  OBVIOUS
<1>0. CalmOK(q) /\ ShapeOK(q) /\ links' = links
  BY DEF CalmInv, IndexInv, ShapeInv, Tables
<1>1. CASE IsOver(q)
  BY <1>1, OverOK DEF CalmOK
<1>2. ASSUME NEW claims, NEW step \in {"lookup", "create"}, Begins(q, claims, step) PROVE Goal
  BY <1>2, BeginsOK DEF CalmOK
<1>3. ASSUME NEW step \in {"touch", "email", "conflict", "person", "personlink", "created"},
             NEW U, NEW M, GoesOn(q, step, U, M)
      PROVE  Goal
  BY <1>3, GoesOnOK DEF CalmOK
<1>4. CASE Clear(q)
  <2>1. ~Conflicting(q) /\ req'[q].user = req[q].user /\ req'[q].claims = req[q].claims
    BY <1>4, GoesOnOK DEF Clear
  <2>. QED
    BY <1>0, <2>1 DEF CalmOK, Conflicting
<1>5. CASE Links(q)
  <2>1. /\ req[q].pc \in {"link", "personlink"} /\ req'[q].user = req[q].user
        /\ req'[q].claims = req[q].claims /\ req'[q].pc = "return"
    BY <1>5, GoesOnOK DEF Links
  <2>2. req[q].pc = "personlink" => req[q].user = {}
    BY <1>0 DEF ShapeOK
  <2>. QED
    BY <1>0, <2>1, <2>2 DEF CalmOK, Conflicting
<1>6. (Found(q) \/ NotFound(q) \/ Registers(q) \/ Matches(q)
         \/ Inserts(q, "person", "personlink") \/ Inserts(q, "create", "created")) => Goal
  BY <1>3 DEF Found, NotFound, Registers, Matches, Inserts
<1>. HIDE DEF Goal
<1>. QED
  BY <1>1, <1>2, <1>4, <1>5, <1>6, Zenon DEF Moves

LEMMA CalmStep ==
    IdTypeOK /\ IndexInv /\ CalmInv /\ OneAtATime /\ [Next]_idVars => CalmInv'
<1>. SUFFICES ASSUME IdTypeOK, IndexInv, CalmInv, OneAtATime, [Next]_idVars,
                     NEW q \in Requests
              PROVE  CalmOK(q)'
  BY DEF CalmInv
<1>0. CalmOK(q)
  BY DEF CalmInv
<1>1. ASSUME NEW p \in Requests, p # q, Moves(p), UNCHANGED Tables PROVE CalmOK(q)'
  <2>1. req'[q] = req[q] /\ links' = links
    BY <1>1, OthersStay DEF Tables
  <2>. QED
    BY <1>0, <2>1 DEF CalmOK, Conflicting
<1>2. ASSUME NEW p \in Requests, p # q, Commits(p) PROVE CalmOK(q)'
  <2>1. req[p].pc # "idle"
    BY <1>2 DEF Commits, Return, RegisterCommit
  <2>2. req'[q] = req[q] /\ req[q].pc = "idle"
    BY <1>2, <2>1, OthersStay DEF OneAtATime, Commits, Moves
  <2>. QED
    BY <2>2 DEF CalmOK
<1>3. CASE Moves(q) /\ UNCHANGED Tables
  BY <1>3, CalmMoves
<1>4. CASE Commits(q)
  BY <1>4, OverOK DEF Commits, CalmOK
<1>5. CASE \/ \E u \in Ids : SwitchOff(u) \/ SwitchOn(u)
           \/ \E x \in Unlinkers : Unlink(x)
           \/ UNCHANGED idVars
  <2>1. Same(q) /\ links' \subseteq links
    BY <1>5, AroundSame
  <2>. QED
    BY <1>0, <2>1 DEF CalmOK, Conflicting, Same
<1>. QED
  BY <1>1, <1>2, <1>3, <1>4, <1>5, HowStepsGo

LEMMA OneSubjectStep ==
    IdTypeOK /\ IndexInv /\ CalmInv /\ OneSubjectPerProvider /\ [Next]_idVars
      => OneSubjectPerProvider'
<1>. SUFFICES ASSUME IdTypeOK, IndexInv, CalmInv, OneSubjectPerProvider, [Next]_idVars
              PROVE  OneSubjectPerProvider'
  OBVIOUS
<1>1. ASSUME NEW q \in Requests, Commits(q) PROVE OneSubjectPerProvider'
  <2>1. CASE links' = links
    BY <2>1 DEF OneSubjectPerProvider
  <2>2. CASE req[q].pc = "return"
    <3>. PICK s \in Subjects, w \in Ids :
           /\ req[q].claims.subject = {s} /\ Owners(s) = {}
           /\ req[q].user \cup req[q].made = {w}
           /\ \/ req[q].made = {} /\ req[q].user = {w} /\ w \in People
              \/ req[q].made = {w} /\ req[q].user = {} /\ w \notin People
      BY <2>2, ReturnsOne DEF IndexInv, ShapeInv
    <3>1. links' = links \cup {Link(s, w)} /\ Link(s, w).user = w /\ Link(s, w).subject = s
      BY <1>1, <2>2, CommitFacts DEF IndexInv, Link
    <3>2. ASSUME NEW l \in links, l.user = w, l.subject.provider = s.provider PROVE FALSE
      <4>1. /\ l.subject \in Subjects /\ l.user \in People /\ w \in People
            /\ l = Link(l.subject, l.user)
        BY <3>2 DEF IdTypeOK, Link
      <4>2. ~Conflicting(q) /\ l.user \in req[q].user
        BY <2>2, <3>2, <4>1 DEF CalmInv, CalmOK
      <4>3. l.subject.uid = s.uid
        BY <3>2, <4>2 DEF Conflicting
      <4>4. l.subject = s
        BY <3>2, <4>1, <4>3 DEF Subjects
      <4>. QED
        BY <3>2, <4>1, <4>4 DEF Owners
    <3>. QED
      BY <3>1, <3>2 DEF OneSubjectPerProvider
  <2>. QED
    BY <1>1, <2>1, <2>2, CommitFacts DEF IndexInv
<1>2. CASE links' \subseteq links
  BY <1>2 DEF OneSubjectPerProvider
<1>3. ASSUME NEW u \in Ids, SwitchOff(u) \/ SwitchOn(u) PROVE links' \subseteq links
  BY <1>3 DEF SwitchOff, SwitchOn
<1>4. ASSUME NEW x \in Unlinkers, Unlink(x) PROVE links' \subseteq links
  BY <1>4 DEF Unlink, UnlinkCheck, UnlinkDelete, UnlinkFails
<1>. QED
  BY <1>1, <1>2, <1>3, <1>4, HowStepsGo DEF Tables, idVars

(* _has_conflicting_external_identity keeps one subject per person and     *)
(* provider as long as requests do not overlap; when they do it does not.  *)
THEOREM SerialLinksAgree == Spec /\ []OneAtATime => []OneSubjectPerProvider
<1>1. Init => CalmInv /\ OneSubjectPerProvider
  BY DEF Init, CalmInv, CalmOK, OneSubjectPerProvider, Idle
<1>. QED
  BY <1>1, CalmStep, OneSubjectStep, IndexAlways, PTL DEF Spec

-----------------------------------------------------------------------------
(* The directory that is promised, on its own. *)
DirectoryInv ==
    /\ mail \in [Ids -> SUBSET Emails] /\ external \subseteq Ids
    /\ \A s \in Subjects : Owned[s] \subseteq Ids
    /\ D!DirectoryWhole

LEMMA DirectoryStarts == D!DirectoryInit => DirectoryInv
<1>. SUFFICES ASSUME D!DirectoryInit PROVE DirectoryInv
  OBVIOUS
<1>1. Owned = [s \in Subjects |-> {}] /\ mail = [u \in Ids |-> {}] /\ external = {}
  BY DEF D!DirectoryInit, Owned
<1>. QED
  BY <1>1 DEF DirectoryInv, D!DirectoryWhole, Owned

LEMMA DirectoryStays ==
    DirectoryInv /\ [D!DirectoryNext]_(D!directoryVars) => DirectoryInv'
<1>. SUFFICES ASSUME DirectoryInv, [D!DirectoryNext]_(D!directoryVars) PROVE DirectoryInv'
  OBVIOUS
<1>. DEFINE Who == Owned
            Then == Owned'
            Whole(m, o, x) ==
              /\ m \in [Ids -> SUBSET Emails] /\ x \subseteq Ids
              /\ \A s \in Subjects : o[s] \subseteq Ids
              /\ \A u \in Ids : \A e \in m[u], f \in m[u] : e = f
              /\ \A u \in Ids, w \in Ids : m[u] \cap m[w] # {} => u = w
              /\ \A s \in Subjects : \A u \in o[s], w \in o[s] : u = w
              /\ \A s \in Subjects : \A u \in o[s] : m[u] # {}
              /\ \A u \in x : m[u] # {} /\ \E s \in Subjects : u \in o[s]
<1>1. Whole(mail, Who, external)
  BY DEF DirectoryInv, D!DirectoryWhole, Owned
<1>2. Whole(mail', Then, external') => DirectoryInv'
  BY DEF DirectoryInv, D!DirectoryWhole, Owned
<1>3. DOMAIN Who = Subjects
  BY DEF Owned
<1>4. ASSUME NEW u \in Ids, NEW e \in Emails, D!Join(u, e) PROVE Whole(mail', Then, external')
  <2>1. /\ mail[u] = {} /\ \A w \in Ids : e \notin mail[w]
        /\ mail' = [mail EXCEPT ![u] = {e}] /\ Then = Who /\ external' = external
    BY <1>4 DEF D!Join, D!Free, Owned
  <2>. HIDE DEF Who, Then
  <2>. QED
    BY <1>1, <2>1
<1>5. ASSUME NEW s \in Subjects, NEW u \in Ids, D!Bind(s, u) PROVE Whole(mail', Then, external')
  <2>1. /\ mail[u] # {} /\ Who[s] = {} /\ Then = [Who EXCEPT ![s] = {u}]
        /\ mail' = mail /\ external' = external
    BY <1>5 DEF D!Bind, Owned
  <2>. HIDE DEF Who, Then
  <2>. QED
    BY <1>1, <1>3, <2>1
<1>6. ASSUME NEW s \in Subjects, NEW u \in Ids, NEW e \in Emails, D!JoinBound(s, u, e)
      PROVE  Whole(mail', Then, external')
  <2>1. /\ mail[u] = {} /\ \A w \in Ids : e \notin mail[w]
        /\ mail' = [mail EXCEPT ![u] = {e}]
        /\ Who[s] = {} /\ Then = [Who EXCEPT ![s] = {u}]
        /\ external' = external \cup {u}
    BY <1>6 DEF D!JoinBound, D!Free, Owned
  <2>. HIDE DEF Who, Then
  <2>. QED
    BY <1>1, <1>3, <2>1
<1>7. ASSUME NEW s \in Subjects, D!Unbind(s) PROVE Whole(mail', Then, external')
  <2>1. /\ \A u \in Who[s] \cap external : \E t \in Subjects \ {s} : u \in Who[t]
        /\ Then = [Who EXCEPT ![s] = {}]
        /\ mail' = mail /\ external' = external
    BY <1>7 DEF D!Unbind, Owned
  <2>. HIDE DEF Who, Then
  <2>. QED
    BY <1>1, <1>3, <2>1
<1>8. ASSUME UNCHANGED D!directoryVars PROVE Whole(mail', Then, external')
  <2>1. mail' = mail /\ Then = Who /\ external' = external
    BY <1>8 DEF D!directoryVars, Owned
  <2>. HIDE DEF Who, Then
  <2>. QED
    BY <1>1, <2>1
<1>. DEFINE After == Whole(mail', Then, external')
<1>9. D!DirectoryNext => After
  BY <1>4, <1>5, <1>6, <1>7 DEF D!DirectoryNext
<1>10. UNCHANGED D!directoryVars => After
  BY <1>8
<1>. HIDE DEF After
<1>. QED
  BY <1>2, <1>9, <1>10 DEF After

(* The abstract directory is exclusive: one person to an address and to a  *)
(* subject, and nobody without a password is locked out.                   *)
LEMMA DirectoryStandsWhole == D!DirectorySpec => []D!DirectoryWhole
<1>1. DirectoryInv => D!DirectoryWhole
  BY DEF DirectoryInv
<1>. QED
  BY <1>1, DirectoryStarts, DirectoryStays, PTL DEF D!DirectorySpec

(* And so is the table of persons and links that racing callbacks and      *)
(* registrations keep: the promise is carried over by the refinement.      *)
THEOREM IdentityStaysWhole == Spec /\ []UnlinksApart => []D!DirectoryWhole
BY IdentityImplementsDirectory, DirectoryStandsWhole, PTL DEF ImplementsDirectory

-----------------------------------------------------------------------------
(* Who waits for whom: the guards of InsertPerson and InsertLink. *)
Waits(q) ==
    \/ req[q].pc \in {"person", "create"} /\ MailPending(q)
    \/ req[q].pc \in {"link", "personlink"} /\ SubjectPending(q)

LEMMA WaitersStand ==
    ASSUME NEW q \in Requests, Waits(q)
    PROVE  ~Work(q)
BY DEF Waits, Work, Lookup, Touch, ByEmail, CheckConflict, InsertLink, NewPerson, InsertPerson,
       Return, RegisterInsert, RegisterCommit

\* Some request in flight does not wait.
SomebodyWorks ==
    (\E q \in Requests : req[q].pc # "idle") =>
        \E q \in Requests : req[q].pc # "idle" /\ ~Waits(q)

\* Only a request with a row of its own makes others wait for an address.
LEMMA HoldersAreLate ==
    ASSUME IdTypeOK, ShapeInv, NEW p \in Requests, req[p].made # {}
    PROVE  req[p].pc \in {"personlink", "created", "return"}
<1>1. ShapeOK(p) /\ req[p].pc \in Steps
  BY DEF ShapeInv, IdTypeOK, RequestRecords
<1>. QED
  BY <1>1 DEF ShapeOK, Steps

(* No two requests wait for each other at the unique indexes, nor do more  *)
(* in a ring, although a self-registration inserts into two tables while   *)
(* holding what it has inserted: whoever has the subject is about to       *)
(* commit, and whoever has the address waits for nobody but that one.      *)
THEOREM RequestsNeverLock == Spec => []SomebodyWorks
<1>1. ASSUME IdTypeOK, IndexInv, NEW q \in Requests, req[q].pc # "idle"
      PROVE  \E p \in Requests : req[p].pc # "idle" /\ ~Waits(p)
  <2>1. ASSUME NEW r \in Requests, SubjectPending(r)
        PROVE  \E p \in Requests : req[p].pc # "idle" /\ ~Waits(p)
    <3>. PICK p \in Requests : req[p].pc = "return"
      BY <2>1 DEF SubjectPending
    <3>. QED
      BY DEF Waits
  <2>2. CASE MailPending(q)
    <3>. PICK p \in Requests : req[p].made # {}
      BY <2>2 DEF MailPending
    <3>1. req[p].pc \in {"personlink", "created", "return"}
      BY <1>1, HoldersAreLate DEF IndexInv
    <3>. QED
      BY <2>1, <3>1 DEF Waits
  <2>. QED
    BY <1>1, <2>1, <2>2 DEF Waits
<1>2. IdTypeOK /\ IndexInv => SomebodyWorks
  BY <1>1 DEF SomebodyWorks
<1>. QED
  BY <1>2, IndexAlways, PTL

=============================================================================
