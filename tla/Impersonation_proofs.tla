------------------------ MODULE Impersonation_proofs ------------------------
(***************************************************************************)
(* Proofs about impersonation, for any admins, people, organizations, rows *)
(* and requests, and with failures unless a theorem says otherwise.        *)
(***************************************************************************)
EXTENDS Impersonation, TLAPS

LEMMA TypedInit == Init => ImpTypeOK
<1>. SUFFICES ASSUME Init PROVE ImpTypeOK
  OBVIOUS
<1>1. NoRow \in RowRecords
  BY DEF NoRow, RowRecords
<1>2. Idle \in RequestRecords
  BY DEF Idle, RequestRecords, Steps
<1>. HIDE DEF RowRecords, RequestRecords, NoRow, Idle
<1>. QED
  BY <1>1, <1>2 DEF Init, ImpTypeOK

-----------------------------------------------------------------------------
(* What a step does to the record of its request, seen from the outside.   *)
LEMMA FinishTyped ==
    ASSUME ImpTypeOK, NEW q \in Requests, Finish(q)
    PROVE  req' \in [Requests -> RequestRecords]
<1>1. Idle \in RequestRecords
  BY DEF Idle, RequestRecords, Steps
<1>. HIDE DEF Idle, RequestRecords
<1>. QED
  BY <1>1 DEF Finish, ImpTypeOK

LEMMA EndRowTyped ==
    ASSUME ImpTypeOK, NEW R, NEW who \in SUBSET (Admins \cup Users), EndRow(R, who)
    PROVE  row' \in [Rows -> RowRecords]
<1>1. ASSUME NEW r \in Rows PROVE [row[r] EXCEPT !.by = who] \in RowRecords /\ row[r] \in RowRecords
  BY DEF ImpTypeOK, RowRecords
<1>. HIDE DEF RowRecords
<1>. QED
  BY <1>1 DEF EndRow

LEMMA ActiveForTyped == \A A : ActiveFor(A) \subseteq Rows
BY DEF ActiveFor, Active, Exists

LEMMA TargetTyped == ImpTypeOK => \A r \in Rows : Target(r) \subseteq Users
<1>. SUFFICES ASSUME ImpTypeOK, NEW r \in Rows, NEW m \in row[r].m PROVE m.user \in Users
  BY DEF Target
<1>1. row[r].m \subseteq Memberships
  BY DEF ImpTypeOK, RowRecords
<1>. QED
  BY <1>1, PeopleAssumption

LEMMA TypedStep == ImpTypeOK /\ [Next]_impVars => ImpTypeOK'
<1>. SUFFICES ASSUME ImpTypeOK, [Next]_impVars PROVE ImpTypeOK'
  OBVIOUS
<1>. USE DEF ImpTypeOK
<1>0. \A q \in Requests : req[q] \in RequestRecords
  OBVIOUS
<1>1. ASSUME NEW q \in Requests, NEW a \in Admins, NEW m \in Memberships, StartCheck(q, a, m)
      PROVE  ImpTypeOK'
  <2>. DEFINE r == [Idle EXCEPT !.pc = "insert", !.admin = {a}, !.m = {m}]
  <2>1. r \in RequestRecords
    BY DEF Idle, RequestRecords, Steps
  <2>2. req' = [req EXCEPT ![q] = r] /\ UNCHANGED <<row, token, sess>>
    BY <1>1 DEF StartCheck
  <2>. HIDE DEF r
  <2>. QED
    BY <2>1, <2>2
<1>2. ASSUME NEW q \in Requests, StartInsert(q) PROVE ImpTypeOK'
  <2>1. CASE Finish(q) /\ UNCHANGED row
    BY <1>2, <2>1, FinishTyped DEF StartInsert
  <2>2. ASSUME NEW r \in Rows \ Exists,
               row' = [row EXCEPT ![r] = [admin |-> req[q].admin, m |-> req[q].m, by |-> {}]],
               req' = [req EXCEPT ![q].pc = "mint", ![q].row = {r}]
        PROVE  ImpTypeOK'
    <3>. DEFINE n == [req[q] EXCEPT !.pc = "mint", !.row = {r}]
                w == [admin |-> req[q].admin, m |-> req[q].m, by |-> {}]
    <3>1. n \in RequestRecords /\ w \in RowRecords
      BY <1>0 DEF RequestRecords, RowRecords, Steps
    <3>2. req' = [req EXCEPT ![q] = n] /\ row' = [row EXCEPT ![r] = w]
      BY <2>2
    <3>3. UNCHANGED <<token, sess>>
      BY <1>2 DEF StartInsert
    <3>. HIDE DEF n, w
    <3>. QED
      BY <3>1, <3>2, <3>3
  <2>. QED
    BY <1>2, <2>1, <2>2 DEF StartInsert
<1>3. ASSUME NEW q \in Requests, Mint(q) PROVE ImpTypeOK'
  BY <1>3, FinishTyped DEF Mint
<1>4. ASSUME NEW q \in Requests, MintRefused(q) PROVE ImpTypeOK'
  <2>. DEFINE n == [req[q] EXCEPT !.pc = "rollback"]
  <2>1. n \in RequestRecords
    BY <1>0 DEF RequestRecords, Steps
  <2>2. req' = [req EXCEPT ![q] = n] /\ UNCHANGED <<row, token, sess>>
    BY <1>4 DEF MintRefused
  <2>. HIDE DEF n
  <2>. QED
    BY <2>1, <2>2
<1>5. ASSUME NEW q \in Requests, Rollback(q) PROVE ImpTypeOK'
  <2>1. req[q].admin \in SUBSET (Admins \cup Users)
    BY <1>0 DEF RequestRecords
  <2>. QED
    BY <1>5, <2>1, FinishTyped, EndRowTyped DEF Rollback
<1>6. ASSUME NEW q \in Requests, NEW a \in Admins, NEW h \in Orgs, NEW view \in TenantViews,
             Gate(q, a, h, view)
      PROVE  ImpTypeOK'
  <2>1. CASE UNCHANGED <<row, token, req>> /\ sess' = [sess EXCEPT ![<<a, h>>] = {}]
    BY <2>1
  <2>2. CASE \E D \in {{}, ActiveFor({a})} :
               /\ UNCHANGED <<row, token, sess>>
               /\ req' = [req EXCEPT ![q] = [Idle EXCEPT !.pc = view, !.admin = {a},
                                                         !.host = {h}, !.due = D]]
    <3>. PICK D \in {{}, ActiveFor({a})} :
           /\ UNCHANGED <<row, token, sess>>
           /\ req' = [req EXCEPT ![q] = [Idle EXCEPT !.pc = view, !.admin = {a},
                                                     !.host = {h}, !.due = D]]
      BY <2>2
    <3>. DEFINE n == [Idle EXCEPT !.pc = view, !.admin = {a}, !.host = {h}, !.due = D]
    <3>1. view \in Steps
      BY DEF Steps
    <3>2. n \in RequestRecords
      BY <3>1, ActiveForTyped DEF Idle, RequestRecords
    <3>3. req' = [req EXCEPT ![q] = n]
      OBVIOUS
    <3>. HIDE DEF n
    <3>. QED
      BY <3>2, <3>3
  <2>. QED
    BY <1>6, <2>1, <2>2 DEF Gate
<1>7. ASSUME NEW q \in Requests, Consume(q) PROVE ImpTypeOK'
  <2>1. ASSUME NEW r \in Rows PROVE {[user |-> u, row |-> r] : u \in Target(r)} \in SUBSET SessionRecords
    BY TargetTyped DEF SessionRecords
  <2>2. sess' \in [Admins \X Orgs -> SUBSET SessionRecords]
    BY <1>7, <2>1 DEF Consume
  <2>3. token' \in [Rows -> {"none", "live", "gone"}]
    BY <1>7 DEF Consume
  <2>. QED
    BY <1>7, <2>2, <2>3, FinishTyped DEF Consume
<1>8. ASSUME NEW q \in Requests, Page(q) \/ RequestFails(q) PROVE ImpTypeOK'
  BY <1>8, FinishTyped DEF Page, RequestFails
<1>9. ASSUME NEW q \in Requests, EndRead(q) PROVE ImpTypeOK'
  <2>. DEFINE who == IF req[q].pc = "logout" THEN UNION {Target(r) : r \in req[q].due}
                                             ELSE req[q].admin
              n == [req[q] EXCEPT !.pc = "ending", !.row = ActiveFor(req[q].admin), !.by = who]
  <2>1. req[q].due \subseteq Rows /\ req[q].admin \subseteq Admins
    BY <1>0 DEF RequestRecords
  <2>2. who \in SUBSET (Admins \cup Users)
    BY <2>1, TargetTyped
  <2>3. req' = [req EXCEPT ![q] = n] /\ UNCHANGED <<row, token, sess>>
    BY <1>9 DEF EndRead
  <2>. HIDE DEF who
  <2>4. n \in RequestRecords
    BY <1>0, <2>2, ActiveForTyped DEF RequestRecords, Steps
  <2>. HIDE DEF n
  <2>. QED
    BY <2>3, <2>4
<1>10. ASSUME NEW q \in Requests, EndIt(q) PROVE ImpTypeOK'
  <2>. DEFINE n == [req[q] EXCEPT !.pc = "flush"]
  <2>1. n \in RequestRecords /\ req[q].by \in SUBSET (Admins \cup Users)
    BY <1>0 DEF RequestRecords, Steps
  <2>2. req' = [req EXCEPT ![q] = n]
    BY <1>10 DEF EndIt
  <2>. HIDE DEF n
  <2>. QED
    BY <1>10, <2>1, <2>2, EndRowTyped DEF EndIt
<1>11. ASSUME NEW q \in Requests, Flush(q) PROVE ImpTypeOK'
  BY <1>11, FinishTyped DEF Flush
<1>12. ASSUME NEW s \in Admins, NEW r \in Rows, ConsoleEnd(s, r) PROVE ImpTypeOK'
  <2>1. {s} \in SUBSET (Admins \cup Users)
    OBVIOUS
  <2>. QED
    BY <1>12, <2>1, EndRowTyped DEF ConsoleEnd
<1>13. ASSUME NEW r \in Rows, TokenDies(r) PROVE ImpTypeOK'
  BY <1>13 DEF TokenDies
<1>14. CASE UNCHANGED impVars
  BY <1>14 DEF impVars
<1>. QED
  BY <1>1, <1>2, <1>3, <1>4, <1>5, <1>6, <1>7, <1>8, <1>9, <1>10, <1>11, <1>12, <1>13, <1>14
  DEF Next, RequestStep

(* The rows, tokens, sessions and requests stay well-formed, whatever      *)
(* requests are in flight and however they fail.                           *)
THEOREM ImpTyped == Spec => []ImpTypeOK
<1>. QED
  BY TypedInit, TypedStep, PTL DEF Spec

-----------------------------------------------------------------------------
(* Rows change in three ways only: one is inserted for a request whose     *)
(* admin has none, some are ended, or nothing happens to them.             *)
InsertedBy(q, r) ==
    /\ req[q].pc = "insert"
    /\ ~Clash(req[q].admin)
    /\ row' = [row EXCEPT ![r] = [admin |-> req[q].admin, m |-> req[q].m, by |-> {}]]
    /\ req' = [req EXCEPT ![q].pc = "mint", ![q].row = {r}]
    /\ UNCHANGED token

RowsUnchanged == row' = row

RowsEnded ==
    \E R \in SUBSET Rows, who \in SUBSET (Admins \cup Users) : EndRow(R, who)

LEMMA HowRowsChange ==
    ASSUME ImpTypeOK, [Next]_impVars
    PROVE  \/ RowsUnchanged
           \/ RowsEnded
           \/ \E q \in Requests, r \in Rows \ Exists : InsertedBy(q, r)
<1>. DEFINE Goal == \/ RowsUnchanged
                    \/ RowsEnded
                    \/ \E q \in Requests, r \in Rows \ Exists : InsertedBy(q, r)
<1>. SUFFICES Goal
  OBVIOUS
<1>0. \A q \in Requests :
        /\ req[q].row \subseteq Rows
        /\ req[q].admin \subseteq Admins
        /\ req[q].by \subseteq Admins \cup Users
  BY DEF ImpTypeOK, RequestRecords
<1>1. ASSUME NEW q \in Requests, StartInsert(q) PROVE Goal
  BY <1>1 DEF StartInsert, InsertedBy, RowsUnchanged
<1>2. ASSUME NEW q \in Requests, Rollback(q) \/ EndIt(q) PROVE Goal
  BY <1>0, <1>2 DEF Rollback, EndIt, RowsEnded
<1>3. ASSUME NEW a \in Admins, NEW r \in Rows, ConsoleEnd(a, r) PROVE Goal
  <2>1. {r} \in SUBSET Rows /\ {a} \in SUBSET (Admins \cup Users)
    OBVIOUS
  <2>. QED
    BY <1>3, <2>1, Zenon DEF ConsoleEnd, RowsEnded
<1>4. ASSUME NEW q \in Requests,
             \/ \E a \in Admins, m \in Memberships : StartCheck(q, a, m)
             \/ \E a \in Admins, h \in Orgs, view \in TenantViews : Gate(q, a, h, view)
             \/ Mint(q) \/ MintRefused(q) \/ Consume(q) \/ Page(q) \/ EndRead(q)
             \/ Flush(q) \/ RequestFails(q)
      PROVE  Goal
  BY <1>4 DEF StartCheck, Gate, Mint, MintRefused, Consume, Page, EndRead, Flush,
              RequestFails, RowsUnchanged
<1>5. ASSUME NEW r \in Rows, TokenDies(r) PROVE Goal
  BY <1>5 DEF TokenDies, RowsUnchanged
<1>6. CASE UNCHANGED impVars
  BY <1>6 DEF impVars, RowsUnchanged
<1>. HIDE DEF Goal
<1>. QED
  BY <1>1, <1>2, <1>3, <1>4, <1>5, <1>6, Zenon DEF Next, RequestStep

(* So a row that exists keeps its admin and its membership, an ended one   *)
(* keeps everything, and none becomes active again.                        *)
LEMMA RowsGoForward ==
    ASSUME ImpTypeOK, [Next]_impVars, NEW r \in Exists
    PROVE  /\ r \in Exists'
           /\ row'[r].admin = row[r].admin
           /\ row'[r].m = row[r].m
           /\ r \in Active' => r \in Active
           /\ r \notin Active => row'[r] = row[r]
<1>. r \in Rows /\ row[r] \in RowRecords
  BY DEF Exists, ImpTypeOK
<1>1. CASE RowsUnchanged
  BY <1>1 DEF RowsUnchanged, Exists, Active
<1>2. CASE RowsEnded
  <2>. PICK R \in SUBSET Rows, who \in SUBSET (Admins \cup Users) : EndRow(R, who)
    BY <1>2 DEF RowsEnded
  <2>1. row'[r] = IF r \in R \cap Active THEN [row[r] EXCEPT !.by = who] ELSE row[r]
    BY DEF EndRow
  <2>2. CASE r \in R \cap Active
    <3>1. row'[r].admin = row[r].admin /\ row'[r].m = row[r].m
      BY <2>1, <2>2 DEF RowRecords
    <3>. QED
      BY <2>2, <3>1 DEF Exists
  <2>3. CASE r \notin R \cap Active
    BY <2>1, <2>3 DEF Exists, Active
  <2>. QED
    BY <2>2, <2>3
<1>3. ASSUME NEW q \in Requests, NEW n \in Rows \ Exists, InsertedBy(q, n)
      PROVE  row'[r] = row[r]
  BY <1>3 DEF InsertedBy, ImpTypeOK
<1>4. CASE row'[r] = row[r]
  BY <1>4 DEF Exists, Active
<1>. QED
  BY <1>1, <1>2, <1>3, <1>4, HowRowsChange

(* However many requests start, end, roll back and log out at once: the    *)
(* record of an ended impersonation is never written again, so the first   *)
(* to end it is the one on record.                                         *)
THEOREM EndedStays == Spec => EndedIsFinal
<1>1. ASSUME ImpTypeOK, [Next]_impVars
      PROVE  [\A r \in Exists \ Active : row'[r] = row[r]]_impVars
  BY <1>1, RowsGoForward
<1>. QED
  BY <1>1, ImpTyped, PTL DEF Spec, EndedIsFinal

-----------------------------------------------------------------------------
LEMMA OneActiveStep ==
    ImpTypeOK /\ OneActivePerAdmin /\ [Next]_impVars => OneActivePerAdmin'
<1>. SUFFICES ASSUME ImpTypeOK, OneActivePerAdmin, [Next]_impVars,
                     NEW r \in Active', NEW s \in Active', row'[r].admin = row'[s].admin
              PROVE  r = s
  BY DEF OneActivePerAdmin
<1>1. CASE r \in Exists /\ s \in Exists
  BY <1>1, RowsGoForward DEF OneActivePerAdmin
<1>2. ASSUME NEW x \in Active', NEW y \in Active', row'[x].admin = row'[y].admin, x \notin Exists
      PROVE  x = y
  <2>1. x \in Rows /\ y \in Rows /\ row[x].admin = {} /\ row'[x].admin # {}
    BY <1>2 DEF Active, Exists
  <2>2. ~RowsUnchanged
    BY <2>1 DEF RowsUnchanged
  <2>3. ~RowsEnded
    <3>. SUFFICES ASSUME RowsEnded PROVE FALSE
      OBVIOUS
    <3>. PICK R \in SUBSET Rows, who \in SUBSET (Admins \cup Users) : EndRow(R, who)
      BY DEF RowsEnded
    <3>1. row'[x] = row[x]
      BY <1>2, <2>1 DEF EndRow, Active
    <3>. QED
      BY <2>1, <3>1
  <2>4. PICK q \in Requests, n \in Rows \ Exists : InsertedBy(q, n)
    BY <2>2, <2>3, HowRowsChange
  <2>5. \A z \in Rows \ {n} : row'[z] = row[z]
    BY <2>4 DEF InsertedBy, ImpTypeOK
  <2>6. x = n
    BY <2>1, <2>5
  <2>7. row'[n] = [admin |-> req[q].admin, m |-> req[q].m, by |-> {}]
    BY <2>4 DEF InsertedBy, ImpTypeOK
  <2>8. CASE y # n
    <3>1. y \in Active /\ row[y].admin = req[q].admin
      BY <1>2, <2>1, <2>5, <2>6, <2>7, <2>8 DEF Active, Exists
    <3>2. ActiveFor(req[q].admin) # {}
      BY <3>1 DEF ActiveFor
    <3>. QED
      BY <2>4, <3>2 DEF InsertedBy, Clash
  <2>. QED
    BY <2>6, <2>8
<1>. QED
  BY <1>1, <1>2

(* B.7: whatever races, an admin has at most one active impersonation.     *)
THEOREM OneActive == Spec => []OneActivePerAdmin
<1>1. Init => OneActivePerAdmin
  BY DEF Init, OneActivePerAdmin, Active, Exists, NoRow
<1>. QED
  BY <1>1, OneActiveStep, ImpTyped, PTL DEF Spec

-----------------------------------------------------------------------------
(* A step moves one request.  Every other one, and one that it finishes,   *)
(* needs no further thought.                                               *)
Moves(p) ==
    \/ \E a \in Admins, m \in Memberships : StartCheck(p, a, m)
    \/ \E r \in Rows \ Exists : InsertedBy(p, r)
    \/ MintRefused(p)
    \/ \E a \in Admins, h \in Orgs, view \in TenantViews : Gate(p, a, h, view)
    \/ EndRead(p)
    \/ EndIt(p)

LEMMA HowRequestsChange ==
    ASSUME ImpTypeOK, [Next]_impVars, NEW p \in Requests
    PROVE  req'[p] = req[p] \/ req'[p] = Idle \/ Moves(p)
<1>. DEFINE Goal == req'[p] = req[p] \/ req'[p] = Idle \/ Moves(p)
<1>. SUFFICES Goal
  OBVIOUS
<1>. USE DEF ImpTypeOK
<1>1. ASSUME NEW q \in Requests, \E a \in Admins, m \in Memberships : StartCheck(q, a, m)
      PROVE  Goal
  BY <1>1 DEF StartCheck, Moves
<1>2. ASSUME NEW q \in Requests, StartInsert(q) PROVE Goal
  BY <1>2 DEF StartInsert, Finish, InsertedBy, Moves
<1>3. ASSUME NEW q \in Requests,
             \/ Mint(q) \/ Rollback(q) \/ Consume(q) \/ Page(q) \/ Flush(q) \/ RequestFails(q)
      PROVE  Goal
  BY <1>3 DEF Mint, Rollback, Consume, Page, Flush, RequestFails, Finish
<1>4. ASSUME NEW q \in Requests, MintRefused(q) PROVE Goal
  BY <1>4 DEF MintRefused, Moves
<1>5. ASSUME NEW q \in Requests,
             \E a \in Admins, h \in Orgs, view \in TenantViews : Gate(q, a, h, view)
      PROVE  Goal
  BY <1>5 DEF Gate, Moves
<1>6. ASSUME NEW q \in Requests, EndRead(q) PROVE Goal
  BY <1>6 DEF EndRead, Moves
<1>7. ASSUME NEW q \in Requests, EndIt(q) PROVE Goal
  BY <1>7 DEF EndIt, Moves
<1>8. CASE (\E s \in Admins, r \in Rows : ConsoleEnd(s, r)) \/ (\E r \in Rows : TokenDies(r))
  BY <1>8 DEF ConsoleEnd, TokenDies
<1>9. CASE UNCHANGED impVars
  BY <1>9 DEF impVars
<1>. HIDE DEF Goal
<1>. QED
  BY <1>1, <1>2, <1>3, <1>4, <1>5, <1>6, <1>7, <1>8, <1>9, Zenon DEF Next, RequestStep

-----------------------------------------------------------------------------
(* A row, and the request that inserts it, names one admin and one         *)
(* membership.                                                             *)
Named(x) == \E a \in Admins, m \in Memberships : x.admin = {a} /\ x.m = {m}

NamesInv ==
    /\ \A r \in Exists : Named(row[r])
    /\ \A q \in Requests : req[q].pc \in {"insert", "mint", "rollback"} => Named(req[q])

LEMMA NamesStep == ImpTypeOK /\ NamesInv /\ [Next]_impVars => NamesInv'
<1>. SUFFICES ASSUME ImpTypeOK, NamesInv, [Next]_impVars PROVE NamesInv'
  OBVIOUS
<1>1. ASSUME NEW r \in Exists' PROVE Named(row'[r])
  <2>1. CASE r \in Exists
    BY <2>1, RowsGoForward DEF NamesInv, Named
  <2>2. CASE r \notin Exists
    <3>1. r \in Rows /\ row[r].admin = {} /\ row'[r].admin # {}
      BY <1>1, <2>2 DEF Exists
    <3>2. ~RowsUnchanged
      BY <3>1 DEF RowsUnchanged
    <3>3. ~RowsEnded
      BY <2>2, <3>1 DEF RowsEnded, EndRow, Active
    <3>4. PICK q \in Requests, n \in Rows \ Exists : InsertedBy(q, n)
      BY <3>2, <3>3, HowRowsChange
    <3>5. row'[n] = [admin |-> req[q].admin, m |-> req[q].m, by |-> {}] /\ r = n
      BY <3>1, <3>4 DEF InsertedBy, ImpTypeOK
    <3>6. Named(req[q])
      BY <3>4 DEF InsertedBy, NamesInv
    <3>. QED
      BY <3>5, <3>6 DEF Named
  <2>. QED
    BY <2>1, <2>2
<1>2. ASSUME NEW p \in Requests, req'[p].pc \in {"insert", "mint", "rollback"}
      PROVE  Named(req'[p])
  <2>1. CASE req'[p] = req[p]
    BY <1>2, <2>1 DEF NamesInv
  <2>2. CASE req'[p] = Idle
    BY <1>2, <2>2 DEF Idle
  <2>3. ASSUME NEW a \in Admins, NEW m \in Memberships, StartCheck(p, a, m) PROVE Named(req'[p])
    <3>1. req'[p].admin = {a} /\ req'[p].m = {m}
      BY <2>3 DEF StartCheck, Idle, ImpTypeOK
    <3>. QED
      BY <3>1 DEF Named
  <2>4. CASE MintRefused(p) \/ \E r \in Rows \ Exists : InsertedBy(p, r)
    <3>1. req'[p].admin = req[p].admin /\ req'[p].m = req[p].m
      BY <2>4 DEF MintRefused, InsertedBy, ImpTypeOK, RequestRecords
    <3>2. Named(req[p])
      BY <2>4 DEF MintRefused, InsertedBy, NamesInv
    <3>. QED
      BY <3>1, <3>2 DEF Named
  <2>5. CASE EndRead(p) \/ EndIt(p)
    BY <1>2, <2>5 DEF EndRead, EndIt, ImpTypeOK, RequestRecords
  <2>6. ASSUME NEW a \in Admins, NEW h \in Orgs, NEW view \in TenantViews, Gate(p, a, h, view)
        PROVE  Named(req'[p])
    BY <1>2, <2>6 DEF Gate, Idle, ImpTypeOK, TenantViews, NamesInv
  <2>. QED
    BY <2>1, <2>2, <2>3, <2>4, <2>5, <2>6, HowRequestsChange DEF Moves
<1>. QED
  BY <1>1, <1>2 DEF NamesInv

LEMMA NamesAlways == Spec => [](ImpTypeOK /\ NamesInv)
<1>1. Init => NamesInv
  BY DEF Init, NamesInv, Exists, NoRow, Idle
<1>. QED
  BY <1>1, NamesStep, ImpTyped, PTL DEF Spec

-----------------------------------------------------------------------------
(* A logout ends the row that it reads after the middleware has let it     *)
(* through, and the property is about the row that let it through.  What   *)
(* links the two: both belong to the request's admin, who has no other.    *)
DueOK(q) ==
    /\ \A r \in req[q].due : r \in Exists /\ row[r].admin = req[q].admin
    /\ req[q].pc = "ending" =>
         /\ req[q].due \cap Active \subseteq req[q].row
         /\ req[q].due # {} => req[q].by # {}
    /\ req[q].pc = "flush" => req[q].due \cap Active = {}
    /\ req[q].pc = "idle" => req[q].due = {}

DueInv == \A q \in Requests : DueOK(q)

\* Rows that are due stay the admin's, and none of them comes alive.
LEMMA DueRows ==
    ASSUME ImpTypeOK, [Next]_impVars, NEW q \in Requests, DueOK(q)
    PROVE  \A r \in req[q].due :
             /\ r \in Exists' /\ row'[r].admin = req[q].admin
             /\ r \in Active' => r \in Active
BY RowsGoForward DEF DueOK

LEMMA DueStep == ImpTypeOK /\ NamesInv /\ DueInv /\ [Next]_impVars => DueInv'
<1>. SUFFICES ASSUME ImpTypeOK, NamesInv, DueInv, [Next]_impVars, NEW p \in Requests
              PROVE  DueOK(p)'
  BY DEF DueInv
<1>. USE DEF ImpTypeOK
<1>0. DueOK(p) /\ req[p] \in RequestRecords
  BY DEF DueInv
<1>1. CASE req'[p] = req[p]
  BY <1>0, <1>1, DueRows DEF DueOK
<1>2. CASE req'[p] = Idle
  BY <1>2 DEF Idle, DueOK
<1>3. ASSUME NEW a \in Admins, NEW m \in Memberships, StartCheck(p, a, m) PROVE DueOK(p)'
  <2>1. req'[p].due = {} /\ req'[p].pc = "insert"
    BY <1>3 DEF StartCheck, Idle
  <2>. QED
    BY <2>1 DEF DueOK
<1>4. CASE MintRefused(p) \/ \E r \in Rows \ Exists : InsertedBy(p, r)
  <2>1. /\ req'[p].pc \in {"mint", "rollback"}
        /\ req'[p].due = req[p].due /\ req'[p].admin = req[p].admin
    BY <1>0, <1>4 DEF MintRefused, InsertedBy, RequestRecords
  <2>. QED
    BY <1>0, <2>1, DueRows DEF DueOK
<1>5. ASSUME NEW a \in Admins, NEW h \in Orgs, NEW view \in TenantViews, Gate(p, a, h, view),
             req'[p] # req[p]
      PROVE  DueOK(p)'
  <2>1. /\ req'[p].due \subseteq ActiveFor({a})
        /\ req'[p].admin = {a}
        /\ req'[p].pc \in TenantViews
        /\ row' = row
    BY <1>5 DEF Gate, Idle
  <2>2. \A r \in ActiveFor({a}) : r \in Exists /\ row[r].admin = {a}
    BY DEF ActiveFor, Active
  <2>. QED
    BY <2>1, <2>2 DEF DueOK, Exists, TenantViews
<1>6. CASE EndRead(p)
  <2>. DEFINE by == req'[p].by
  <2>1. /\ req'[p].pc = "ending" /\ row' = row
        /\ req'[p].row = ActiveFor(req[p].admin)
        /\ req'[p].due = req[p].due /\ req'[p].admin = req[p].admin
        /\ by = IF req[p].pc = "logout" THEN UNION {Target(r) : r \in req[p].due} ELSE req[p].admin
    BY <1>0, <1>6 DEF EndRead, RequestRecords
  <2>2. req[p].due \cap Active \subseteq ActiveFor(req[p].admin)
    BY <1>0 DEF DueOK, ActiveFor
  <2>3. ASSUME NEW r \in req[p].due PROVE req[p].admin # {} /\ Target(r) # {}
    <3>1. r \in Exists /\ row[r].admin = req[p].admin
      BY <1>0, <2>3 DEF DueOK
    <3>2. PICK a \in Admins, m \in Memberships : row[r].admin = {a} /\ row[r].m = {m}
      BY <3>1 DEF NamesInv, Named
    <3>3. m.user \in Target(r)
      BY <3>2 DEF Target
    <3>. QED
      BY <3>1, <3>2, <3>3
  <2>4. ASSUME NEW r \in req[p].due PROVE by # {}
    <3>1. req[p].admin # {} /\ Target(r) # {}
      BY <2>3
    <3>2. Target(r) \subseteq UNION {Target(x) : x \in req[p].due}
      OBVIOUS
    <3>. QED
      BY <2>1, <3>1, <3>2
  <2>5. Exists' = Exists /\ Active' = Active
    BY <2>1 DEF Exists, Active
  <2>. QED
    BY <1>0, <2>1, <2>2, <2>4, <2>5 DEF DueOK
<1>7. CASE EndIt(p)
  <2>1. req'[p].pc = "flush" /\ req'[p].due = req[p].due /\ req'[p].admin = req[p].admin
    BY <1>0, <1>7 DEF EndIt, RequestRecords
  <2>2. ASSUME NEW r \in req[p].due, r \in Active' PROVE FALSE
    <3>1. r \in Rows /\ r \in Active
      BY <1>0, <2>2, DueRows DEF Active, Exists
    <3>2. r \in req[p].row /\ req[p].by # {}
      BY <1>0, <1>7, <2>2, <3>1 DEF DueOK, EndIt
    <3>3. row'[r] = [row[r] EXCEPT !.by = req[p].by] /\ row[r] \in RowRecords
      BY <1>7, <3>1, <3>2 DEF EndIt, EndRow
    <3>4. row'[r].by = req[p].by
      BY <3>3 DEF RowRecords
    <3>. QED
      BY <2>2, <3>2, <3>4 DEF Active
  <2>. QED
    BY <1>0, <2>1, <2>2, DueRows DEF DueOK
<1>. QED
  BY <1>1, <1>2, <1>3, <1>4, <1>5, <1>6, <1>7, HowRequestsChange DEF Moves

LEMMA DueAlways == Spec => []DueInv
<1>1. Init => DueInv
  BY DEF Init, DueInv, DueOK, Idle
<1>. QED
  BY <1>1, DueStep, NamesAlways, PTL DEF Spec

(* A tenant logout, whatever starts and ends race with it, does not flush  *)
(* the session while the impersonation that let it through is active.      *)
THEOREM LogoutEndsIt == Spec => []LogoutEnds
<1>1. DueInv => LogoutEnds
  BY DEF DueInv, DueOK, LogoutEnds
<1>. QED
  BY <1>1, DueAlways, PTL

-----------------------------------------------------------------------------
LEMMA SessionStep ==
    ImpTypeOK /\ NamesInv /\ SessionHasItsRow /\ [Next]_impVars => SessionHasItsRow'
<1>. SUFFICES ASSUME ImpTypeOK, NamesInv, SessionHasItsRow, [Next]_impVars,
                     NEW a \in Admins, NEW h \in Orgs, NEW s \in sess'[<<a, h>>]
              PROVE  (row[s.row].admin = {a} /\ Target(s.row) = {s.user} /\ Tenant(s.row) = {h})'
  BY DEF SessionHasItsRow
<1>. USE DEF ImpTypeOK
<1>1. CASE s \in sess[<<a, h>>]
  <2>0. \A x \in sess[<<a, h>>] :
          row[x.row].admin = {a} /\ Target(x.row) = {x.user} /\ Tenant(x.row) = {h}
    BY DEF SessionHasItsRow
  <2>1. row[s.row].admin = {a} /\ Target(s.row) = {s.user} /\ Tenant(s.row) = {h}
    BY <1>1, <2>0
  <2>r. s.row \in Rows
    BY <1>1 DEF SessionRecords
  <2>2. s.row \in Exists
    BY <2>1, <2>r DEF Exists
  <2>. QED
    BY <2>1, <2>2, RowsGoForward DEF Target, Tenant
<1>2. ASSUME NEW q \in Requests, Consume(q), s \notin sess[<<a, h>>]
      PROVE  (row[s.row].admin = {a} /\ Target(s.row) = {s.user} /\ Tenant(s.row) = {h})'
  <2>1. PICK r \in Rows :
          /\ ForThisHost(r, q)
          /\ sess' = [b \in Admins \X Orgs |->
                        IF b \in req[q].admin \X req[q].host
                        THEN {[user |-> u, row |-> r] : u \in Target(r)} ELSE sess[b]]
    BY <1>2, Zenon DEF Consume
  <2>2. /\ a \in req[q].admin /\ h \in req[q].host
        /\ s \in {[user |-> u, row |-> r] : u \in Target(r)}
    BY <1>2, <2>1
  <2>3. s.user \in Target(r) /\ s.row = r /\ row' = row
    BY <1>2, <2>2 DEF Consume
  <2>4. r \in Exists /\ a \in row[r].admin /\ h \in Tenant(r)
    BY <2>1, <2>2 DEF ForThisHost, Exists
  <2>5. PICK x \in Admins, m \in Memberships : row[r].admin = {x} /\ row[r].m = {m}
    BY <2>4 DEF NamesInv, Named
  <2>6. Target(r) = {m.user} /\ Tenant(r) = {m.org}
    BY <2>5 DEF Target, Tenant
  <2>. QED
    BY <2>3, <2>4, <2>5, <2>6 DEF Target, Tenant
<1>3. ASSUME NEW q \in Requests,
             \/ \E x \in Admins, g \in Orgs, view \in TenantViews : Gate(q, x, g, view)
             \/ Flush(q)
      PROVE  s \in sess[<<a, h>>]
  BY <1>3 DEF Gate, Flush
<1>4. CASE sess' = sess
  BY <1>1, <1>4
<1>5. ASSUME NEW q \in Requests,
             \/ \E x \in Admins, m \in Memberships : StartCheck(q, x, m)
             \/ StartInsert(q) \/ Mint(q) \/ MintRefused(q) \/ Rollback(q) \/ Page(q)
             \/ EndRead(q) \/ EndIt(q) \/ RequestFails(q)
      PROVE  sess' = sess
  BY <1>5 DEF StartCheck, StartInsert, Mint, MintRefused, Rollback, Page, EndRead, EndIt,
              RequestFails
<1>6. CASE \/ \E x \in Admins, r \in Rows : ConsoleEnd(x, r)
           \/ \E r \in Rows : TokenDies(r)
           \/ UNCHANGED impVars
  BY <1>4, <1>6 DEF ConsoleEnd, TokenDies, impVars
<1>. QED
  BY <1>1, <1>2, <1>3, <1>4, <1>5, <1>6, Zenon DEF Next, RequestStep

(* A browser is logged in on a tenant host only as the person, and in the  *)
(* organization, that its own admin's impersonation was written for.       *)
THEOREM SessionsHaveRows == Spec => []SessionHasItsRow
<1>1. Init => SessionHasItsRow
  BY DEF Init, SessionHasItsRow
<1>. QED
  BY <1>1, SessionStep, NamesAlways, PTL DEF Spec

-----------------------------------------------------------------------------
(* Row r's start is still being served.                                    *)
Served(r) == \E q \in Requests : req[q].pc \in {"mint", "rollback"} /\ r \in req[q].row

\* While nothing fails, only these take such a request further.
LEMMA ServedMoves ==
    ASSUME ~Faults, ImpTypeOK, [Next]_impVars,
           NEW q \in Requests, req[q].pc \in {"mint", "rollback"}
    PROVE  req'[q] = req[q] \/ Mint(q) \/ MintRefused(q) \/ Rollback(q)
<1>. DEFINE Goal == req'[q] = req[q] \/ Mint(q) \/ MintRefused(q) \/ Rollback(q)
<1>. SUFFICES Goal
  OBVIOUS
<1>. USE DEF ImpTypeOK
<1>1. ASSUME NEW p \in Requests,
             \/ \E a \in Admins, m \in Memberships : StartCheck(p, a, m)
             \/ \E a \in Admins, h \in Orgs, view \in TenantViews : Gate(p, a, h, view)
      PROVE  Goal
  BY <1>1 DEF StartCheck, Gate
<1>2. ASSUME NEW p \in Requests, StartInsert(p) PROVE Goal
  BY <1>2 DEF StartInsert, Finish
<1>3. ASSUME NEW p \in Requests, Mint(p) \/ MintRefused(p) \/ Rollback(p) PROVE Goal
  BY <1>3 DEF Mint, MintRefused, Rollback, Finish
<1>4. ASSUME NEW p \in Requests, Consume(p) \/ Page(p) \/ Flush(p) PROVE Goal
  BY <1>4 DEF Consume, Page, Flush, Finish
<1>5. ASSUME NEW p \in Requests, EndRead(p) \/ EndIt(p) PROVE Goal
  BY <1>5 DEF EndRead, EndIt
<1>6. ASSUME NEW p \in Requests, RequestFails(p) PROVE Goal
  BY <1>6 DEF RequestFails
<1>7. CASE \/ \E s \in Admins, r \in Rows : ConsoleEnd(s, r)
           \/ \E r \in Rows : TokenDies(r)
           \/ UNCHANGED impVars
  BY <1>7 DEF ConsoleEnd, TokenDies, impVars
<1>. HIDE DEF Goal
<1>. QED
  BY <1>1, <1>2, <1>3, <1>4, <1>5, <1>6, <1>7, Zenon DEF Next, RequestStep

LEMMA DanglingStep ==
    ~Faults /\ ImpTypeOK /\ NamesInv /\ NoDanglingRow /\ [Next]_impVars => NoDanglingRow'
<1>. SUFFICES ASSUME ~Faults, ImpTypeOK, NamesInv, NoDanglingRow, [Next]_impVars,
                     NEW r \in Active', token'[r] = "none"
              PROVE  Served(r)'
  BY DEF NoDanglingRow, Served
<1>. USE DEF ImpTypeOK
<1>. r \in Rows
  BY DEF Active, Exists
<1>1. token[r] = "none"
  <2>1. ASSUME token[r] # "none", \E q \in Requests : Mint(q) \/ Consume(q) PROVE FALSE
    BY <2>1 DEF Mint, Consume
  <2>2. ASSUME token[r] # "none", \E x \in Rows : TokenDies(x) PROVE FALSE
    BY <2>2 DEF TokenDies
  <2>3. ASSUME NEW q \in Requests,
               \/ \E a \in Admins, m \in Memberships : StartCheck(q, a, m)
               \/ \E a \in Admins, h \in Orgs, view \in TenantViews : Gate(q, a, h, view)
               \/ StartInsert(q) \/ MintRefused(q) \/ Rollback(q) \/ Page(q)
               \/ EndRead(q) \/ EndIt(q) \/ Flush(q) \/ RequestFails(q)
        PROVE  token' = token
    BY <2>3 DEF StartCheck, Gate, StartInsert, MintRefused, Rollback, Page, EndRead, EndIt,
                Flush, RequestFails
  <2>4. CASE (\E s \in Admins, x \in Rows : ConsoleEnd(s, x)) \/ UNCHANGED impVars
    BY <2>4 DEF ConsoleEnd, impVars
  <2>. QED
    BY <2>1, <2>2, <2>3, <2>4, Zenon DEF Next, RequestStep
<1>2. CASE r \notin Active
  <2>1. ~RowsUnchanged
    BY <1>2 DEF RowsUnchanged, Active, Exists
  <2>2. ~RowsEnded
    BY <1>2 DEF RowsEnded, EndRow, Active, Exists
  <2>3. PICK q \in Requests, n \in Rows \ Exists : InsertedBy(q, n)
    BY <2>1, <2>2, HowRowsChange
  <2>4. r = n
    BY <1>2, <2>3 DEF InsertedBy, Active, Exists
  <2>5. req'[q].pc = "mint" /\ r \in req'[q].row
    BY <2>3, <2>4 DEF InsertedBy, RequestRecords
  <2>. QED
    BY <2>5 DEF Served
<1>3. CASE r \in Active
  <2>1. PICK q \in Requests : req[q].pc \in {"mint", "rollback"} /\ r \in req[q].row
    BY <1>1, <1>3 DEF NoDanglingRow
  <2>2. CASE req'[q] = req[q]
    BY <2>1, <2>2 DEF Served
  <2>3. CASE MintRefused(q)
    <3>1. req'[q].pc = "rollback" /\ req'[q].row = req[q].row
      BY <2>3 DEF MintRefused, RequestRecords
    <3>. QED
      BY <2>1, <3>1 DEF Served
  <2>4. CASE Mint(q)
    BY <2>1, <2>4 DEF Mint
  <2>5. CASE Rollback(q)
    <3>1. row'[r] = [row[r] EXCEPT !.by = req[q].admin] /\ row[r] \in RowRecords
      BY <1>3, <2>1, <2>5 DEF Rollback, EndRow
    <3>2. row'[r].by = req[q].admin
      BY <3>1 DEF RowRecords
    <3>3. req[q].admin # {}
      BY <2>1 DEF NamesInv, Named
    <3>. QED
      BY <3>2, <3>3 DEF Active
  <2>. QED
    BY <2>1, <2>2, <2>3, <2>4, <2>5, ServedMoves
<1>. QED
  BY <1>2, <1>3

(* Every active row has had its token minted, or is being served, as long  *)
(* as no command fails: the two refusals of issue_handoff_token end the    *)
(* row they leave behind.                                                  *)
THEOREM NothingDangles == ASSUME ~Faults PROVE Spec => []NoDanglingRow
<1>1. Init => NoDanglingRow
  BY DEF Init, NoDanglingRow, Active, Exists, NoRow
<1>2. ImpTypeOK /\ NamesInv /\ NoDanglingRow /\ [Next]_impVars => NoDanglingRow'
  BY DanglingStep
<1>. QED
  BY <1>1, <1>2, NamesAlways, PTL DEF Spec

-----------------------------------------------------------------------------
LEMMA GateStep ==
    ASSUME ImpTypeOK, NamesInv, OneActivePerAdmin, SessionHasItsRow,
           NEW q \in Requests, NEW a \in Admins, NEW h \in Orgs, NEW view \in TenantViews,
           Gate(q, a, h, view), NEW r \in req'[q].due, req'[q] # req[q]
    PROVE  \E m \in Memberships : Target(r)' = {m.user} /\ req'[q].host = {m.org}
<1>1. PICK s \in sess[<<a, h>>] : TRUE
  BY DEF Gate, Idle, ImpTypeOK
<1>2. /\ req'[q].host = {h}
      /\ r \in ActiveFor({a})
      /\ Alive(s, a)
      /\ row' = row
  BY <1>1 DEF Gate, Idle, ImpTypeOK
<1>3. PICK x \in ActiveFor({a}) : s.user \in Target(x)
  BY <1>2 DEF Alive
<1>4. x = r /\ r \in Exists
  BY <1>2, <1>3 DEF OneActivePerAdmin, ActiveFor, Active
<1>5. \A y \in sess[<<a, h>>] : Target(y.row) = {y.user} /\ Tenant(y.row) = {h}
  BY DEF SessionHasItsRow
<1>6. Target(s.row) = {s.user} /\ Tenant(s.row) = {h}
  BY <1>1, <1>5
<1>7. s.row \in Rows /\ row[s.row].m \subseteq Memberships
  BY <1>1 DEF ImpTypeOK, SessionRecords, RowRecords
<1>8. row[s.row] \in RowRecords
  BY <1>7 DEF ImpTypeOK
<1>9. PICK n \in Memberships : row[r].m = {n}
  BY <1>4 DEF NamesInv, Named
<1>10. n.user = s.user /\ Target(r)' = {s.user}
  BY <1>2, <1>3, <1>4, <1>9 DEF Target
<1>11. PICK m \in row[s.row].m : m.org = h
  BY <1>6 DEF Tenant
<1>12. m.user = s.user
  BY <1>6, <1>11 DEF Target
<1>. QED
  BY <1>2, <1>7, <1>10, <1>11, <1>12

(* Whatever sessions earlier impersonations have left, the middleware lets *)
(* a request through on a host only while the same admin is impersonating  *)
(* a person who belongs to that host's organization.                       *)
THEOREM GateGuards == Spec => GateKnowsThePerson
<1>. DEFINE A == \A q \in Requests : req[q].pc = "idle" =>
                   \A r \in req'[q].due : \E m \in Memberships :
                       Target(r)' = {m.user} /\ req'[q].host = {m.org}
<1>1. ASSUME ImpTypeOK, NamesInv, DueInv, OneActivePerAdmin, SessionHasItsRow, [Next]_impVars
      PROVE  [A]_impVars
  <2>. SUFFICES ASSUME NEW q \in Requests, req[q].pc = "idle", NEW r \in req'[q].due
                PROVE  \E m \in Memberships : Target(r)' = {m.user} /\ req'[q].host = {m.org}
    OBVIOUS
  <2>1. req'[q] # req[q] /\ req'[q] # Idle
    BY <1>1 DEF DueInv, DueOK, Idle
  <2>2. \/ \E a \in Admins, m \in Memberships : StartCheck(q, a, m)
        \/ \E a \in Admins, h \in Orgs, view \in TenantViews : Gate(q, a, h, view)
    BY <1>1, <2>1, HowRequestsChange DEF Moves, InsertedBy, MintRefused, EndRead, EndIt
  <2>3. ~\E a \in Admins, m \in Memberships : StartCheck(q, a, m)
    BY <1>1 DEF StartCheck, Idle, ImpTypeOK
  <2>. QED
    BY <1>1, <2>1, <2>2, <2>3, GateStep
<1>. HIDE DEF A
<1>2. Spec => [][A]_impVars
  BY <1>1, NamesAlways, DueAlways, OneActive, SessionsHaveRows, PTL DEF Spec
<1>. QED
  BY <1>2 DEF A, GateKnowsThePerson

-----------------------------------------------------------------------------
(* The book of visits by itself: what its steps keep and never undo.       *)
VisitsInv ==
    /\ token \in [Rows -> {"none", "live", "gone"}]
    /\ \A r \in Rows : token[r] # "none" => VisitorOf[r] # {}
    /\ Visit!OneVisitEach

LEMMA VisitsStart == Visit!VisitInit => VisitsInv
<1>. SUFFICES ASSUME Visit!VisitInit PROVE VisitsInv
  OBVIOUS
<1>1. /\ \A r \in Rows : VisitorOf[r] = {}
      /\ token = [r \in Rows |-> "none"]
      /\ Inside = {}
  BY DEF Visit!VisitInit
<1>. QED
  BY <1>1 DEF VisitsInv, Visit!OneVisitEach, Visit!Open, Visit!Begun

LEMMA VisitsStay ==
    ASSUME VisitsInv, [Visit!VisitNext]_(Visit!visitVars)
    PROVE  /\ VisitsInv'
           /\ \A v \in Rows :
                /\ VisitorOf[v] # {} => VisitorOf'[v] = VisitorOf[v] /\ MemberOf'[v] = MemberOf[v]
                /\ EndedBy[v] # {} => EndedBy'[v] = EndedBy[v]
                /\ token[v] = "gone" => token'[v] = "gone"
                /\ token[v] = "gone" /\ v \notin Inside => v \notin Inside'
<1>. DEFINE W == VisitorOf
            M == MemberOf
            B == EndedBy
            I == Inside
            Book(w, m, b, p, i) ==
              /\ p \in [Rows -> {"none", "live", "gone"}]
              /\ \A v \in Rows : p[v] # "none" => w[v] # {}
              /\ \A u, v \in Rows : w[u] # {} /\ b[u] = {} /\ b[v] = {} /\ w[u] = w[v] => u = v
              /\ \A u, v \in i : w[u] = w[v] /\ {x.org : x \in m[u]} = {x.org : x \in m[v]} => u = v
              /\ \A v \in i : v \in Rows /\ w[v] # {} /\ p[v] = "gone"
            After ==
              /\ Book(W', M', B', token', I')
              /\ \A v \in Rows :
                   /\ W[v] # {} => W'[v] = W[v] /\ M'[v] = M[v]
                   /\ B[v] # {} => B'[v] = B[v]
                   /\ token[v] = "gone" => token'[v] = "gone"
                   /\ token[v] = "gone" /\ v \notin I => v \notin I'
<1>1. Book(W, M, B, token, I)
  BY DEF VisitsInv, Visit!OneVisitEach, Visit!Open, Visit!Begun, Visit!Door
<1>2. SUFFICES After
  BY DEF VisitsInv, Visit!OneVisitEach, Visit!Open, Visit!Begun, Visit!Door
<1>3. DOMAIN W = Rows /\ DOMAIN M = Rows /\ DOMAIN B = Rows
  BY DEF VisitorOf, MemberOf, EndedBy
<1>4. ASSUME NEW v \in Rows, NEW a \in Admins, NEW m \in Memberships, Visit!Begin(v, a, m)
      PROVE  After
  <2>1. /\ W[v] = {}
        /\ \A u \in Rows : W[u] # {} /\ B[u] = {} => W[u] # {a}
        /\ W' = [W EXCEPT ![v] = {a}] /\ M' = [M EXCEPT ![v] = {m}]
        /\ B' = B /\ token' = token /\ I' = I
    BY <1>4 DEF Visit!Begin, Visit!Begun, Visit!Open
  <2>. HIDE DEF W, M, B, I
  <2>2. \A u \in Rows : /\ W'[u] = IF u = v THEN {a} ELSE W[u]
                        /\ M'[u] = IF u = v THEN {m} ELSE M[u]
    BY <1>3, <2>1
  <2>3. \A u \in I : u \in Rows /\ W[u] # {} /\ u # v /\ W'[u] = W[u] /\ M'[u] = M[u]
    BY <1>1, <2>1, <2>2
  <2>4. \A u, x \in Rows :
          W'[u] # {} /\ B'[u] = {} /\ B'[x] = {} /\ W'[u] = W'[x] => u = x
    BY <1>1, <2>1, <2>2
  <2>5. \A u, x \in I' :
          W'[u] = W'[x] /\ {y.org : y \in M'[u]} = {y.org : y \in M'[x]} => u = x
    <3>. DEFINE O(X) == {y.org : y \in X}
    <3>1. \A u, x \in I : W[u] = W[x] /\ O(M[u]) = O(M[x]) => u = x
      BY <1>1
    <3>. HIDE DEF O
    <3>2. \A u, x \in I' : W'[u] = W'[x] /\ O(M'[u]) = O(M'[x]) => u = x
      BY <2>1, <2>3, <3>1
    <3>. QED
      BY <3>2 DEF O
  <2>6. \A u \in Rows : token'[u] # "none" => W'[u] # {}
    BY <1>1, <2>1, <2>2
  <2>7. \A u \in I' : u \in Rows /\ W'[u] # {} /\ token'[u] = "gone"
    BY <1>1, <2>1, <2>3
  <2>8. \A u \in Rows : W[u] # {} => W'[u] = W[u] /\ M'[u] = M[u]
    BY <2>1, <2>2
  <2>. QED
    BY <1>1, <2>1, <2>4, <2>5, <2>6, <2>7, <2>8
<1>5. ASSUME NEW V \in SUBSET Rows, NEW p \in Admins \cup Users, Visit!End(V, p) PROVE After
  <2>1. /\ V \subseteq {u \in Rows : W[u] # {} /\ B[u] = {}}
        /\ B' = [u \in Rows |-> IF u \in V THEN {p} ELSE B[u]]
        /\ W' = W /\ M' = M /\ token' = token /\ I' = I
    BY <1>5 DEF Visit!End, Visit!Begun, Visit!Open
  <2>. HIDE DEF W, M, B, I
  <2>2. \A u \in Rows : B'[u] = {} => B[u] = {}
    BY <2>1
  <2>3. \A u \in Rows : B[u] # {} => B'[u] = B[u]
    BY <2>1
  <2>. QED
    BY <1>1, <2>1, <2>2, <2>3
<1>6. ASSUME NEW v \in Rows, Visit!Give(v) \/ Visit!Waste(v) PROVE After
  <2>1. /\ token[v] # "gone" /\ (W[v] # {} \/ token[v] = "live")
        /\ token' = [token EXCEPT ![v] = "live"] \/ token' = [token EXCEPT ![v] = "gone"]
        /\ W' = W /\ M' = M /\ B' = B /\ I' = I
    BY <1>6 DEF Visit!Give, Visit!Waste, Visit!Begun
  <2>. HIDE DEF W, M, B, I
  <2>. QED
    BY <1>1, <2>1
<1>7. ASSUME NEW v \in Rows, Visit!Enter(v) PROVE After
  <2>. DEFINE Same(u) == W[u] = W[v] /\ {x.org : x \in M[u]} = {x.org : x \in M[v]}
  <2>1. /\ token[v] = "live" /\ token' = [token EXCEPT ![v] = "gone"]
        /\ I' = {v} \cup {u \in I : ~Same(u)}
        /\ W' = W /\ M' = M /\ B' = B
    BY <1>7 DEF Visit!Enter, Visit!Door
  <2>. HIDE DEF W, M, B, I
  <2>2. \A u, x \in I : Same(u) /\ Same(x) => u = x
    BY <1>1
  <2>. QED
    BY <1>1, <2>1, <2>2
<1>8. ASSUME NEW V \in SUBSET Rows, Visit!Leave(V) PROVE After
  <2>1. I' = I \ V /\ W' = W /\ M' = M /\ B' = B /\ token' = token
    BY <1>8 DEF Visit!Leave
  <2>. HIDE DEF W, M, B, I
  <2>. QED
    BY <1>1, <2>1
<1>9. CASE UNCHANGED Visit!visitVars
  <2>1. I' = I /\ W' = W /\ M' = M /\ B' = B /\ token' = token
    BY <1>9 DEF Visit!visitVars
  <2>. HIDE DEF W, M, B, I
  <2>. QED
    BY <1>1, <2>1
<1>. HIDE DEF After
<1>10. Visit!VisitNext => After
  BY <1>4, <1>5, <1>6, <1>7, <1>8 DEF Visit!VisitNext
<1>. QED
  BY <1>9, <1>10

(* One open visit per visitor, one visit behind a door, and none inside    *)
(* that nobody was given the pass for.                                     *)
LEMMA VisitsStandApart == Visit!VisitSpec => []Visit!OneVisitEach
<1>1. VisitsInv => Visit!OneVisitEach
  BY DEF VisitsInv
<1>2. VisitsInv /\ [Visit!VisitNext]_(Visit!visitVars) => VisitsInv'
  BY VisitsStay
<1>. QED
  BY <1>1, <1>2, VisitsStart, PTL DEF Visit!VisitSpec

(* A visit stays what it was, ended by whom it was ended, and whoever has  *)
(* left it does not come back in.                                          *)
LEMMA VisitsAreOver == Visit!VisitSpec => Visit!OverForGood
<1>1. VisitsInv /\ [Visit!VisitNext]_(Visit!visitVars) =>
        [\A v \in Rows :
           /\ v \in Visit!Begun => VisitorOf'[v] = VisitorOf[v] /\ MemberOf'[v] = MemberOf[v]
           /\ EndedBy[v] # {} => EndedBy'[v] = EndedBy[v]
           /\ token[v] = "gone" => token'[v] = "gone"
           /\ token[v] = "gone" /\ v \notin Inside => v \notin Inside']_(Visit!visitVars)
  BY VisitsStay DEF Visit!Begun
<1>2. VisitsInv /\ [Visit!VisitNext]_(Visit!visitVars) => VisitsInv'
  BY VisitsStay
<1>. QED
  BY <1>1, <1>2, VisitsStart, PTL DEF Visit!VisitSpec, Visit!OverForGood

-----------------------------------------------------------------------------
(* Who ends a row: the view passes on one person, or nobody when there is  *)
(* nothing to end.                                                         *)
EnderOK(q) ==
    /\ req[q].pc \in TenantViews =>
         /\ \E a \in Admins : req[q].admin = {a}
         /\ \A r, s \in req[q].due : r = s
    /\ req[q].pc = "ending" =>
         req[q].by = {} \/ \E p \in Admins \cup Users : req[q].by = {p}

EnderInv == \A q \in Requests : EnderOK(q)

LEMMA EnderStep ==
    ASSUME ImpTypeOK, NamesInv, DueInv, OneActivePerAdmin, EnderInv, [Next]_impVars
    PROVE  EnderInv'
<1>. SUFFICES ASSUME NEW q \in Requests PROVE EnderOK(q)'
  BY DEF EnderInv
<1>. USE DEF ImpTypeOK
<1>0. EnderOK(q) /\ DueOK(q) /\ req[q] \in RequestRecords
  BY DEF EnderInv, DueInv
<1>1. CASE req'[q] = req[q] \/ req'[q] = Idle
  BY <1>0, <1>1 DEF EnderOK, Idle, TenantViews
<1>2. ASSUME \/ \E a \in Admins, m \in Memberships : StartCheck(q, a, m)
             \/ \E r \in Rows \ Exists : InsertedBy(q, r)
             \/ MintRefused(q) \/ EndIt(q)
      PROVE  EnderOK(q)'
  <2>1. ASSUME \E a \in Admins, m \in Memberships : StartCheck(q, a, m)
        PROVE  req'[q].pc \in {"insert", "mint", "rollback", "flush"}
    BY <2>1 DEF StartCheck, Idle
  <2>2. ASSUME \/ \E r \in Rows \ Exists : InsertedBy(q, r)
               \/ MintRefused(q) \/ EndIt(q)
        PROVE  req'[q].pc \in {"insert", "mint", "rollback", "flush"}
    BY <1>0, <2>2 DEF InsertedBy, MintRefused, EndIt, RequestRecords
  <2>3. req'[q].pc \in {"insert", "mint", "rollback", "flush"}
    BY <1>2, <2>1, <2>2
  <2>. QED
    BY <2>3 DEF EnderOK, TenantViews
<1>3. ASSUME NEW a \in Admins, NEW h \in Orgs, NEW view \in TenantViews, Gate(q, a, h, view),
             req'[q] # req[q]
      PROVE  EnderOK(q)'
  <2>1. req'[q].admin = {a} /\ req'[q].due \subseteq ActiveFor({a}) /\ req'[q].pc \in TenantViews
    BY <1>3 DEF Gate, Idle
  <2>2. \A r, s \in ActiveFor({a}) : r = s
    BY DEF OneActivePerAdmin, ActiveFor
  <2>. QED
    BY <2>1, <2>2 DEF EnderOK, TenantViews
<1>4. CASE EndRead(q)
  <2>. DEFINE due == req[q].due
              by == IF req[q].pc = "logout" THEN UNION {Target(r) : r \in due} ELSE req[q].admin
  <2>1. req'[q].pc = "ending" /\ req'[q].by = by
    BY <1>0, <1>4 DEF EndRead, RequestRecords
  <2>2. (\E a \in Admins : req[q].admin = {a}) /\ \A r, s \in due : r = s
    BY <1>0, <1>4 DEF EndRead, EnderOK, TenantViews
  <2>3. ASSUME NEW r \in due PROVE \E p \in Users : UNION {Target(s) : s \in due} = {p}
    <3>1. r \in Exists /\ due = {r}
      BY <1>0, <2>2 DEF DueOK
    <3>2. PICK m \in Memberships : row[r].m = {m}
      BY <3>1 DEF NamesInv, Named
    <3>3. Target(r) = {m.user} /\ m.user \in Users
      BY <3>2, PeopleAssumption DEF Target
    <3>4. UNION {Target(s) : s \in due} = Target(r)
      BY <3>1
    <3>. QED
      BY <3>3, <3>4
  <2>4. due = {} => UNION {Target(s) : s \in due} = {}
    OBVIOUS
  <2>5. by = {} \/ \E p \in Admins \cup Users : by = {p}
    BY <2>2, <2>3, <2>4
  <2>. HIDE DEF by
  <2>. QED
    BY <2>1, <2>5 DEF EnderOK, TenantViews
<1>. QED
  BY <1>1, <1>2, <1>3, <1>4, HowRequestsChange DEF Moves

LEMMA EnderAlways == Spec => []EnderInv
<1>1. Init => EnderInv
  BY DEF Init, EnderInv, EnderOK, Idle, TenantViews
<1>2. ImpTypeOK /\ NamesInv /\ DueInv /\ OneActivePerAdmin /\ EnderInv /\ [Next]_impVars
        => EnderInv'
  BY EnderStep
<1>. QED
  BY <1>1, <1>2, NamesAlways, DueAlways, OneActive, PTL DEF Spec

-----------------------------------------------------------------------------
(* A token is minted once for a row: only the request that inserted it     *)
(* does it, and only while there is none.                                  *)
Starting(q) == req[q].pc \in {"mint", "rollback"}

MintInv ==
    /\ \A r \in Rows \ Exists : token[r] = "none" /\ row[r].by = {}
    /\ \A q \in Requests : Starting(q) =>
         \E r \in Exists : req[q].row = {r} /\ token[r] = "none"
    /\ \A p, q \in Requests : Starting(p) /\ Starting(q) /\ p # q =>
         req[p].row \cap req[q].row = {}

LEMMA HowTokensChange ==
    ASSUME ImpTypeOK, [Next]_impVars
    PROVE  \/ token' = token
           \/ \E q \in Requests : Mint(q)
           \/ \E r \in Rows : token[r] = "live" /\ token' = [token EXCEPT ![r] = "gone"]
<1>. DEFINE Goal == \/ token' = token
                    \/ \E q \in Requests : Mint(q)
                    \/ \E r \in Rows : token[r] = "live" /\ token' = [token EXCEPT ![r] = "gone"]
<1>. SUFFICES Goal
  OBVIOUS
<1>1. ASSUME NEW q \in Requests, Mint(q) \/ Consume(q) PROVE Goal
  BY <1>1 DEF Consume
<1>2. ASSUME NEW r \in Rows, TokenDies(r) PROVE Goal
  BY <1>2 DEF TokenDies
<1>3. ASSUME NEW q \in Requests,
             \/ \E a \in Admins, m \in Memberships : StartCheck(q, a, m)
             \/ \E a \in Admins, h \in Orgs, view \in TenantViews : Gate(q, a, h, view)
             \/ StartInsert(q) \/ MintRefused(q) \/ Rollback(q) \/ Page(q)
             \/ EndRead(q) \/ EndIt(q) \/ Flush(q) \/ RequestFails(q)
      PROVE  Goal
  BY <1>3 DEF StartCheck, Gate, StartInsert, MintRefused, Rollback, Page, EndRead, EndIt,
              Flush, RequestFails
<1>4. CASE (\E s \in Admins, x \in Rows : ConsoleEnd(s, x)) \/ UNCHANGED impVars
  BY <1>4 DEF ConsoleEnd, impVars
<1>. HIDE DEF Goal
<1>. QED
  BY <1>1, <1>2, <1>3, <1>4, Zenon DEF Next, RequestStep

LEMMA MintStep == ImpTypeOK /\ NamesInv /\ MintInv /\ [Next]_impVars => MintInv'
<1>. SUFFICES ASSUME ImpTypeOK, NamesInv, MintInv, [Next]_impVars PROVE MintInv'
  OBVIOUS
<1>. USE DEF ImpTypeOK
<1>1. ASSUME NEW q \in Requests, Mint(q)
      PROVE  /\ \E r \in Exists : \A x \in Rows : token'[x] = IF x = r THEN "live" ELSE token[x]
             /\ req' = [req EXCEPT ![q] = Idle] /\ Starting(q)
             /\ \A x \in Rows : token'[x] # token[x] => x \in req[q].row
  BY <1>1 DEF Mint, MintInv, Starting, Finish
<1>2. \A r \in Exists : r \in Exists'
  BY RowsGoForward
<1>3. ASSUME NEW r \in Rows \ Exists' PROVE token'[r] = "none" /\ row'[r].by = {}
  <2>1. r \notin Exists
    BY <1>2, <1>3
  <2>2. token'[r] = "none"
    BY <1>1, <2>1, HowTokensChange DEF MintInv
  <2>3. ASSUME RowsUnchanged PROVE row'[r].by = {}
    BY <2>1, <2>3 DEF RowsUnchanged, MintInv
  <2>4. ASSUME RowsEnded PROVE row'[r].by = {}
    BY <2>1, <2>4 DEF RowsEnded, EndRow, Active, MintInv
  <2>5. ASSUME NEW q \in Requests, NEW x \in Rows \ Exists, InsertedBy(q, x)
        PROVE  row'[r].by = {}
    BY <2>1, <2>5 DEF InsertedBy, MintInv
  <2>. QED
    BY <2>2, <2>3, <2>4, <2>5, HowRowsChange
<1>4. ASSUME NEW q \in Requests, Starting(q), req'[q] = req[q] PROVE
        \E r \in Exists' : req'[q].row = {r} /\ token'[r] = "none"
  <2>1. PICK r \in Exists : req[q].row = {r} /\ token[r] = "none"
    BY <1>4 DEF MintInv
  <2>2. r \in Rows
    BY DEF Exists
  <2>3. ASSUME NEW p \in Requests, Mint(p) PROVE token'[r] = "none"
    <3>1. Starting(p) /\ p # q
      BY <1>1, <1>4, <2>3 DEF Starting, Idle
    <3>2. r \notin req[p].row
      BY <1>4, <2>1, <3>1 DEF MintInv
    <3>. QED
      BY <1>1, <2>1, <2>2, <2>3, <3>2
  <2>4. token'[r] = "none"
    BY <2>1, <2>2, <2>3, HowTokensChange
  <2>. QED
    BY <1>2, <1>4, <2>1, <2>4
<1>5. ASSUME NEW q \in Requests, MintRefused(q)
      PROVE  Starting(q) /\ req'[q].row = req[q].row /\ token' = token
  BY <1>5 DEF MintRefused, Starting, RequestRecords
<1>6. ASSUME NEW q \in Requests, NEW r \in Rows \ Exists, InsertedBy(q, r)
      PROVE  /\ r \in Exists' /\ req'[q].row = {r} /\ token'[r] = "none" /\ r \notin Exists
             /\ \A p \in Requests \ {q} : req'[p] = req[p]
  <2>1. req'[q].row = {r} /\ token' = token /\ row'[r].admin = req[q].admin
    BY <1>6 DEF InsertedBy, RequestRecords
  <2>2. req[q].admin # {}
    BY <1>6 DEF InsertedBy, NamesInv, Named
  <2>. QED
    BY <1>6, <2>1, <2>2 DEF Exists, MintInv, InsertedBy
\* How a request comes to be starting.
<1>7. ASSUME NEW q \in Requests, Starting(q)'
      PROVE  \/ req'[q] = req[q] /\ Starting(q)
             \/ MintRefused(q)
             \/ \E r \in Rows \ Exists : InsertedBy(q, r)
  <2>1. CASE req'[q] = req[q]
    BY <1>7, <2>1 DEF Starting
  <2>2. req'[q] # Idle
    BY <1>7 DEF Starting, Idle
  <2>3. ~\E a \in Admins, m \in Memberships : StartCheck(q, a, m)
    BY <1>7 DEF StartCheck, Idle, Starting
  <2>4. ASSUME NEW a \in Admins, NEW h \in Orgs, NEW view \in TenantViews, Gate(q, a, h, view)
        PROVE  req'[q] = req[q]
    BY <1>7, <2>4 DEF Gate, Idle, Starting, TenantViews
  <2>5. ~EndRead(q) /\ ~EndIt(q)
    BY <1>7 DEF EndRead, EndIt, Starting, RequestRecords
  <2>. QED
    BY <2>1, <2>2, <2>3, <2>4, <2>5, HowRequestsChange DEF Moves
<1>8. ASSUME NEW q \in Requests, Starting(q)'
      PROVE  \E r \in Exists' : req'[q].row = {r} /\ token'[r] = "none"
  <2>1. CASE MintRefused(q)
    BY <1>2, <1>5, <2>1 DEF MintInv
  <2>. QED
    BY <1>4, <1>6, <1>7, <1>8, <2>1
<1>9. ASSUME NEW p \in Requests, NEW q \in Requests, Starting(p)', Starting(q)', p # q
      PROVE  req'[p].row \cap req'[q].row = {}
  <2>. DEFINE Old(x) == Starting(x) /\ req'[x].row = req[x].row
              New(x) == \E r \in Rows \ Exists : InsertedBy(x, r)
  <2>1. (Old(p) \/ New(p)) /\ (Old(q) \/ New(q))
    BY <1>5, <1>7, <1>9
  <2>2. ASSUME NEW x \in Requests, NEW y \in Requests, x # y, New(x), Starting(y)'
        PROVE  req'[x].row \cap req'[y].row = {}
    <3>1. PICK r \in Rows \ Exists : InsertedBy(x, r)
      BY <2>2
    <3>2. req'[x].row = {r} /\ req'[y] = req[y]
      BY <1>6, <2>2, <3>1
    <3>3. \E z \in Exists : req[y].row = {z}
      BY <2>2, <3>2 DEF MintInv, Starting
    <3>. QED
      BY <3>2, <3>3
  <2>3. CASE Old(p) /\ Old(q)
    BY <1>9, <2>3 DEF MintInv
  <2>. HIDE DEF Old, New
  <2>. QED
    BY <1>9, <2>1, <2>2, <2>3
<1>. QED
  BY <1>3, <1>8, <1>9 DEF MintInv

LEMMA MintAlways == Spec => []MintInv
<1>1. Init => MintInv
  BY DEF Init, MintInv, Starting, Idle, NoRow
<1>. QED
  BY <1>1, MintStep, NamesAlways, PTL DEF Spec

-----------------------------------------------------------------------------
(* The refinement, step by step. *)
LEMMA VisitsStutter ==
    ASSUME UNCHANGED <<row, token, sess>>
    PROVE  UNCHANGED Visit!visitVars
BY DEF Visit!visitVars, VisitorOf, MemberOf, EndedBy, Inside

LEMMA InsertBegins ==
    ASSUME ImpTypeOK, NamesInv, MintInv, NEW q \in Requests, NEW r \in Rows \ Exists,
           InsertedBy(q, r), UNCHANGED sess
    PROVE  \E a \in Admins, m \in Memberships : Visit!Begin(r, a, m)
<1>1. PICK a \in Admins, m \in Memberships : req[q].admin = {a} /\ req[q].m = {m}
  BY DEF InsertedBy, NamesInv, Named
<1>2. row' = [row EXCEPT ![r] = [admin |-> {a}, m |-> {m}, by |-> {}]]
  BY <1>1 DEF InsertedBy
<1>3. \A x \in Rows : row'[x] = IF x = r THEN [admin |-> {a}, m |-> {m}, by |-> {}] ELSE row[x]
  BY <1>2 DEF ImpTypeOK
<1>4. row[r].by = {}
  BY DEF MintInv
<1>5. /\ VisitorOf' = [VisitorOf EXCEPT ![r] = {a}]
      /\ MemberOf' = [MemberOf EXCEPT ![r] = {m}]
      /\ EndedBy' = EndedBy
  <2>0. \A x \in Rows : /\ row'[x].admin = IF x = r THEN {a} ELSE row[x].admin
                        /\ row'[x].m = IF x = r THEN {m} ELSE row[x].m
                        /\ row'[x].by = row[x].by
    BY <1>3, <1>4
  <2>1. VisitorOf' = [VisitorOf EXCEPT ![r] = {a}]
    BY <2>0 DEF VisitorOf
  <2>2. MemberOf' = [MemberOf EXCEPT ![r] = {m}]
    BY <2>0 DEF MemberOf
  <2>3. \A x \in Rows : row'[x].by = row[x].by
    BY <2>0
  <2>. QED
    BY <2>1, <2>2, <2>3 DEF EndedBy
<1>6. \A u \in Visit!Open : VisitorOf[u] # {a}
  BY <1>1 DEF InsertedBy, Clash, ActiveFor, Active, Exists, VisitorOf, EndedBy, Visit!Open,
     Visit!Begun
<1>7. r \notin Visit!Begun
  BY DEF Exists, Visit!Begun, VisitorOf
<1>8. UNCHANGED <<token, Inside>>
  BY DEF InsertedBy, Inside
<1>. QED
  BY <1>5, <1>6, <1>7, <1>8 DEF Visit!Begin

LEMMA EndRowEnds ==
    ASSUME ImpTypeOK, NEW R \in SUBSET Rows, NEW W, EndRow(R, W), UNCHANGED <<token, sess>>,
           W = {} \/ \E p \in Admins \cup Users : W = {p}
    PROVE  \/ UNCHANGED Visit!visitVars
           \/ \E V \in SUBSET Rows, p \in Admins \cup Users : Visit!End(V, p)
<1>0. \A r \in Rows : row[r] \in RowRecords
  BY DEF ImpTypeOK
<1>1. \A r \in Rows :
        /\ row'[r].admin = row[r].admin /\ row'[r].m = row[r].m
        /\ row'[r].by = IF r \in R \cap Active THEN W ELSE row[r].by
  BY <1>0 DEF EndRow, RowRecords
<1>2. VisitorOf' = VisitorOf /\ MemberOf' = MemberOf /\ Inside' = Inside
  BY <1>1 DEF VisitorOf, MemberOf, Inside
<1>3. CASE W = {}
  <2>1. \A r \in Rows : row'[r].by = row[r].by
    BY <1>1, <1>3 DEF Active
  <2>2. EndedBy' = EndedBy
    BY <2>1 DEF EndedBy
  <2>. QED
    BY <1>2, <2>2 DEF Visit!visitVars
<1>4. ASSUME NEW p \in Admins \cup Users, W = {p}
      PROVE  \E V \in SUBSET Rows : Visit!End(V, p)
  <2>. DEFINE V == R \cap Active
  <2>1. V \subseteq Visit!Open
    BY DEF Active, Exists, Visit!Open, Visit!Begun, VisitorOf, EndedBy
  <2>2. EndedBy' = [r \in Rows |-> IF r \in V THEN {p} ELSE EndedBy[r]]
    BY <1>1, <1>4 DEF EndedBy
  <2>3. V \in SUBSET Rows
    OBVIOUS
  <2>. HIDE DEF V
  <2>. QED
    BY <1>2, <2>1, <2>2, <2>3 DEF Visit!End
<1>. QED
  BY <1>3, <1>4

LEMMA SessionsLeave ==
    ASSUME UNCHANGED <<row, token>>, Inside' \subseteq Inside
    PROVE  \E V \in SUBSET Rows : Visit!Leave(V)
<1>1. Inside \ Inside' \in SUBSET Rows
  BY DEF Inside
<1>2. Inside' = Inside \ (Inside \ Inside')
  OBVIOUS
<1>3. UNCHANGED <<VisitorOf, MemberOf, EndedBy>>
  BY DEF VisitorOf, MemberOf, EndedBy
<1>. QED
  BY <1>1, <1>2, <1>3 DEF Visit!Leave

LEMMA MintGives ==
    ASSUME ImpTypeOK, MintInv, NEW q \in Requests, Mint(q)
    PROVE  \E r \in Rows : Visit!Give(r)
<1>1. PICK r \in Exists : req[q].row = {r} /\ token[r] = "none"
  BY DEF Mint, MintInv, Starting
<1>2. r \in Rows /\ r \in Visit!Begun
  BY DEF Exists, Visit!Begun, VisitorOf
<1>3. token' = [token EXCEPT ![r] = "live"]
  BY <1>1, <1>2 DEF Mint, ImpTypeOK
<1>4. UNCHANGED <<VisitorOf, MemberOf, EndedBy, Inside>>
  BY DEF Mint, VisitorOf, MemberOf, EndedBy, Inside
<1>. QED
  BY <1>1, <1>2, <1>3, <1>4 DEF Visit!Give

LEMMA TokenWastes ==
    ASSUME NEW r \in Rows, token[r] = "live", token' = [token EXCEPT ![r] = "gone"],
           UNCHANGED <<row, sess>>
    PROVE  Visit!Waste(r)
BY DEF Visit!Waste, VisitorOf, MemberOf, EndedBy, Inside

LEMMA ConsumeEnters ==
    ASSUME ImpTypeOK, NamesInv, SessionHasItsRow, NEW q \in Requests, NEW r \in Rows,
           token[r] = "live", ForThisHost(r, q), req[q].admin # {}, UNCHANGED row,
           token' = [token EXCEPT ![r] = "gone"],
           sess' = [b \in Admins \X Orgs |->
                      IF b \in req[q].admin \X req[q].host
                      THEN {[user |-> u, row |-> r] : u \in Target(r)} ELSE sess[b]]
    PROVE  Visit!Enter(r)
<1>1. r \in Exists
  BY DEF ForThisHost, Exists
<1>2. PICK a \in Admins, m \in Memberships : row[r].admin = {a} /\ row[r].m = {m}
  BY <1>1 DEF NamesInv, Named
<1>. DEFINE h == m.org
            n == [user |-> m.user, row |-> r]
            Here(u) == row[u].admin = {a} /\ Tenant(u) = {h}
            Elsewhere(u) == \E b \in Admins \X Orgs : b # <<a, h>> /\ \E s \in sess[b] : s.row = u
<1>3. h \in Orgs /\ Target(r) = {m.user} /\ Tenant(r) = {h}
  BY <1>2, PeopleAssumption DEF Target, Tenant
<1>4. req[q].admin = {a} /\ req[q].host = {h}
  BY <1>2, <1>3 DEF ForThisHost
<1>. HIDE DEF h
<1>5. /\ sess'[<<a, h>>] = {n} /\ n.row = r
      /\ \A b \in Admins \X Orgs : b # <<a, h>> => sess'[b] = sess[b]
  BY <1>3, <1>4
<1>6. ASSUME NEW u \in Rows PROVE u \in Inside' <=> u = r \/ Elsewhere(u)
  <2>. HIDE DEF n
  <2>1. \A s \in sess'[<<a, h>>] : s.row = r
    BY <1>5
  <2>2. \E s \in sess'[<<a, h>>] : s.row = r
    BY <1>5
  <2>3. <<a, h>> \in Admins \X Orgs
    BY <1>3
  <2>. QED
    BY <1>5, <2>1, <2>2, <2>3 DEF Inside
\* A visit is inside at its own door only.
<1>7. ASSUME NEW u \in Rows PROVE Elsewhere(u) <=> u \in Inside /\ ~Here(u)
  <2>1. ASSUME NEW x \in Admins, NEW g \in Orgs, NEW s \in sess[<<x, g>>], s.row = u
        PROVE  Here(u) <=> <<x, g>> = <<a, h>>
    <3>1. \A y \in sess[<<x, g>>] :
            row[y.row].admin = {x} /\ Target(y.row) = {y.user} /\ Tenant(y.row) = {g}
      BY Zenon DEF SessionHasItsRow
    <3>2. row[u].admin = {x} /\ Tenant(u) = {g}
      BY <2>1, <3>1
    <3>. QED
      BY <3>2
  <2>. HIDE DEF Here
  <2>. QED
    BY <2>1 DEF Inside
<1>8. ASSUME NEW u \in Rows PROVE Visit!Door(u) = Visit!Door(r) <=> Here(u)
  <2>1. \A x \in Rows : VisitorOf[x] = row[x].admin /\ {y.org : y \in MemberOf[x]} = Tenant(x)
    BY DEF VisitorOf, MemberOf, Tenant
  <2>. QED
    BY <1>2, <1>3, <2>1 DEF Visit!Door
<1>9. Inside' = {r} \cup {u \in Inside : Visit!Door(u) # Visit!Door(r)}
  <2>. HIDE DEF Here, Elsewhere
  <2>. QED
    BY <1>6, <1>7, <1>8 DEF Inside
<1>10. UNCHANGED <<VisitorOf, MemberOf, EndedBy>>
  BY DEF VisitorOf, MemberOf, EndedBy
<1>. QED
  BY <1>9, <1>10 DEF Visit!Enter

LEMMA ConsumeMaps ==
    ASSUME ImpTypeOK, NamesInv, EnderInv, SessionHasItsRow, NEW q \in Requests, Consume(q)
    PROVE  \/ UNCHANGED Visit!visitVars
           \/ \E r \in Rows : Visit!Waste(r) \/ Visit!Enter(r)
<1>1. req[q].admin # {} /\ UNCHANGED row
  BY DEF Consume, EnderInv, EnderOK, TenantViews
<1>2. CASE UNCHANGED <<token, sess>>
  BY <1>1, <1>2, VisitsStutter
<1>3. ASSUME NEW r \in Rows, token[r] = "live", ForThisHost(r, q),
             token' = [token EXCEPT ![r] = "gone"],
             \/ sess' = [b \in Admins \X Orgs |->
                           IF b \in req[q].admin \X req[q].host
                           THEN {[user |-> u, row |-> r] : u \in Target(r)} ELSE sess[b]]
             \/ UNCHANGED sess
      PROVE  Visit!Waste(r) \/ Visit!Enter(r)
  BY <1>1, <1>3, TokenWastes, ConsumeEnters
<1>. QED
  BY <1>2, <1>3, Zenon DEF Consume

(* Impersonation with its races, refusals and failures is a book of        *)
(* visits: every step opens one, ends some, gives or uses up a pass, lets  *)
(* somebody in or out, or is no step of it.                                *)
THEOREM ImpersonationImplementsVisits == Spec => ImplementsVisits
<1>1. Init => Visit!VisitInit
  <2>. SUFFICES ASSUME Init PROVE Visit!VisitInit
    OBVIOUS
  <2>1. \A r \in Rows : row[r].admin = {} /\ row[r].m = {} /\ row[r].by = {}
    BY DEF Init, NoRow
  <2>. QED
    BY <2>1 DEF Init, Visit!VisitInit, VisitorOf, MemberOf, EndedBy, Inside
<1>2. ImpTypeOK /\ NamesInv /\ DueInv /\ EnderInv /\ MintInv /\ SessionHasItsRow /\ [Next]_impVars
        => [Visit!VisitNext]_(Visit!visitVars)
  <2>. SUFFICES ASSUME ImpTypeOK, NamesInv, EnderInv, MintInv, SessionHasItsRow, [Next]_impVars
                PROVE  Visit!VisitNext \/ UNCHANGED Visit!visitVars
    OBVIOUS
  <2>. DEFINE Goal == Visit!VisitNext \/ UNCHANGED Visit!visitVars
  <2>. SUFFICES Goal
    OBVIOUS
  <2>0. \A q \in Requests : req[q] \in RequestRecords
    BY DEF ImpTypeOK
  <2>1. ASSUME NEW q \in Requests, StartInsert(q) PROVE Goal
    <3>1. ASSUME NEW r \in Rows \ Exists, InsertedBy(q, r) PROVE Goal
      <4>1. UNCHANGED sess
        BY <2>1 DEF StartInsert
      <4>. QED
        BY <3>1, <4>1, InsertBegins DEF Visit!VisitNext
    <3>2. CASE UNCHANGED row
      BY <2>1, <3>2, VisitsStutter DEF StartInsert
    <3>. QED
      BY <2>1, <3>1, <3>2 DEF StartInsert, InsertedBy
  <2>2. ASSUME NEW q \in Requests, Mint(q) PROVE Goal
    BY <2>2, MintGives DEF Visit!VisitNext
  <2>3. ASSUME NEW q \in Requests, Rollback(q) \/ EndIt(q) PROVE Goal
    <3>. PICK W : /\ EndRow(req[q].row, W) /\ UNCHANGED <<token, sess>>
                  /\ W = {} \/ \E p \in Admins \cup Users : W = {p}
      BY <2>3 DEF Rollback, EndIt, NamesInv, Named, EnderInv, EnderOK
    <3>1. req[q].row \in SUBSET Rows
      BY <2>0 DEF RequestRecords
    <3>. QED
      BY <3>1, EndRowEnds DEF Visit!VisitNext
  <2>4. ASSUME NEW s \in Admins, NEW r \in Rows, ConsoleEnd(s, r) PROVE Goal
    <3>1. {r} \in SUBSET Rows /\ \E p \in Admins \cup Users : {s} = {p}
      OBVIOUS
    <3>. QED
      BY <2>4, <3>1, EndRowEnds DEF ConsoleEnd, Visit!VisitNext
  <2>5. ASSUME NEW q \in Requests,
               \/ \E a \in Admins, h \in Orgs, view \in TenantViews : Gate(q, a, h, view)
               \/ Flush(q)
        PROVE  Goal
    <3>1. UNCHANGED <<row, token>> /\ \A b \in Admins \X Orgs : sess'[b] \subseteq sess[b]
      BY <2>5 DEF Gate, Flush, ImpTypeOK
    <3>2. Inside' \subseteq Inside
      BY <3>1 DEF Inside
    <3>. QED
      BY <3>1, <3>2, SessionsLeave DEF Visit!VisitNext
  <2>6. ASSUME NEW q \in Requests, Consume(q) PROVE Goal
    BY <2>6, ConsumeMaps DEF Visit!VisitNext
  <2>7. ASSUME NEW r \in Rows, TokenDies(r) PROVE Goal
    BY <2>7, TokenWastes DEF TokenDies, Visit!VisitNext
  <2>8. ASSUME NEW q \in Requests,
               \/ \E a \in Admins, m \in Memberships : StartCheck(q, a, m)
               \/ MintRefused(q) \/ Page(q) \/ EndRead(q) \/ RequestFails(q)
        PROVE  Goal
    BY <2>8, VisitsStutter DEF StartCheck, MintRefused, Page, EndRead, RequestFails
  <2>9. CASE UNCHANGED impVars
    BY <2>9, VisitsStutter DEF impVars
  <2>. HIDE DEF Goal
  <2>. QED
    BY <2>1, <2>2, <2>3, <2>4, <2>5, <2>6, <2>7, <2>8, <2>9, Zenon DEF Next, RequestStep
<1>. QED
  BY <1>1, <1>2, NamesAlways, DueAlways, EnderAlways, MintAlways, SessionsHaveRows, PTL
  DEF Spec, ImplementsVisits, Visit!VisitSpec

(* So it is with impersonation, whatever races and fails: one open visit   *)
(* per admin, one session behind a host, no row that changes hands or      *)
(* author, and no session by an impersonation that was left before.        *)
THEOREM ImpersonationKeepsVisits == Spec => []Visit!OneVisitEach /\ Visit!OverForGood
BY ImpersonationImplementsVisits, VisitsStandApart, VisitsAreOver, PTL DEF ImplementsVisits

-----------------------------------------------------------------------------
(* What a logout will find: the rows it was let through by, or fewer.      *)
FindsOK(q) ==
    /\ req[q].pc \in {"logout", "endbutton"} => ActiveFor(req[q].admin) \subseteq req[q].due
    /\ req[q].pc = "ending" => req[q].row \subseteq req[q].due

FindsInv == \A q \in Requests : FindsOK(q)

NoneBetween ==
    \A q \in Requests : req[q].pc \in {"logout", "endbutton"} =>
        \A r \in Exists' \ Exists : row'[r].admin # req[q].admin

LEMMA FindsStay ==
    ASSUME ImpTypeOK, [Next]_impVars, NoneBetween, NEW p \in Requests, FindsOK(p), req'[p] = req[p]
    PROVE  FindsOK(p)'
<1>1. ASSUME req[p].pc \in {"logout", "endbutton"}, NEW r \in ActiveFor(req[p].admin)'
      PROVE  r \in ActiveFor(req[p].admin)
  <2>1. r \in Exists' /\ r \in Active' /\ row'[r].admin = req[p].admin
    BY <1>1 DEF ActiveFor, Active
  <2>2. r \in Exists
    BY <1>1, <2>1 DEF NoneBetween
  <2>3. r \in Active /\ row[r].admin = req[p].admin
    BY <2>1, <2>2, RowsGoForward
  <2>. QED
    BY <2>3 DEF ActiveFor
<1>. QED
  BY <1>1 DEF FindsOK, ActiveFor

LEMMA FindsStep == ImpTypeOK /\ FindsInv /\ NoneBetween /\ [Next]_impVars => FindsInv'
<1>. SUFFICES ASSUME ImpTypeOK, FindsInv, NoneBetween, [Next]_impVars, NEW p \in Requests
              PROVE  FindsOK(p)'
  BY DEF FindsInv
<1>. USE DEF ImpTypeOK
<1>0. FindsOK(p) /\ req[p] \in RequestRecords
  BY DEF FindsInv
<1>1. CASE req'[p] = req[p]
  BY <1>0, <1>1, FindsStay
<1>2. CASE req'[p] = Idle
  BY <1>2 DEF Idle, FindsOK
<1>3. ASSUME NEW a \in Admins, NEW m \in Memberships, StartCheck(p, a, m) PROVE FindsOK(p)'
  <2>1. req'[p].pc = "insert"
    BY <1>3 DEF StartCheck, Idle
  <2>. QED
    BY <2>1 DEF FindsOK
<1>4. CASE MintRefused(p) \/ \E r \in Rows \ Exists : InsertedBy(p, r)
  <2>1. req'[p].pc \in {"rollback", "mint"}
    BY <1>0, <1>4 DEF MintRefused, InsertedBy, RequestRecords
  <2>. QED
    BY <2>1 DEF FindsOK
<1>5. ASSUME NEW a \in Admins, NEW h \in Orgs, NEW view \in TenantViews, Gate(p, a, h, view)
      PROVE  FindsOK(p)'
  <2>1. CASE UNCHANGED req
    BY <1>0, <2>1, FindsStay
  <2>. DEFINE due == IF sess[<<a, h>>] = {} THEN {} ELSE ActiveFor({a})
  <2>2. CASE req' = [req EXCEPT ![p] = [Idle EXCEPT !.pc = view, !.admin = {a}, !.host = {h},
                                                    !.due = due]]
    <3>1. /\ req'[p].pc = view /\ req'[p].admin = {a} /\ req'[p].due = due
          /\ UNCHANGED row
      <4>. HIDE DEF due
      <4>. QED
        BY <1>5, <2>2 DEF Gate, Idle
    <3>2. view \in {"logout", "endbutton"} => due = ActiveFor({a})
      BY <1>5 DEF Gate
    <3>3. view # "ending"
      BY DEF TenantViews
    <3>4. ActiveFor({a})' = ActiveFor({a})
      BY <3>1 DEF ActiveFor, Active, Exists
    <3>. HIDE DEF due
    <3>. QED
      BY <3>1, <3>2, <3>3, <3>4 DEF FindsOK
  <2>. QED
    BY <1>5, <2>1, <2>2 DEF Gate
<1>6. CASE EndRead(p)
  <2>. DEFINE who == IF req[p].pc = "logout" THEN UNION {Target(r) : r \in req[p].due}
                                             ELSE req[p].admin
  <2>1. /\ req[p].pc \in {"logout", "endbutton"}
        /\ req' = [req EXCEPT ![p].pc = "ending", ![p].row = ActiveFor(req[p].admin), ![p].by = who]
    BY <1>6 DEF EndRead
  <2>2. /\ req'[p].pc = "ending" /\ req'[p].row = ActiveFor(req[p].admin)
        /\ req'[p].due = req[p].due
    <3>. HIDE DEF who
    <3>. QED
      BY <1>0, <2>1 DEF RequestRecords
  <2>. QED
    BY <1>0, <2>1, <2>2 DEF FindsOK
<1>7. CASE EndIt(p)
  <2>1. req'[p].pc = "flush"
    BY <1>0, <1>7 DEF EndIt, RequestRecords
  <2>. QED
    BY <2>1 DEF FindsOK
<1>. QED
  BY <1>1, <1>2, <1>3, <1>4, <1>5, <1>6, <1>7, HowRequestsChange DEF Moves

(* TenantLogoutView and EndImpersonationFromTenantView: if the admin       *)
(* starts nothing while a request is on its way from the middleware to the *)
(* view's read, it ends the impersonation it came by and no other.         *)
THEOREM LogoutsEndTheirOwn == Spec /\ StartsApart => []LogoutEndsNoOther
<1>1. Init => FindsInv
  BY DEF Init, FindsInv, FindsOK, Idle
<1>2. FindsInv => LogoutEndsNoOther
  BY DEF FindsInv, FindsOK, LogoutEndsNoOther
<1>3. ImpTypeOK /\ FindsInv /\ [NoneBetween]_impVars /\ [Next]_impVars => FindsInv'
  <2>1. ASSUME ImpTypeOK, FindsInv, UNCHANGED impVars PROVE FindsInv'
    BY <2>1 DEF impVars, FindsInv, FindsOK, ActiveFor, Active, Exists
  <2>. QED
    BY <2>1, FindsStep
<1>4. StartsApart <=> [][NoneBetween]_impVars
  BY DEF StartsApart, NoneBetween
<1>. QED
  BY <1>1, <1>2, <1>3, <1>4, ImpTyped, PTL DEF Spec

=============================================================================
