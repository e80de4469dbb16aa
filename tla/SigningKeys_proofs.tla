-------------------------- MODULE SigningKeys_proofs --------------------------
(***************************************************************************)
(* Proofs about the signing-key lifecycle, for any set of key ids, any     *)
(* number of operators and any bound on timestamps.                        *)
(***************************************************************************)
EXTENDS SigningKeys, WellFoundedInduction, TLAPS

\* The two places of a request at which its row is inserted, not committed.
Inserted(o) == op[o].pc \in {"c_commit", "r_commit"}

(* What makes the type invariant inductive.  An uncommitted row carries a  *)
(* real timestamp, its key_id is not that of a committed row nor of        *)
(* another uncommitted one (the unique index), and the row objects a       *)
(* rotation holds are rows, for rows are never deleted.                    *)
KeyInv ==
    /\ KeyTypeOK
    /\ \A o \in Operators :
         /\ op[o].prev \subseteq Rows
         /\ op[o].over \subseteq Rows
         /\ Inserted(o) => op[o].at # 0 /\ op[o].id \cap Rows = {}
    /\ \A o, p \in Operators :
         o # p /\ Inserted(o) /\ Inserted(p) => op[o].id \cap op[p].id = {}

(* A step that only moves one request, to a place where the invariant      *)
(* holds of it, preserves the invariant.                                   *)
LEMMA RequestStep ==
    ASSUME KeyInv, UNCHANGED <<at, promoted, retired>>, now' \in Nat,
           NEW o \in Operators, NEW r \in Requests,
           op' = [op EXCEPT ![o] = r],
           r.prev \subseteq Rows, r.over \subseteq Rows,
           r.pc \notin {"c_commit", "r_commit"}
    PROVE  KeyInv'
BY DEF KeyInv, KeyTypeOK, Inserted, Rows

(* INSERT: the row takes the next timestamp and owns its key_id.           *)
LEMMA InsertStep ==
    ASSUME KeyInv, NEW o \in Operators,
           NEW inserting \in Steps, NEW inserted \in {"c_commit", "r_commit"},
           Insert(o, inserting, inserted)
    PROVE  KeyInv'
<1>. USE DEF KeyInv, KeyTypeOK, Requests
<1>1. CASE GiveUp(o) /\ now' = now
  <2>1. op' = [op EXCEPT ![o] = Idle]
    BY <1>1 DEF GiveUp
  <2>2. Idle \in Requests /\ Idle.prev \subseteq Rows /\ Idle.over \subseteq Rows
        /\ Idle.pc \notin {"c_commit", "r_commit"}
    BY DEF Idle, Steps
  <2>. QED
    BY <1>1, <2>1, <2>2, RequestStep DEF Insert
<1>2. CASE /\ op[o].id \cap Rows = {}
           /\ now' = now + 1
           /\ op' = [op EXCEPT ![o].pc = inserted, ![o].at = now + 1]
  <2>1. KeyTypeOK'
    <3>. DEFINE r == [op[o] EXCEPT !.pc = inserted, !.at = now + 1]
    <3>1. inserted \in Steps /\ now + 1 \in Nat /\ op[o] \in Requests
      BY DEF Steps
    <3>2. r \in Requests
      BY <3>1
    <3>3. op' = [op EXCEPT ![o] = r]
      BY <1>2
    <3>4. op' \in [Operators -> Requests]
      BY <3>2, <3>3
    <3>. QED
      BY <1>2, <3>1, <3>4 DEF Insert, Rows
  <2>2. Rows' = Rows
    BY DEF Insert, Rows
  <2>3. \A p \in Operators : op'[p].id = op[p].id /\ op'[p].prev = op[p].prev
                             /\ op'[p].over = op[p].over
    BY <1>2
  <2>4. \A p \in Operators : p # o => op'[p] = op[p]
    BY <1>2
  <2>5. op'[o].at # 0 /\ op'[o].id \cap Rows = {}
    BY <1>2
  <2>6. \A p \in Operators : p # o /\ Inserted(p) => op[p].id \cap op[o].id = {}
    BY DEF Insert, IdInserted, Inserted
  <2>. QED
    BY <2>1, <2>2, <2>3, <2>4, <2>5, <2>6 DEF Inserted
<1>. QED
  BY <1>1, <1>2 DEF Insert

(* COMMIT of an inserted row, with what a rotation promotes and retires.   *)
LEMMA CommitStep ==
    ASSUME KeyInv, NEW o \in Operators, Inserted(o),
           NEW P, NEW R,
           P \subseteq op[o].id, R \subseteq Rows,
           at' = RowsWith(o), promoted' = promoted \cup P,
           retired' = retired \cup R, now' = now, GiveUp(o)
    PROVE  KeyInv' /\ Rows' = Rows \cup op[o].id
<1>. USE DEF KeyInv, KeyTypeOK, Requests
<1>1. Rows' = Rows \cup op[o].id
  BY DEF Rows, RowsWith, Inserted
<1>2. op' = [op EXCEPT ![o] = Idle] /\ Idle \in Requests
  BY DEF GiveUp, Idle, Steps
<1>3. KeyTypeOK'
  BY <1>1, <1>2 DEF RowsWith
<1>4. ASSUME NEW p \in Operators
      PROVE  /\ op'[p].prev \subseteq Rows' /\ op'[p].over \subseteq Rows'
             /\ Inserted(p)' => p # o /\ op'[p] = op[p]
  <2>1. CASE p = o
    BY <1>2, <2>1 DEF Inserted, Idle
  <2>2. CASE p # o
    BY <1>1, <1>2, <2>2
  <2>. QED
    BY <2>1, <2>2
<1>. QED
  BY <1>1, <1>3, <1>4 DEF Inserted

LEMMA KeyInvInit == Init => KeyInv
BY DEF Init, KeyInv, KeyTypeOK, Requests, Steps, Idle, Inserted, Rows

LEMMA KeyInvStep == KeyInv /\ [Next]_keyVars => KeyInv'
<1>. SUFFICES ASSUME KeyInv, [Next]_keyVars PROVE KeyInv'
  OBVIOUS
<1>0. CASE UNCHANGED keyVars
  BY <1>0 DEF keyVars, KeyInv, KeyTypeOK, Inserted, Rows
<1>a. ASSUME NEW o \in Operators, GiveUp(o), UNCHANGED <<at, promoted, retired, now>>
      PROVE  KeyInv'
  <2>1. Idle \in Requests /\ Idle.prev \subseteq Rows /\ Idle.over \subseteq Rows
        /\ Idle.pc \notin {"c_commit", "r_commit"}
    BY DEF Idle, Steps, Requests
  <2>. QED
    BY <1>a, <2>1, RequestStep DEF GiveUp, KeyInv, KeyTypeOK
<1>b. ASSUME NEW o \in Operators, NEW step \in Steps \ {"c_commit", "r_commit"},
             Goto(o, step), UNCHANGED <<at, promoted, retired, now>>
      PROVE  KeyInv'
  <2>. DEFINE r == [op[o] EXCEPT !.pc = step]
  <2>1. r \in Requests /\ r.prev \subseteq Rows /\ r.over \subseteq Rows
        /\ r.pc \notin {"c_commit", "r_commit"}
    BY DEF KeyInv, KeyTypeOK, Requests
  <2>2. op' = [op EXCEPT ![o] = r]
    BY <1>b DEF Goto, KeyInv, KeyTypeOK, Requests
  <2>3. UNCHANGED <<at, promoted, retired>> /\ now' \in Nat
    BY <1>b DEF KeyInv, KeyTypeOK
  <2>. HIDE DEF r
  <2>. QED
    BY <2>1, <2>2, <2>3, RequestStep
<1>. SUFFICES ASSUME NEW o \in Operators,
                     \/ Create(o)
                     \/ \E k \in KeyIds : Promote(o, k) \/ Retire(o, k)
                     \/ Rotate(o)
                     \/ RollBack(o)
              PROVE  KeyInv'
  BY <1>0 DEF Next
<1>1. ASSUME NEW k \in KeyIds, CreateExists(o, k) PROVE KeyInv'
  <2>. DEFINE r == [Idle EXCEPT !.pc = "c_count", !.id = {k}]
  <2>1. r \in Requests /\ r.prev \subseteq Rows /\ r.over \subseteq Rows
        /\ r.pc \notin {"c_commit", "r_commit"}
    BY DEF Requests, Steps, Idle
  <2>2. op' = [op EXCEPT ![o] = r] /\ UNCHANGED <<at, promoted, retired>> /\ now' \in Nat
    BY <1>1 DEF CreateExists, KeyInv, KeyTypeOK
  <2>. HIDE DEF r
  <2>. QED
    BY <2>1, <2>2, RequestStep
<1>2. CASE CreateCount(o)
  BY <1>2, <1>a, <1>b DEF CreateCount, Steps
<1>3. CASE CreateInsert(o)
  BY <1>3, InsertStep DEF CreateInsert, Steps
<1>4. CASE CreateCommit(o)
  <2>1. Inserted(o)
    BY <1>4 DEF CreateCommit, Inserted
  <2>2. promoted' = promoted \cup {} /\ retired' = retired \cup {}
    BY <1>4 DEF CreateCommit
  <2>. QED
    BY <1>4, <2>1, <2>2, CommitStep DEF CreateCommit
<1>5. ASSUME NEW k \in KeyIds, Promote(o, k) PROVE KeyInv'
  BY <1>5 DEF Promote, KeyInv, KeyTypeOK, Inserted, Rows
<1>6. ASSUME NEW k \in KeyIds, Retire(o, k) PROVE KeyInv'
  BY <1>6 DEF Retire, KeyInv, KeyTypeOK, Inserted, Rows
<1>7. ASSUME NEW k \in KeyIds, RotateRead(o, k) PROVE KeyInv'
  <2>. DEFINE r == [Idle EXCEPT !.pc = "r_exists", !.id = {k}, !.prev = Newest]
  <2>1. r \in Requests /\ r.prev \subseteq Rows /\ r.over \subseteq Rows
        /\ r.pc \notin {"c_commit", "r_commit"}
    BY DEF Requests, Steps, Idle, Newest, Active, Rows
  <2>2. op' = [op EXCEPT ![o] = r] /\ UNCHANGED <<at, promoted, retired>> /\ now' \in Nat
    BY <1>7 DEF RotateRead, KeyInv, KeyTypeOK
  <2>. HIDE DEF r
  <2>. QED
    BY <2>1, <2>2, RequestStep
<1>8. CASE RotateExists(o)
  BY <1>8, <1>a, <1>b DEF RotateExists, Steps
<1>9. CASE RotateCount(o)
  BY <1>9, <1>b DEF RotateCount, Steps
<1>10. CASE RotateFirst(o)
  <2>1. CASE GiveUp(o)
    BY <1>10, <2>1, <1>a DEF RotateFirst
  <2>2. CASE op' = [op EXCEPT ![o].pc = "r_retire", ![o].over = Oldest]
    <3>. DEFINE r == [op[o] EXCEPT !.pc = "r_retire", !.over = Oldest]
    <3>1. r \in Requests /\ r.prev \subseteq Rows /\ r.over \subseteq Rows
          /\ r.pc \notin {"c_commit", "r_commit"}
      BY DEF KeyInv, KeyTypeOK, Requests, Steps, Oldest, Active, Rows
    <3>2. op' = [op EXCEPT ![o] = r]
      BY <2>2 DEF KeyInv, KeyTypeOK, Requests
    <3>3. UNCHANGED <<at, promoted, retired>> /\ now' \in Nat
      BY <1>10 DEF RotateFirst, KeyInv, KeyTypeOK
    <3>. HIDE DEF r
    <3>. QED
      BY <3>1, <3>2, <3>3, RequestStep
  <2>. QED
    BY <1>10, <2>1, <2>2 DEF RotateFirst
<1>10a. CASE RotateRetire(o)
  BY <1>10a, <1>b DEF RotateRetire, Steps
<1>11. CASE RotateInsert(o)
  BY <1>11, InsertStep DEF RotateInsert, Steps
<1>12. CASE RotateCommit(o)
  <2>1. Inserted(o) /\ op[o].over \cup op[o].prev \subseteq Rows
    BY <1>12 DEF RotateCommit, Inserted, KeyInv
  <2>2. retired' = retired \cup (op[o].over \cup op[o].prev)
    BY <1>12 DEF RotateCommit
  <2>. QED
    BY <1>12, <2>1, <2>2, CommitStep DEF RotateCommit
<1>13. CASE RollBack(o)
  BY <1>13, <1>a DEF RollBack
<1>. QED
  BY <1>1, <1>2, <1>3, <1>4, <1>5, <1>6, <1>7, <1>8, <1>9, <1>10, <1>10a, <1>11, <1>12, <1>13
     DEF Create, Rotate

(* Type correctness of the key rows and of the requests in flight.         *)
THEOREM KeysTyped == Spec => []KeyTypeOK
<1>1. Spec => []KeyInv
  BY KeyInvInit, KeyInvStep, PTL DEF Spec
<1>2. KeyInv => KeyTypeOK
  BY DEF KeyInv
<1>. QED
  BY <1>1, <1>2, PTL

-----------------------------------------------------------------------------
(* Rows only move forward.  The invariant is needed for the two commits:   *)
(* an inserted row must not overwrite a committed one.                     *)
LEMMA ForwardStep ==
    KeyInv /\ [Next]_keyVars =>
      [/\ \A k \in Rows : at'[k] = at[k]
       /\ promoted \subseteq promoted'
       /\ retired \subseteq retired'
       /\ \A k \in retired' \ retired :
            k \in promoted \/ \E o \in Operators : RotateCommit(o)
      ]_keyVars
<1>. DEFINE Forward ==
       /\ \A k \in Rows : at'[k] = at[k]
       /\ promoted \subseteq promoted'
       /\ retired \subseteq retired'
       /\ \A k \in retired' \ retired :
            k \in promoted \/ \E o \in Operators : RotateCommit(o)
<1>. SUFFICES ASSUME KeyInv, NEW o \in Operators,
                     \/ Create(o)
                     \/ \E k \in KeyIds : Promote(o, k) \/ Retire(o, k)
                     \/ Rotate(o)
                     \/ RollBack(o)
              PROVE  Forward
  BY DEF Next
<1>1. UNCHANGED <<at, promoted, retired>> => Forward
  BY DEF Rows
<1>2. ASSUME Inserted(o), at' = RowsWith(o) PROVE \A k \in Rows : at'[k] = at[k]
  BY <1>2 DEF RowsWith, Rows, KeyInv
<1>3. CASE CreateCommit(o)
  BY <1>2, <1>3 DEF CreateCommit, Inserted
<1>4. CASE RotateCommit(o)
  BY <1>2, <1>4 DEF RotateCommit, Inserted
<1>5. ASSUME NEW k \in KeyIds, Promote(o, k) \/ Retire(o, k) PROVE Forward
  BY <1>5 DEF Promote, Retire, Rows
<1>6. CASE (Create(o) /\ ~CreateCommit(o)) \/ (Rotate(o) /\ ~RotateCommit(o)) \/ RollBack(o)
  <2>1. UNCHANGED <<at, promoted, retired>>
    BY <1>6 DEF Create, Rotate, RollBack, CreateExists, CreateCount, CreateInsert, Insert,
                RotateRead, RotateExists, RotateCount, RotateFirst, RotateRetire, Goto,
                RotateInsert
  <2>. QED
    BY <1>1, <2>1
<1>. QED
  BY <1>3, <1>4, <1>5, <1>6

(* No interleaving of key requests moves a key row backwards.              *)
THEOREM KeysMoveForward == Spec => RowsMoveForward
<1>1. Spec => []KeyInv
  BY KeyInvInit, KeyInvStep, PTL DEF Spec
<1>. QED
  BY <1>1, ForwardStep, PTL DEF Spec, RowsMoveForward

-----------------------------------------------------------------------------
(* The two-key limit, when requests do not overlap.  A set with fewer than *)
(* two keys is written without cardinalities.                              *)
AtMostOne(S) == \A a, b \in S : a = b

(* Between a request's check and its commit nobody else adds a key, so     *)
(* what it counted, less what it holds for retirement, stays at most one.  *)
LimitInv ==
    /\ KeyInv
    /\ AtMostTwoActive
    /\ \A o \in Operators :
         /\ AtMostOne(op[o].id)
         /\ op[o].pc \in {"c_insert", "c_commit"} => AtMostOne(Active)
         /\ op[o].pc \in {"r_retire", "r_insert", "r_commit"} => AtMostOne(Active \ op[o].over)

LEMMA OneRow ==
    ASSUME NEW S, AtMostOne(S), NEW I, AtMostOne(I), NEW T, T \subseteq S \cup I
    PROVE  \A a, b, c \in T : a = b \/ b = c \/ a = c
BY DEF AtMostOne

LEMMA LimitStep ==
    LimitInv /\ OneAtATime /\ OneAtATime' /\ [Next]_keyVars => LimitInv'
<1>. SUFFICES ASSUME LimitInv, OneAtATime, OneAtATime', [Next]_keyVars PROVE LimitInv'
  OBVIOUS
<1>0. KeyInv'
  BY KeyInvStep DEF LimitInv
<1>1. CASE UNCHANGED keyVars
  BY <1>0, <1>1 DEF keyVars, LimitInv, AtMostTwoActive, AtMostOne, Active, Rows
<1>2. ASSUME Active' \subseteq Active,
             \A o \in Operators :
               /\ AtMostOne(op'[o].id)
               /\ op'[o].pc \in {"c_insert", "c_commit"} => AtMostOne(Active')
               /\ op'[o].pc \in {"r_retire", "r_insert", "r_commit"} => AtMostOne(Active' \ op'[o].over)
      PROVE  LimitInv'
  BY <1>0, <1>2 DEF LimitInv, AtMostTwoActive, AtMostOne
<1>. SUFFICES ASSUME NEW o \in Operators,
                     \/ Create(o)
                     \/ \E k \in KeyIds : Promote(o, k) \/ Retire(o, k)
                     \/ Rotate(o)
                     \/ RollBack(o)
              PROVE  LimitInv'
  BY <1>1 DEF Next
<1>3. ASSUME Active' \subseteq Active, NEW r, op' = [op EXCEPT ![o] = r],
             AtMostOne(r.id),
             r.pc \in {"c_insert", "c_commit"} => AtMostOne(Active),
             r.pc \in {"r_retire", "r_insert", "r_commit"} => AtMostOne(Active \ r.over)
      PROVE  LimitInv'
  <2>1. \A p \in Operators : op'[p] = IF p = o THEN r ELSE op[p]
    BY <1>3 DEF LimitInv, KeyInv, KeyTypeOK
  <2>. QED
    BY <1>2, <1>3, <2>1 DEF LimitInv, AtMostOne
<1>4. ASSUME GiveUp(o), Active' \subseteq Active PROVE LimitInv'
  <2>1. AtMostOne(Idle.id) /\ Idle.pc = "idle"
    BY DEF Idle, AtMostOne
  <2>. QED
    BY <1>3, <1>4, <2>1 DEF GiveUp
<1>5. UNCHANGED <<at, retired>> => Active' = Active
  BY DEF Active, Rows
<1>6. op \in [Operators -> Requests] /\ AtMostOne(op[o].id)
  BY DEF LimitInv, KeyInv, KeyTypeOK
<1>7. ~AtLimit => AtMostOne(Active)
  BY DEF AtLimit, AtMostOne
<1>8. ASSUME Inserted(o), at' = RowsWith(o), GiveUp(o),
             AtMostTwoActive'
      PROVE  LimitInv'
  <2>1. \A p \in Operators : op'[p].pc = "idle" /\ AtMostOne(op'[p].id)
    BY <1>8, <1>6 DEF OneAtATime, Inserted, GiveUp, Idle, LimitInv, AtMostOne
  <2>. QED
    BY <1>0, <1>8, <2>1 DEF LimitInv
<1>9. ASSUME NEW k \in KeyIds, CreateExists(o, k) PROVE LimitInv'
  <2>. DEFINE r == [Idle EXCEPT !.pc = "c_count", !.id = {k}]
  <2>1. AtMostOne(r.id) /\ r.pc = "c_count" /\ op' = [op EXCEPT ![o] = r]
    BY <1>9 DEF CreateExists, Idle, AtMostOne
  <2>. HIDE DEF r
  <2>. QED
    BY <1>3, <1>5, <1>9, <2>1 DEF CreateExists
<1>10. ASSUME NEW step \in Steps, Goto(o, step), UNCHANGED <<at, retired>>,
              step = "c_insert" => AtMostOne(Active),
              step = "r_insert" => AtMostOne(Active \ op[o].over),
              step \notin {"c_commit", "r_commit", "r_retire"}
       PROVE  LimitInv'
  <2>. DEFINE r == [op[o] EXCEPT !.pc = step]
  <2>1. r.pc = step /\ r.id = op[o].id /\ r.over = op[o].over
    BY <1>6 DEF Requests
  <2>2. op' = [op EXCEPT ![o] = r]
    BY <1>10 DEF Goto
  <2>3. AtMostOne(Active) => AtMostOne(Active \ r.over)
    BY DEF AtMostOne
  <2>. HIDE DEF r
  <2>. QED
    BY <1>3, <1>5, <1>6, <1>10, <2>1, <2>2, <2>3
<1>11. CASE CreateCount(o)
  BY <1>4, <1>5, <1>7, <1>10, <1>11 DEF CreateCount, Steps
<1>12. ASSUME NEW inserting \in Steps, NEW inserted \in Steps,
              <<inserting, inserted>> \in
                {<<"c_insert", "c_commit">>, <<"r_insert", "r_commit">>},
              Insert(o, inserting, inserted)
       PROVE  LimitInv'
  <2>1. CASE GiveUp(o)
    BY <1>4, <1>5, <1>12, <2>1 DEF Insert
  <2>2. CASE op' = [op EXCEPT ![o].pc = inserted, ![o].at = now + 1]
    <3>. DEFINE r == [op[o] EXCEPT !.pc = inserted, !.at = now + 1]
    <3>1. r.pc = inserted /\ r.id = op[o].id /\ r.over = op[o].over
      BY <1>6 DEF Requests
    <3>2. op' = [op EXCEPT ![o] = r]
      BY <2>2
    <3>3. op[o].pc = inserting
      BY <1>12 DEF Insert
    <3>. HIDE DEF r
    <3>. QED
      BY <1>3, <1>5, <1>6, <1>12, <3>1, <3>2, <3>3 DEF Insert, LimitInv
  <2>. QED
    BY <1>12, <2>1, <2>2 DEF Insert
<1>13. CASE CreateCommit(o)
  <2>1. Inserted(o) /\ AtMostOne(Active) /\ Active' \subseteq Active \cup op[o].id
    BY <1>13 DEF CreateCommit, Inserted, LimitInv, RowsWith, Active, Rows
  <2>2. AtMostTwoActive'
    BY <1>6, <2>1, OneRow DEF AtMostTwoActive
  <2>. QED
    BY <1>8, <1>13, <2>1, <2>2 DEF CreateCommit
<1>14. ASSUME NEW k \in KeyIds, Promote(o, k) PROVE LimitInv'
  BY <1>2, <1>5, <1>14 DEF Promote, LimitInv
<1>15. ASSUME NEW k \in KeyIds, Retire(o, k) PROVE LimitInv'
  <2>1. Active' \subseteq Active /\ op' = op
    BY <1>15 DEF Retire, Active, Rows
  <2>. QED
    BY <1>2, <2>1 DEF LimitInv, AtMostOne
<1>16. ASSUME NEW k \in KeyIds, RotateRead(o, k) PROVE LimitInv'
  <2>. DEFINE r == [Idle EXCEPT !.pc = "r_exists", !.id = {k}, !.prev = Newest]
  <2>1. AtMostOne(r.id) /\ r.pc = "r_exists" /\ op' = [op EXCEPT ![o] = r]
    BY <1>16 DEF RotateRead, Idle, AtMostOne
  <2>. HIDE DEF r
  <2>. QED
    BY <1>3, <1>5, <1>16, <2>1 DEF RotateRead
<1>17. CASE RotateExists(o)
  BY <1>4, <1>5, <1>10, <1>17 DEF RotateExists, Steps
<1>18. CASE RotateCount(o)
  <2>1. AtMostOne(Active) => AtMostOne(Active \ op[o].over)
    BY DEF AtMostOne
  <2>. QED
    BY <1>5, <1>7, <1>10, <1>18, <2>1 DEF RotateCount, Steps
<1>19. CASE RotateFirst(o)
  <2>1. CASE GiveUp(o)
    BY <1>4, <1>5, <1>19, <2>1 DEF RotateFirst
  <2>2. CASE Active # {} /\ op' = [op EXCEPT ![o].pc = "r_retire", ![o].over = Oldest]
    <3>. DEFINE r == [op[o] EXCEPT !.pc = "r_retire", !.over = Oldest]
    <3>1. r.pc = "r_retire" /\ r.id = op[o].id /\ r.over = Oldest
      BY <1>6 DEF Requests
    <3>2. op' = [op EXCEPT ![o] = r]
      BY <2>2
    <3>3. AtMostOne(Active \ Oldest)
      <4>1. \A k \in Active : at[k] \in Nat
        BY DEF LimitInv, KeyInv, KeyTypeOK, Active, Rows
      <4>2. SUFFICES ASSUME NEW a \in Active \ Oldest, NEW b \in Active \ Oldest, a # b
                     PROVE  FALSE
        BY DEF AtMostOne
      <4>3. PICK x \in Active : ~(at[a] <= at[x])
        BY <4>2 DEF Oldest
      <4>4. PICK y \in Active : ~(at[b] <= at[y])
        BY <4>2 DEF Oldest
      <4>5. x = b /\ y = a
        BY <4>1, <4>2, <4>3, <4>4 DEF LimitInv, AtMostTwoActive
      <4>. QED
        BY <4>1, <4>3, <4>4, <4>5
    <3>. HIDE DEF r
    <3>. QED
      BY <1>3, <1>5, <1>6, <1>19, <3>1, <3>2, <3>3 DEF RotateFirst
  <2>. QED
    BY <1>19, <2>1, <2>2 DEF RotateFirst
<1>19a. CASE RotateRetire(o)
  <2>1. AtMostOne(Active \ op[o].over)
    BY <1>19a DEF RotateRetire, LimitInv
  <2>. QED
    BY <1>10, <1>19a, <2>1 DEF RotateRetire, Steps
<1>20. CASE RotateCommit(o)
  <2>1. /\ Inserted(o) /\ AtMostOne(Active \ op[o].over)
        /\ Active' \subseteq (Active \ op[o].over) \cup op[o].id
    BY <1>20 DEF RotateCommit, Inserted, LimitInv, RowsWith, Active, Rows
  <2>2. AtMostTwoActive'
    BY <1>6, <2>1, OneRow DEF AtMostTwoActive
  <2>. QED
    BY <1>8, <1>20, <2>1, <2>2 DEF RotateCommit
<1>21. CASE RollBack(o)
  BY <1>4, <1>5, <1>21 DEF RollBack
<1>22. CASE CreateInsert(o)
  <2>1. Insert(o, "c_insert", "c_commit")
    BY <1>22 DEF CreateInsert
  <2>. QED
    BY <1>12, <2>1, Zenon DEF Steps
<1>23. CASE RotateInsert(o)
  <2>1. Insert(o, "r_insert", "r_commit")
    BY <1>23 DEF RotateInsert
  <2>. QED
    BY <1>12, <2>1, Zenon DEF Steps
<1>24. CASE Create(o)
  BY <1>9, <1>11, <1>13, <1>22, <1>24 DEF Create
<1>25. CASE Rotate(o)
  BY <1>16, <1>17, <1>18, <1>19, <1>19a, <1>20, <1>23, <1>25 DEF Rotate
<1>. QED
  BY <1>14, <1>15, <1>21, <1>24, <1>25

(* With any number of operators, the model's promise of at most two active *)
(* keys is kept as long as no request starts while another is open.        *)
THEOREM SerialRequestsKeepLimit == Spec /\ []OneAtATime => []AtMostTwoActive
<1>1. Init => LimitInv
  BY KeyInvInit DEF Init, LimitInv, AtMostTwoActive, AtMostOne, Active, Rows, Idle
<1>2. LimitInv => AtMostTwoActive
  BY DEF LimitInv
<1>. QED
  BY <1>1, <1>2, LimitStep, PTL DEF Spec

-----------------------------------------------------------------------------
(* Requests name one key, and rows are told apart by their created_at: it  *)
(* is drawn when the row is inserted, later than all that were drawn.      *)
StampInv ==
    /\ \A o \in Operators : AtMostOne(op[o].id) /\ (op[o].pc # "idle" => op[o].id # {})
    /\ \A k \in Rows : at[k] <= now
    /\ \A j, k \in Rows : at[j] = at[k] => j = k
    /\ \A o \in Operators : Inserted(o) => op[o].at <= now /\ \A k \in Rows : at[k] # op[o].at
    /\ \A o, p \in Operators : o # p /\ Inserted(o) /\ Inserted(p) => op[o].at # op[p].at

\* A step of one request before its row is inserted.
LEMMA StampMove ==
    ASSUME KeyInv, StampInv, NEW o \in Operators, NEW r, op' = [op EXCEPT ![o] = r],
           AtMostOne(r.id), r.pc # "idle" => r.id # {}, r.pc \notin {"c_commit", "r_commit"},
           UNCHANGED <<at, now>>
    PROVE  StampInv'
<1>1. \A p \in Operators : op'[p] = IF p = o THEN r ELSE op[p]
  BY DEF KeyInv, KeyTypeOK
<1>2. Rows' = Rows
  BY DEF Rows
<1>3. \A p \in Operators : Inserted(p)' => p # o /\ Inserted(p) /\ op'[p] = op[p]
  BY <1>1 DEF Inserted
<1>4. \A p \in Operators : AtMostOne(op'[p].id) /\ (op'[p].pc # "idle" => op'[p].id # {})
  BY <1>1 DEF StampInv
<1>5. \A p \in Operators : Inserted(p)' => op'[p].at <= now' /\ \A k \in Rows' : at'[k] # op'[p].at
  BY <1>2, <1>3 DEF StampInv
<1>6. \A p, q \in Operators : p # q /\ Inserted(p)' /\ Inserted(q)' => op'[p].at # op'[q].at
  BY <1>3 DEF StampInv
<1>. QED
  BY <1>2, <1>4, <1>5, <1>6 DEF StampInv

LEMMA StampGiveUp ==
    ASSUME KeyInv, StampInv, NEW o \in Operators, GiveUp(o), UNCHANGED <<at, now>>
    PROVE  StampInv'
<1>1. AtMostOne(Idle.id) /\ Idle.pc = "idle" /\ op' = [op EXCEPT ![o] = Idle]
  BY DEF GiveUp, Idle, AtMostOne
<1>. QED
  BY <1>1, StampMove

LEMMA StampGoto ==
    ASSUME KeyInv, StampInv, NEW o \in Operators, NEW step, Goto(o, step), op[o].pc # "idle",
           step \notin {"c_commit", "r_commit"}, UNCHANGED <<at, now>>
    PROVE  StampInv'
<1>. DEFINE r == [op[o] EXCEPT !.pc = step]
<1>1. op[o] \in Requests
  BY DEF KeyInv, KeyTypeOK
<1>2. r.pc = step /\ r.id = op[o].id /\ op' = [op EXCEPT ![o] = r]
  BY <1>1 DEF Goto, Requests, KeyInv, KeyTypeOK
<1>. HIDE DEF r
<1>. QED
  BY <1>2, StampMove DEF StampInv

LEMMA StampInsert ==
    ASSUME KeyInv, StampInv, NEW o \in Operators, NEW inserting, NEW inserted,
           Insert(o, inserting, inserted), op[o].pc # "idle"
    PROVE  StampInv'
<1>1. CASE GiveUp(o) /\ now' = now
  BY <1>1, StampGiveUp DEF Insert
<1>2. CASE /\ now' = now + 1
           /\ op' = [op EXCEPT ![o].pc = inserted, ![o].at = now + 1]
  <2>. DEFINE r == [op[o] EXCEPT !.pc = inserted, !.at = now + 1]
  <2>1. op \in [Operators -> Requests] /\ now \in Nat /\ at \in [KeyIds -> Nat]
    BY DEF KeyInv, KeyTypeOK
  <2>2. r.pc = inserted /\ r.id = op[o].id /\ r.at = now + 1 /\ op' = [op EXCEPT ![o] = r]
    BY <1>2, <2>1 DEF Requests
  <2>. HIDE DEF r
  <2>3. \A p \in Operators : op'[p] = IF p = o THEN r ELSE op[p]
    BY <2>1, <2>2
  <2>4. at' = at /\ Rows' = Rows /\ Rows \subseteq KeyIds
    BY DEF Insert, Rows
  <2>5. \A p \in Operators : p # o => (Inserted(p)' <=> Inserted(p))
    BY <2>3 DEF Inserted
  <2>6. \A p \in Operators : op[p].at \in Nat
    BY <2>1 DEF Requests
  <2>7. \A p \in Operators : AtMostOne(op'[p].id) /\ (op'[p].pc # "idle" => op'[p].id # {})
    BY <2>2, <2>3 DEF StampInv
  <2>8. \A k \in Rows : at[k] \in Nat /\ at[k] <= now
    BY <2>1, <2>4 DEF StampInv
  <2>9. ASSUME NEW p \in Operators, Inserted(p)'
        PROVE  op'[p].at <= now' /\ \A k \in Rows' : at'[k] # op'[p].at
    <3>1. CASE p = o
      BY <1>2, <2>1, <2>2, <2>3, <2>4, <2>8, <3>1
    <3>2. CASE p # o
      BY <1>2, <2>1, <2>3, <2>4, <2>5, <2>6, <2>9, <3>2 DEF StampInv
    <3>. QED
      BY <3>1, <3>2
  <2>10. ASSUME NEW p \in Operators, NEW q \in Operators, p # q, Inserted(p)', Inserted(q)'
         PROVE  op'[p].at # op'[q].at
    <3>1. CASE p # o /\ q # o
      BY <2>3, <2>5, <2>10, <3>1 DEF StampInv
    <3>2. \A x \in Operators : x # o /\ Inserted(x)' => op'[x].at \in Nat /\ op'[x].at <= now
      BY <2>3, <2>5, <2>6 DEF StampInv
    <3>3. op'[o].at = now + 1
      BY <2>2, <2>3
    <3>. QED
      BY <2>1, <2>10, <3>1, <3>2, <3>3
  <2>11. \A k \in Rows' : at'[k] <= now'
    BY <1>2, <2>1, <2>4, <2>8
  <2>12. \A j, k \in Rows' : at'[j] = at'[k] => j = k
    BY <2>4 DEF StampInv
  <2>. QED
    BY <2>7, <2>9, <2>10, <2>11, <2>12 DEF StampInv
<1>. QED
  BY <1>1, <1>2 DEF Insert

LEMMA StampCommit ==
    ASSUME KeyInv, StampInv, NEW o \in Operators, Inserted(o), at' = RowsWith(o), GiveUp(o),
           now' = now
    PROVE  StampInv'
<1>1. op \in [Operators -> Requests] /\ now \in Nat /\ at \in [KeyIds -> Nat]
  BY DEF KeyInv, KeyTypeOK
<1>2. PICK k \in KeyIds : op[o].id = {k}
  <2>1. op[o].id # {} /\ op[o].id \subseteq KeyIds /\ AtMostOne(op[o].id)
    BY <1>1 DEF StampInv, Inserted, Requests
  <2>2. PICK k : k \in op[o].id
    BY <2>1
  <2>3. op[o].id = {k}
    BY <2>1, <2>2 DEF AtMostOne
  <2>. QED
    BY <2>1, <2>3
<1>3. at' = [at EXCEPT ![k] = op[o].at]
  BY <1>1, <1>2 DEF RowsWith
<1>4. op[o].at # 0 /\ k \notin Rows /\ op[o].at \in Nat /\ op[o].at <= now
  BY <1>1, <1>2 DEF KeyInv, StampInv, Requests
<1>5. Rows' = Rows \cup {k}
  BY <1>1, <1>3, <1>4 DEF Rows
<1>6. \A j \in Rows : at'[j] = at[j]
  BY <1>3, <1>4, <1>1 DEF Rows
<1>7. at'[k] = op[o].at
  BY <1>1, <1>3
<1>8. \A p \in Operators : op'[p] = IF p = o THEN Idle ELSE op[p]
  BY <1>1 DEF GiveUp
<1>9. \A p \in Operators : Inserted(p)' => p # o /\ Inserted(p) /\ op'[p] = op[p]
  BY <1>8 DEF Inserted, Idle
<1>10. \A p \in Operators : AtMostOne(op'[p].id) /\ (op'[p].pc # "idle" => op'[p].id # {})
  BY <1>8 DEF StampInv, Idle, AtMostOne
<1>11. \A j \in Rows' : at'[j] <= now'
  BY <1>4, <1>5, <1>6, <1>7 DEF StampInv
<1>12. \A i, j \in Rows' : at'[i] = at'[j] => i = j
  BY <1>5, <1>6, <1>7 DEF StampInv
<1>13. \A p \in Operators : Inserted(p)' => op'[p].at <= now' /\ \A j \in Rows' : at'[j] # op'[p].at
  BY <1>5, <1>6, <1>7, <1>9 DEF StampInv
<1>14. \A p, q \in Operators : p # q /\ Inserted(p)' /\ Inserted(q)' => op'[p].at # op'[q].at
  BY <1>9 DEF StampInv
<1>. QED
  BY <1>10, <1>11, <1>12, <1>13, <1>14 DEF StampInv

LEMMA StampInvStep == KeyInv /\ StampInv /\ [Next]_keyVars => StampInv'
<1>. SUFFICES ASSUME KeyInv, StampInv, [Next]_keyVars PROVE StampInv'
  OBVIOUS
<1>0. CASE UNCHANGED keyVars
  BY <1>0 DEF keyVars, StampInv, Inserted, Rows, AtMostOne
<1>. SUFFICES ASSUME NEW o \in Operators,
                     \/ Create(o)
                     \/ \E k \in KeyIds : Promote(o, k) \/ Retire(o, k)
                     \/ Rotate(o)
                     \/ RollBack(o)
              PROVE  StampInv'
  BY <1>0 DEF Next
<1>1. ASSUME NEW k \in KeyIds, CreateExists(o, k) PROVE StampInv'
  <2>. DEFINE r == [Idle EXCEPT !.pc = "c_count", !.id = {k}]
  <2>1. AtMostOne(r.id) /\ r.id # {} /\ r.pc = "c_count" /\ op' = [op EXCEPT ![o] = r]
    BY <1>1 DEF CreateExists, Idle, AtMostOne
  <2>. HIDE DEF r
  <2>. QED
    BY <1>1, <2>1, StampMove DEF CreateExists
<1>2. CASE CreateCount(o)
  BY <1>2, StampGiveUp, StampGoto DEF CreateCount
<1>3. CASE CreateInsert(o)
  BY <1>3, StampInsert DEF CreateInsert, Insert
<1>4. CASE CreateCommit(o)
  BY <1>4, StampCommit DEF CreateCommit, Inserted
<1>5. ASSUME NEW k \in KeyIds, Promote(o, k) \/ Retire(o, k) PROVE StampInv'
  BY <1>5 DEF Promote, Retire, StampInv, Inserted, Rows, AtMostOne
<1>6. ASSUME NEW k \in KeyIds, RotateRead(o, k) PROVE StampInv'
  <2>. DEFINE r == [Idle EXCEPT !.pc = "r_exists", !.id = {k}, !.prev = Newest]
  <2>1. AtMostOne(r.id) /\ r.id # {} /\ r.pc = "r_exists" /\ op' = [op EXCEPT ![o] = r]
    BY <1>6 DEF RotateRead, Idle, AtMostOne
  <2>. HIDE DEF r
  <2>. QED
    BY <1>6, <2>1, StampMove DEF RotateRead
<1>7. CASE RotateExists(o)
  BY <1>7, StampGiveUp, StampGoto DEF RotateExists
<1>8. CASE RotateCount(o)
  BY <1>8, StampGoto DEF RotateCount
<1>9. CASE RotateFirst(o)
  <2>1. CASE GiveUp(o)
    BY <1>9, <2>1, StampGiveUp DEF RotateFirst
  <2>2. CASE op' = [op EXCEPT ![o].pc = "r_retire", ![o].over = Oldest]
    <3>. DEFINE r == [op[o] EXCEPT !.pc = "r_retire", !.over = Oldest]
    <3>1. op[o] \in Requests
      BY DEF KeyInv, KeyTypeOK
    <3>2. r.pc = "r_retire" /\ r.id = op[o].id /\ op' = [op EXCEPT ![o] = r]
      BY <2>2, <3>1 DEF Requests, KeyInv, KeyTypeOK
    <3>3. AtMostOne(op[o].id) /\ op[o].id # {}
      BY <1>9 DEF RotateFirst, StampInv
    <3>. HIDE DEF r
    <3>. QED
      BY <1>9, <3>2, <3>3, StampMove DEF RotateFirst
  <2>. QED
    BY <1>9, <2>1, <2>2 DEF RotateFirst
<1>9a. CASE RotateRetire(o)
  BY <1>9a, StampGoto DEF RotateRetire
<1>10. CASE RotateInsert(o)
  BY <1>10, StampInsert DEF RotateInsert, Insert
<1>11. CASE RotateCommit(o)
  BY <1>11, StampCommit DEF RotateCommit, Inserted
<1>12. CASE RollBack(o)
  BY <1>12, StampGiveUp DEF RollBack
<1>. QED
  BY <1>1, <1>2, <1>3, <1>4, <1>5, <1>6, <1>7, <1>8, <1>9, <1>9a, <1>10, <1>11, <1>12 DEF Create, Rotate

LEMMA StampInvariant == Spec => [](KeyInv /\ StampInv)
<1>1. Init => StampInv
  BY DEF Init, StampInv, Idle, Inserted, Rows, AtMostOne
<1>. QED
  BY <1>1, KeyInvInit, KeyInvStep, StampInvStep, PTL DEF Spec

(* A rotation or a creation adds a key that is active from then on, so     *)
(* only a retirement leaves none, whatever overlaps it.                    *)
THEOREM RetirementsAloneEmpty == Spec => OnlyRetireEmpties
<1>1. ASSUME KeyInv, StampInv, Next, Active # {}, Active' = {}
      PROVE  \E o \in Operators, k \in KeyIds : Retire(o, k)
  <2>1. ASSUME NEW o \in Operators, CreateCommit(o) \/ RotateCommit(o) PROVE FALSE
    <3>1. Inserted(o) /\ at' = RowsWith(o) /\ op[o].at # 0 /\ op[o].id \cap Rows = {}
      BY <1>1, <2>1 DEF CreateCommit, RotateCommit, Inserted, KeyInv
    <3>2. op[o].id # {} /\ op[o].id \subseteq KeyIds
      BY <1>1, <3>1 DEF StampInv, Inserted, KeyInv, KeyTypeOK, Requests
    <3>3. PICK k \in KeyIds : k \in op[o].id
      BY <3>2
    <3>4. retired \cup op[o].over \cup op[o].prev \subseteq Rows
      BY <1>1 DEF KeyInv, KeyTypeOK
    <3>5. retired' \subseteq retired \cup op[o].over \cup op[o].prev
      BY <2>1 DEF CreateCommit, RotateCommit
    <3>6. k \in Active'
      BY <3>1, <3>3, <3>4, <3>5 DEF Active, Rows, RowsWith
    <3>. QED
      BY <1>1, <3>6
  <2>2. at' = at /\ retired' = retired => FALSE
    <3>1. at' = at /\ retired' = retired => Active' = Active
      BY DEF Active, Rows
    <3>. QED
      BY <1>1, <3>1
  <2>3. ASSUME NEW o \in Operators, Create(o) PROVE FALSE
    BY <2>1, <2>2, <2>3
       DEF Create, CreateExists, CreateCount, CreateInsert, Insert
  <2>4. ASSUME NEW o \in Operators, Rotate(o) PROVE FALSE
    BY <2>1, <2>2, <2>4
       DEF Rotate, RotateRead, RotateExists, RotateCount, RotateFirst, RotateRetire,
           RotateInsert, Insert
  <2>5. ASSUME NEW o \in Operators, NEW k \in KeyIds, Promote(o, k) PROVE FALSE
    BY <2>2, <2>5 DEF Promote
  <2>6. ASSUME NEW o \in Operators, RollBack(o) PROVE FALSE
    BY <2>2, <2>6 DEF RollBack
  <2>. QED
    BY <1>1, <2>3, <2>4, <2>5, <2>6, Zenon DEF Next
<1>2. KeyInv /\ StampInv /\ [Next]_keyVars =>
        [Active # {} /\ Active' = {} => \E o \in Operators, k \in KeyIds : Retire(o, k)]_keyVars
  BY <1>1
<1>. QED
  BY <1>2, StampInvariant, PTL DEF Spec, OnlyRetireEmpties

-----------------------------------------------------------------------------
(* The key ring.  That there is a newest key wherever there is one at all  *)
(* needs that the timestamps are bounded: by the last one drawn.           *)
LEMMA Highest ==
    ASSUME NEW S, S \subseteq Nat, S # {}, NEW n \in Nat, \A x \in S : x <= n
    PROVE  \E x \in S : \A y \in S : y <= x
<1>. DEFINE Below == {n - x : x \in S}
<1>1. Below \subseteq Nat /\ Below # {}
  <2>1. \A x \in S : x \in Nat /\ x <= n /\ n - x \in Nat
    OBVIOUS
  <2>2. PICK x : x \in S
    OBVIOUS
  <2>3. n - x \in Below
    BY <2>2
  <2>. QED
    BY <2>1, <2>3
<1>2. PICK d \in Below : \A e \in Below : ~(<<e, d>> \in OpToRel(<, Nat))
  <2>. HIDE DEF Below
  <2>. QED
    BY <1>1, WFMin, NatLessThanWellFounded, Zenon
<1>3. \A e \in Below : ~(e < d)
  <2>. HIDE DEF Below
  <2>. QED
    BY <1>1, <1>2 DEF OpToRel
<1>4. PICK x \in S : d = n - x
  OBVIOUS
<1>5. ASSUME NEW y \in S PROVE y <= x
  <2>1. n - y \in Below
    OBVIOUS
  <2>2. ~(n - y < n - x)
    <3>. HIDE DEF Below
    <3>. QED
      BY <1>3, <1>4, <2>1
  <2>3. x \in Nat /\ y \in Nat
    OBVIOUS
  <2>. HIDE DEF Below
  <2>. QED
    BY <2>2, <2>3
<1>. QED
  BY <1>5

LEMMA RingStands ==
    ASSUME KeyInv, StampInv
    PROVE  Ring!RingOK
<1>1. Active \subseteq KeyIds /\ retired \subseteq KeyIds /\ Active \cap retired = {}
  BY DEF Active, Rows, KeyInv, KeyTypeOK
<1>2. \A k \in Active : at[k] \in Nat /\ at[k] <= now
  BY DEF KeyInv, KeyTypeOK, StampInv, Active, Rows
<1>3. \A a, b \in Newest : a = b
  BY <1>2 DEF Newest, StampInv, Active
<1>4. ASSUME Active # {} PROVE Newest # {}
  <2>. DEFINE S == {at[k] : k \in Active}
  <2>1. S \subseteq Nat /\ S # {} /\ now \in Nat /\ \A x \in S : x <= now
    BY <1>2, <1>4 DEF KeyInv, KeyTypeOK
  <2>2. PICK x \in S : \A y \in S : y <= x
    <3>. HIDE DEF S
    <3>. QED
      BY <2>1, Highest
  <2>3. PICK k \in Active : x = at[k]
    OBVIOUS
  <2>4. k \in Newest
    BY <2>2, <2>3 DEF Newest
  <2>. QED
    BY <2>4
<1>. QED
  BY <1>1, <1>3, <1>4 DEF Ring!RingOK, Newest

LEMMA RingAfter == KeyInv' /\ StampInv' => Ring!RingOK'
<1>1. KeyInv /\ StampInv => Ring!RingOK
  BY RingStands
<1>. QED
  BY <1>1, PTL

(* Whatever console requests overlap, those who sign and verify see a key  *)
(* ring: what HandoffTokens assumes of its keys.                           *)
THEOREM KeysImplementRing == Spec => ImplementsKeyRing
<1>1. Init => Ring!RingInit
  BY DEF Init, Ring!RingInit, Active, Newest, Rows
<1>2. KeyInv /\ StampInv /\ (KeyInv /\ StampInv)' /\ [Next]_keyVars
        => [Ring!RingChange]_(Ring!ringVars)
  <2>. SUFFICES ASSUME KeyInv, StampInv, KeyInv', StampInv', [Next]_keyVars
                PROVE  [Ring!RingChange]_(Ring!ringVars)
    OBVIOUS
  <2>1. CASE UNCHANGED keyVars
    BY <2>1 DEF keyVars, Ring!ringVars, Active, Newest, Rows
  <2>2. CASE Next
    <3>1. Ring!RingOK'
      BY RingAfter
    <3>2. /\ Active' \subseteq KeyIds
          /\ retired' \subseteq KeyIds
          /\ Newest' \subseteq Active'
          /\ \A a, b \in Newest' : a = b
      BY <3>1 DEF Ring!RingOK
    <3>3. Newest' \in {{}} \cup {{k} : k \in KeyIds}
      BY <3>2
    <3>4. /\ \A k \in Rows : at'[k] = at[k]
          /\ retired \subseteq retired'
      BY <2>2, ForwardStep DEF keyVars, Rows
    <3>5. Rows \subseteq Rows'
      BY <3>4 DEF Rows
    <3>6. Active \subseteq Active' \cup retired'
      BY <3>5 DEF Active
    <3>. QED
      BY <3>1, <3>2, <3>3, <3>4, <3>6 DEF Ring!RingChange
  <2>. QED
    BY <2>1, <2>2
<1>. QED
  BY <1>1, <1>2, StampInvariant, PTL DEF Spec, ImplementsKeyRing, Ring!RingSpec

-----------------------------------------------------------------------------
(* One console request at a time, as one operator sends them.  What a      *)
(* rotation has read stays true until it commits.                          *)
Rotating == {"r_exists", "r_count", "r_first", "r_retire", "r_insert", "r_commit"}

SoleInv ==
    /\ LimitInv
    /\ \A o \in Operators :
         /\ op[o].pc \in Rotating => op[o].prev = Newest
         /\ op[o].pc \in {"r_retire", "r_insert", "r_commit"} => Active \subseteq op[o].over \cup op[o].prev

(* Of at most two keys, each is the newest or the oldest; of at most one,  *)
(* it is the newest.                                                       *)
LEMMA NewestOrOldest ==
    ASSUME KeyInv
    PROVE  /\ AtMostTwoActive => Active \subseteq Oldest \cup Newest
           /\ ~AtLimit => Active \subseteq Newest
<1>1. \A k \in Active : at[k] \in Nat
  BY DEF KeyInv, KeyTypeOK, Active, Rows
<1>2. ASSUME AtMostTwoActive, NEW k \in Active, k \notin Oldest, k \notin Newest PROVE FALSE
  <2>1. PICK i \in Active : ~(at[k] <= at[i])
    BY <1>2 DEF Oldest
  <2>2. PICK j \in Active : ~(at[j] <= at[k])
    BY <1>2 DEF Newest
  <2>3. i # k /\ j # k /\ i # j
    BY <1>1, <2>1, <2>2
  <2>. QED
    BY <1>2, <2>3 DEF AtMostTwoActive
<1>3. ASSUME ~AtLimit, NEW k \in Active PROVE k \in Newest
  <2>1. \A j \in Active : j = k
    BY <1>3 DEF AtLimit
  <2>2. at[k] <= at[k]
    BY <1>1
  <2>. QED
    BY <2>1, <2>2 DEF Newest
<1>. QED
  BY <1>2, <1>3

LEMMA SoleStep ==
    ASSUME \A o, p \in Operators : o = p, SoleInv, LimitInv', [Next]_keyVars
    PROVE  SoleInv'
<1>0. CASE UNCHANGED keyVars
  <2>1. Active' = Active /\ Newest' = Newest /\ op' = op
    BY <1>0 DEF keyVars, Active, Newest, Rows
  <2>. QED
    BY <2>1 DEF SoleInv
<1>. SUFFICES ASSUME NEW o \in Operators,
                     \/ Create(o)
                     \/ \E k \in KeyIds : Promote(o, k) \/ Retire(o, k)
                     \/ Rotate(o)
                     \/ RollBack(o)
              PROVE  SoleInv'
  BY <1>0 DEF Next
<1>1. at' = at /\ retired' = retired => Active' = Active /\ Newest' = Newest
  BY DEF Active, Newest, Rows
<1>2. KeyInv /\ op \in [Operators -> Requests] /\ op[o] \in Requests
  BY DEF SoleInv, LimitInv, KeyInv, KeyTypeOK
<1>3. ASSUME op'[o].pc \in Rotating => op'[o].prev = Newest',
             op'[o].pc \in {"r_retire", "r_insert", "r_commit"}
               => Active' \subseteq op'[o].over \cup op'[o].prev
      PROVE  SoleInv'
  BY <1>3 DEF SoleInv
<1>4. ASSUME op'[o].pc \notin Rotating PROVE SoleInv'
  BY <1>3, <1>4 DEF Rotating
<1>5. GiveUp(o) => op'[o].pc = "idle"
  BY <1>2 DEF GiveUp, Idle
<1>6. ASSUME NEW step, Goto(o, step), op[o].pc \in Rotating, at' = at, retired' = retired,
             step \in {"r_retire", "r_insert", "r_commit"} => Active \subseteq op[o].over \cup op[o].prev
      PROVE  SoleInv'
  <2>1. op'[o].pc = step /\ op'[o].prev = op[o].prev /\ op'[o].over = op[o].over
    BY <1>2, <1>6 DEF Goto, Requests
  <2>2. op[o].prev = Newest
    BY <1>6 DEF SoleInv
  <2>. QED
    BY <1>1, <1>3, <1>6, <2>1, <2>2
<1>7. CASE Create(o)
  <2>1. op'[o].pc \notin Rotating
    <3>1. ASSUME NEW k \in KeyIds, CreateExists(o, k) PROVE op'[o].pc = "c_count"
      BY <1>2, <3>1 DEF CreateExists, Idle
    <3>2. CreateCount(o) => op'[o].pc \in {"idle", "c_insert"}
      BY <1>2, <1>5 DEF CreateCount, Goto, Requests
    <3>3. CreateInsert(o) => op'[o].pc \in {"idle", "c_commit"}
      BY <1>2, <1>5 DEF CreateInsert, Insert, Requests
    <3>4. CreateCommit(o) => op'[o].pc = "idle"
      BY <1>5 DEF CreateCommit
    <3>. QED
      BY <1>7, <3>1, <3>2, <3>3, <3>4 DEF Create, Rotating
  <2>. QED
    BY <1>4, <2>1
<1>8. ASSUME NEW k \in KeyIds, Promote(o, k) \/ Retire(o, k) PROVE SoleInv'
  <2>1. op'[o].pc = "idle"
    BY <1>8 DEF Promote, Retire
  <2>. QED
    BY <1>4, <2>1 DEF Rotating
<1>9. CASE RollBack(o)
  BY <1>4, <1>5, <1>9 DEF RollBack, Rotating
<1>10. ASSUME NEW k \in KeyIds, RotateRead(o, k) PROVE SoleInv'
  <2>1. op'[o].pc = "r_exists" /\ op'[o].prev = Newest
    BY <1>2, <1>10 DEF RotateRead, Idle
  <2>. QED
    BY <1>1, <1>3, <1>10, <2>1 DEF RotateRead
<1>11. CASE RotateExists(o)
  BY <1>4, <1>5, <1>6, <1>11 DEF RotateExists, Rotating
<1>12. CASE RotateCount(o)
  <2>1. op[o].prev = Newest
    BY <1>12 DEF SoleInv, RotateCount, Rotating
  <2>2. CASE AtLimit
    BY <1>6, <1>12, <2>2 DEF RotateCount, Rotating
  <2>3. CASE ~AtLimit
    BY <1>2, <1>6, <1>12, <2>1, <2>3, NewestOrOldest DEF RotateCount, Rotating
  <2>. QED
    BY <2>2, <2>3
<1>13. CASE RotateFirst(o)
  <2>1. CASE GiveUp(o)
    BY <1>4, <1>5, <2>1 DEF Rotating
  <2>2. CASE op' = [op EXCEPT ![o].pc = "r_retire", ![o].over = Oldest]
    <3>1. op'[o].pc = "r_retire" /\ op'[o].prev = op[o].prev /\ op'[o].over = Oldest
      BY <1>2, <2>2 DEF Requests
    <3>2. op[o].prev = Newest
      BY <1>13 DEF SoleInv, RotateFirst, Rotating
    <3>3. Active \subseteq Oldest \cup Newest
      BY <1>2, NewestOrOldest DEF SoleInv, LimitInv
    <3>. QED
      BY <1>1, <1>3, <1>13, <3>1, <3>2, <3>3 DEF RotateFirst
  <2>. QED
    BY <1>13, <2>1, <2>2 DEF RotateFirst
<1>13a. CASE RotateRetire(o)
  <2>1. Active \subseteq op[o].over \cup op[o].prev
    BY <1>13a DEF SoleInv, RotateRetire
  <2>. QED
    BY <1>6, <1>13a, <2>1 DEF RotateRetire, Rotating
<1>14. CASE RotateInsert(o)
  <2>1. CASE GiveUp(o)
    BY <1>4, <1>5, <2>1 DEF Rotating
  <2>2. CASE op' = [op EXCEPT ![o].pc = "r_commit", ![o].at = now + 1]
    <3>1. op'[o].pc = "r_commit" /\ op'[o].prev = op[o].prev /\ op'[o].over = op[o].over
      BY <1>2, <2>2 DEF Requests
    <3>2. op[o].prev = Newest /\ Active \subseteq op[o].over \cup op[o].prev
      BY <1>14 DEF SoleInv, RotateInsert, Insert, Rotating
    <3>. QED
      BY <1>1, <1>3, <1>14, <3>1, <3>2 DEF RotateInsert, Insert
  <2>. QED
    BY <1>14, <2>1, <2>2 DEF RotateInsert, Insert
<1>15. CASE RotateCommit(o)
  BY <1>4, <1>5, <1>15 DEF RotateCommit, Rotating
<1>16. CASE Rotate(o)
  BY <1>10, <1>11, <1>12, <1>13, <1>13a, <1>14, <1>15, <1>16 DEF Rotate
<1>. QED
  BY <1>7, <1>8, <1>9, <1>16

LEMMA CommitLeavesOne ==
    ASSUME SoleInv, NEW o \in Operators, RotateCommit(o)
    PROVE  Active' = op[o].id
<1>1. /\ op[o].id \subseteq KeyIds
      /\ op[o].at # 0
      /\ op[o].id \cap Rows = {}
      /\ op[o].over \subseteq Rows
      /\ op[o].prev \subseteq Rows
      /\ retired \subseteq Rows
  BY DEF SoleInv, LimitInv, KeyInv, KeyTypeOK, Requests, RotateCommit, Inserted
<1>2. Active \subseteq op[o].over \cup op[o].prev
  BY DEF SoleInv, RotateCommit
<1>3. Rows' = Rows \cup op[o].id
  BY <1>1 DEF RotateCommit, RowsWith, Rows
<1>4. retired' = retired \cup op[o].over \cup op[o].prev
  BY DEF RotateCommit
<1>. QED
  BY <1>1, <1>2, <1>3, <1>4 DEF Active

(* When one operator works alone, an emergency rotation leaves its new key *)
(* and no other, whether or not it found an overlap of two.                *)
THEOREM LoneRotationLeavesOneKey ==
    ASSUME \A o, p \in Operators : o = p
    PROVE  Spec => RotationLeavesOneKey
<1>1. Init => LimitInv
  BY KeyInvInit DEF Init, LimitInv, AtMostTwoActive, AtMostOne, Active, Rows, Idle
<1>2. Init => SoleInv
  BY <1>1 DEF SoleInv, Init, Idle, Rotating
<1>3. OneAtATime /\ OneAtATime'
  BY DEF OneAtATime
<1>4. SoleInv /\ [Next]_keyVars => SoleInv'
  BY <1>3, LimitStep, SoleStep DEF SoleInv
<1>5. SoleInv /\ [Next]_keyVars
        => [\A o \in Operators : RotateCommit(o) => Active' = op[o].id]_keyVars
  BY CommitLeavesOne
<1>. QED
  BY <1>2, <1>4, <1>5, PTL DEF Spec, RotationLeavesOneKey

-----------------------------------------------------------------------------
(* What the ring is worth to those who use it.                             *)
LEMMA RingKeeps ==
    Ring!RingSpec => []Ring!RingOK /\ [][retired \subseteq retired']_(Ring!ringVars)
<1>1. Ring!RingInit => Ring!RingOK
  BY DEF Ring!RingInit, Ring!RingOK
<1>2. Ring!RingOK /\ [Ring!RingChange]_(Ring!ringVars) => Ring!RingOK'
  BY DEF Ring!RingChange, Ring!ringVars, Ring!RingOK
<1>3. Ring!RingChange => retired \subseteq retired'
  BY DEF Ring!RingChange
<1>. QED
  BY <1>1, <1>2, <1>3, PTL DEF Ring!RingSpec

(* A key that was once retired neither verifies nor signs ever again.      *)
NeverBack == [][\A k \in retired : k \notin Active' /\ k \notin Newest']_keyVars

(* _keys.py: no race between rotations, creations and retirements brings a *)
(* retired key back, leaves two signers, or keys that verify and no signer.*)
THEOREM RetiredKeysStayOut == Spec => []Ring!RingOK /\ NeverBack
<1>1. Ring!RingOK' /\ retired \subseteq retired' =>
        \A k \in retired : k \notin Active' /\ k \notin Newest'
  BY DEF Ring!RingOK
<1>2. UNCHANGED Ring!ringVars => retired \subseteq retired'
  BY DEF Ring!ringVars
<1>. QED
  BY <1>1, <1>2, RingKeeps, KeysImplementRing, PTL DEF ImplementsKeyRing, NeverBack

===============================================================================
