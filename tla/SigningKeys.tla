---------------------------- MODULE SigningKeys ----------------------------
(***************************************************************************)
(* The lifecycle of the HMAC keys that sign handoff tokens, as the service *)
(* functions of accounts/handoff/services/_keys.py drive it.  The database *)
(* is Postgres at READ COMMITTED: every statement of a transaction sees    *)
(* what was committed when that statement starts, so create and emergency  *)
(* rotation, which read without a lock and write later, are split at their *)
(* statements.  promote and retire hold the row lock (SELECT FOR UPDATE)   *)
(* from their only read to their commit and are single actions.            *)
(***************************************************************************)
EXTENDS Naturals

CONSTANTS
    KeyIds,      \* the key_id values operators may choose
    Operators,   \* console requests that may be in flight at the same time
    MaxStamp     \* bound: how many created_at timestamps a run may draw

ASSUME StampAssumption == MaxStamp \in Nat

VARIABLES
    at,        \* at[k]: rank of the committed row's created_at, 0: no such row
    promoted,  \* keys whose promoted_at is set
    retired,   \* keys whose retired_at is set
    now,       \* the last created_at drawn
    op         \* op[o]: the request operator o has in flight

keyVars == <<at, promoted, retired, now, op>>

Idle == [pc |-> "idle", id |-> {}, prev |-> {}, over |-> {}, at |-> 0]

Steps == {"idle", "c_count", "c_insert", "c_commit",
          "r_exists", "r_count", "r_first", "r_retire", "r_insert", "r_commit"}

(* id is the key being created; prev and over are the row objects an       *)
(* emergency rotation holds: previous_primary and oldest (each at most one *)
(* key, {} standing for None); at is the created_at of an inserted row.    *)
Requests == [pc : Steps, id : SUBSET KeyIds, prev : SUBSET KeyIds,
             over : SUBSET KeyIds, at : Nat]

-----------------------------------------------------------------------------
(* What a statement sees. *)

Rows == {k \in KeyIds : at[k] # 0}

Active == Rows \ retired

\* active_handoff_signing_keys_ordered_by_created_desc()[0], {} when empty
Newest == {k \in Active : \A j \in Active : at[j] <= at[k]}

\* A mutant: the newest, as .order_by("-created_at").first() would give.
OldestDescending == Newest

\* ....order_by("created_at").first()
Oldest == {k \in Active : \A j \in Active : at[k] <= at[j]}

\* A mutant: .count() > _MAX_ACTIVE_KEYS
AboveLimit == \E a, b, c \in Active : a # b /\ b # c /\ a # c

\* .count() >= _MAX_ACTIVE_KEYS
AtLimit == \E a, b \in Active : a # b

(* Row and unique-index locks held by transactions other than o's.  The    *)
(* UPDATE of previous_primary is the last one before the commit and its    *)
(* lock is taken and released in that step.                                *)
RowLocked(o, k) ==
    \E p \in Operators \ {o} : op[p].pc \in {"r_insert", "r_commit"} /\ k \in op[p].over

\* A mutant: key_id is not unique.
IdNotUnique(o, k) == FALSE

IdInserted(o, k) ==
    \E p \in Operators \ {o} : op[p].pc \in {"c_commit", "r_commit"} /\ k \in op[p].id

Goto(o, step) == op' = [op EXCEPT ![o].pc = step]
GiveUp(o) == op' = [op EXCEPT ![o] = Idle]

-----------------------------------------------------------------------------
Init ==
    /\ at = [k \in KeyIds |-> 0]
    /\ promoted = {}
    /\ retired = {}
    /\ now = 0
    /\ op = [o \in Operators |-> Idle]

(* create_handoff_signing_key.  A request refused by a check changes       *)
(* nothing, so a refusal at the first check is not a step at all.          *)
CreateExists(o, k) ==
    /\ op[o].pc = "idle"
    /\ k \notin Rows
    /\ op' = [op EXCEPT ![o] = [Idle EXCEPT !.pc = "c_count", !.id = {k}]]
    /\ UNCHANGED <<at, promoted, retired, now>>

CreateCount(o) ==
    /\ op[o].pc = "c_count"
    /\ IF AtLimit THEN GiveUp(o) ELSE Goto(o, "c_insert")
    /\ UNCHANGED <<at, promoted, retired, now>>

(* INSERT: created_at is drawn; a concurrent uncommitted row with the same *)
(* key_id blocks it, a committed one fails it with an IntegrityError.      *)
Insert(o, inserting, inserted) ==
    /\ op[o].pc = inserting
    /\ \A k \in op[o].id : ~IdInserted(o, k)
    /\ \/ /\ op[o].id \subseteq Rows
          /\ GiveUp(o)
          /\ now' = now
       \/ /\ op[o].id \cap Rows = {}
          /\ now < MaxStamp
          /\ now' = now + 1
          /\ op' = [op EXCEPT ![o].pc = inserted, ![o].at = now + 1]
    /\ UNCHANGED <<at, promoted, retired>>

CreateInsert(o) == Insert(o, "c_insert", "c_commit")

\* A mutant: the row is never saved.
RowsWithout(o) == at

\* A mutant: created_at is drawn again when the transaction commits.
RowsStampedLate(o) == [k \in KeyIds |-> IF k \in op[o].id THEN now ELSE at[k]]

RowsWith(o) == [k \in KeyIds |-> IF k \in op[o].id THEN op[o].at ELSE at[k]]

CreateCommit(o) ==
    /\ op[o].pc = "c_commit"
    /\ at' = RowsWith(o)
    /\ GiveUp(o)
    /\ UNCHANGED <<promoted, retired, now>>

(* promote_handoff_signing_key *)
Promote(o, k) ==
    /\ op[o].pc = "idle"
    /\ ~RowLocked(o, k)
    /\ k \in Rows
    /\ k \notin retired
    /\ k \notin promoted
    /\ promoted' = promoted \cup {k}
    /\ UNCHANGED <<at, retired, now, op>>

(* retire_handoff_signing_key *)
Retire(o, k) ==
    /\ op[o].pc = "idle"
    /\ ~RowLocked(o, k)
    /\ k \in Rows
    /\ k \notin retired
    /\ k \in promoted
    /\ retired' = retired \cup {k}
    /\ UNCHANGED <<at, promoted, now, op>>

(* emergency_rotate_handoff_signing_key: the list of active keys is read   *)
(* once and previous_primary kept; the later statements read afresh.       *)
RotateRead(o, k) ==
    /\ op[o].pc = "idle"
    /\ k \notin Newest
    /\ op' = [op EXCEPT ![o] =
                 [Idle EXCEPT !.pc = "r_exists", !.id = {k}, !.prev = Newest]]
    /\ UNCHANGED <<at, promoted, retired, now>>

RotateExists(o) ==
    /\ op[o].pc = "r_exists"
    /\ IF op[o].id \subseteq Rows THEN GiveUp(o) ELSE Goto(o, "r_count")
    /\ UNCHANGED <<at, promoted, retired, now>>

RotateCount(o) ==
    /\ op[o].pc = "r_count"
    /\ Goto(o, IF AtLimit THEN "r_first" ELSE "r_insert")
    /\ UNCHANGED <<at, promoted, retired, now>>

(* .first() re-reads: when every key was retired since the count it is     *)
(* None and the attribute assignment raises.                               *)
RotateFirst(o) ==
    /\ op[o].pc = "r_first"
    /\ \/ /\ Active = {}
          /\ GiveUp(o)
       \/ /\ Active # {}
          /\ op' = [op EXCEPT ![o].pc = "r_retire", ![o].over = Oldest]
    /\ UNCHANGED <<at, promoted, retired, now>>

\* The UPDATE waits for another holder of the row lock; who retired the row
\* in between is not asked.
RotateRetire(o) ==
    /\ op[o].pc = "r_retire"
    /\ \A k \in op[o].over : ~RowLocked(o, k)
    /\ Goto(o, "r_insert")
    /\ UNCHANGED <<at, promoted, retired, now>>

RotateInsert(o) == Insert(o, "r_insert", "r_commit")

\* A mutant: the primary is read again after the new key became it.
RotateCommitRereads(o) ==
    /\ op[o].pc = "r_commit"
    /\ at' = RowsWith(o)
    /\ promoted' = promoted \cup op[o].id
    /\ retired' = retired \cup op[o].over \cup op[o].prev \cup op[o].id
    /\ GiveUp(o)
    /\ UNCHANGED now

(* The UPDATE of previous_primary is blind: it neither locks the row when  *)
(* it was read nor looks whether somebody retired it since.                *)
RotateCommit(o) ==
    /\ op[o].pc = "r_commit"
    /\ \A k \in op[o].prev : ~RowLocked(o, k)
    /\ at' = RowsWith(o)
    /\ promoted' = promoted \cup op[o].id
    /\ retired' = retired \cup op[o].over \cup op[o].prev
    /\ GiveUp(o)
    /\ UNCHANGED now

(* The worker dies, the connection drops, or Postgres picks the            *)
(* transaction as a deadlock victim: everything it wrote is rolled back.   *)
RollBack(o) ==
    /\ op[o].pc # "idle"
    /\ GiveUp(o)
    /\ UNCHANGED <<at, promoted, retired, now>>

Create(o) ==
    \/ \E k \in KeyIds : CreateExists(o, k)
    \/ CreateCount(o)
    \/ CreateInsert(o)
    \/ CreateCommit(o)

Rotate(o) ==
    \/ \E k \in KeyIds : RotateRead(o, k)
    \/ RotateExists(o)
    \/ RotateCount(o)
    \/ RotateFirst(o)
    \/ RotateRetire(o)
    \/ RotateInsert(o)
    \/ RotateCommit(o)

Next ==
    \E o \in Operators :
        \/ Create(o)
        \/ \E k \in KeyIds : Promote(o, k) \/ Retire(o, k)
        \/ Rotate(o)
        \/ RollBack(o)

Spec == Init /\ [][Next]_keyVars

-----------------------------------------------------------------------------
(* The shape of the state. *)
KeyTypeOK ==
    /\ at \in [KeyIds -> Nat]
    /\ promoted \subseteq Rows
    /\ retired \subseteq Rows
    /\ now \in Nat
    /\ op \in [Operators -> Requests]

(* models.HandoffSigningKey: "At most two non-retired keys at any moment". *)
(* The services count before they insert, so it is theirs to keep when     *)
(* requests do not overlap, and lost when two of them do.                  *)
AtMostTwoActive ==
    \A a, b, c \in Active : a = b \/ b = c \/ a = c

(* One request at a time: nobody starts while another operator's           *)
(* transaction is open.                                                    *)
OneAtATime ==
    \A o, p \in Operators : op[o].pc # "idle" /\ op[p].pc # "idle" => o = p

(* An emergency rotation exists to stop trusting a compromised key: when   *)
(* it commits, the key it added is the only one left that verifies tokens, *)
(* whatever the rotation overlap was.                                      *)
RotationLeavesOneKey ==
    [][\A o \in Operators : RotateCommit(o) => Active' = op[o].id]_keyVars

(* However requests race, the primary a rotation read is out of use once   *)
(* it commits, and no overlapping request ever brings a retired or a       *)
(* promoted key back: rows only move forward.                              *)
RowsMoveForward ==
    [][/\ \A k \in Rows : at'[k] = at[k]
       /\ promoted \subseteq promoted'
       /\ retired \subseteq retired'
       /\ \A k \in retired' \ retired : k \in promoted \/ \E o \in Operators : RotateCommit(o)
      ]_keyVars

(* A key is taken out of use with none left only by a deliberate retire:   *)
(* no race between rotations and creations leaves issuance without a key.  *)
OnlyRetireEmpties ==
    [][Active # {} /\ Active' = {} => \E o \in Operators, k \in KeyIds : Retire(o, k)]_keyVars

(* To those who sign and verify tokens, the services are a key ring: the   *)
(* keys that are not retired verify, the newest of them signs, and a key   *)
(* that is taken away never comes back.                                    *)
Ring == INSTANCE KeyRing WITH trusted <- Active, spent <- retired, signer <- Newest

ImplementsKeyRing == Ring!RingSpec

=============================================================================
