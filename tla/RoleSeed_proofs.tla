--------------------------- MODULE RoleSeed_proofs ---------------------------
(***************************************************************************)
(* Proofs about the role seed, for any registry, default roles and edits.  *)
(***************************************************************************)
EXTENDS RoleSeed, TLAPS

(* The seed's own step: each template gets its list, because every listed  *)
(* code has a row by then.                                                 *)
LEMMA SyncedIsTheList ==
    ASSUME SeedTypeOK, NEW c \in Codes, NEW rows, Registry \subseteq rows
    PROVE  Synced(c, rows) = Defaults[c]
<1>1. Defaults[c] \subseteq rows /\ Defaults[c] \subseteq Caps
  BY SeedAssumption
<1>. QED
  BY <1>1 DEF Synced, Held

LEMMA SeededHolds ==
    ASSUME SeedTypeOK, Seed
    PROVE  /\ SeedTypeOK'
           /\ SeedConverges'
<1>1. Registry \subseteq catalog' /\ catalog' \subseteq Caps
  BY SeedAssumption DEF Seed, SeedTypeOK
<1>2. \A c \in Codes : Synced(c, catalog') = Defaults[c]
  BY <1>1, SyncedIsTheList
<1>3. holds' = UNION {{c} \X Defaults[c] : c \in Codes}
  BY <1>2 DEF Seed
<1>4. \A c \in Codes : Defaults[c] \subseteq Registry
  BY SeedAssumption
<1>5. holds' \subseteq templates' \X catalog'
  <2>1. \A c \in Codes : {c} \X Defaults[c] \subseteq Codes \X catalog'
    BY <1>1, <1>4
  <2>2. templates' = Codes
    BY DEF Seed
  <2>. QED
    BY <1>3, <2>1, <2>2
<1>6. edits' = 0 /\ templates' = Codes
  BY DEF Seed
<1>7. ASSUME NEW c \in Codes PROVE Held(c)' = Defaults[c]
  <2>1. \A k : <<c, k>> \in holds' <=> k \in Defaults[c]
    BY <1>3
  <2>. QED
    BY <2>1, <1>1, <1>4 DEF Held
<1>. QED
  BY <1>1, <1>5, <1>6, <1>7, SeedAssumption DEF SeedTypeOK, SeedConverges

LEMMA StaffTyped ==
    ASSUME SeedTypeOK, NEW inUse, Staff(inUse)
    PROVE  SeedTypeOK' /\ edits' # 0
<1>1. edits' \in 0 .. MaxEdits /\ edits' # 0
  BY SeedAssumption DEF Staff, SeedTypeOK
<1>2. CASE EditTemplate
  BY <1>1, <1>2 DEF EditTemplate, SeedTypeOK
<1>3. CASE DeleteTemplate
  BY <1>1, <1>3 DEF DeleteTemplate, SeedTypeOK
<1>4. CASE EditCatalog(inUse)
  BY <1>1, <1>4, SeedAssumption DEF EditCatalog, SeedTypeOK
<1>. QED
  BY <1>2, <1>3, <1>4 DEF Staff

(* Whatever staff does between two runs of the seed, each leaves every     *)
(* default role with its list and nothing else.                            *)
THEOREM SeedIsIdempotent == RoleSeedSpec => [](SeedTypeOK /\ SeedConverges)
<1>1. RoleSeedInit => SeedTypeOK /\ SeedConverges
  BY SeedAssumption DEF RoleSeedInit, SeedTypeOK, SeedConverges
<1>2. SeedTypeOK /\ SeedConverges /\ [RoleSeedNext]_seedVars => (SeedTypeOK /\ SeedConverges)'
  <2>. SUFFICES ASSUME SeedTypeOK, SeedConverges, [RoleSeedNext]_seedVars
                PROVE  (SeedTypeOK /\ SeedConverges)'
    OBVIOUS
  <2>1. CASE Seed
    BY <2>1, SeededHolds
  <2>2. CASE Staff({})
    BY <2>2, StaffTyped DEF SeedConverges
  <2>3. CASE UNCHANGED seedVars
    BY <2>3 DEF seedVars, SeedTypeOK, SeedConverges, Held
  <2>. QED
    BY <2>1, <2>2, <2>3 DEF RoleSeedNext
<1>. QED
  BY <1>1, <1>2, PTL DEF RoleSeedSpec

=============================================================================
