------------------------ MODULE HandoffTokens_proofs ------------------------
(***************************************************************************)
(* Proofs about handoff tokens, for any memberships, keys, tokens and      *)
(* requests, any lifetime, and with faults or without.                     *)
(***************************************************************************)
EXTENDS HandoffTokens, TLAPS

Burned == {"srem", "host", "member", "login", "done"}

(* The nonce is what makes a token single-use: it is written once, before  *)
(* which nobody holds the token, and the request that took it away is the  *)
(* only one that goes on.                                                  *)
BurnInv ==
    /\ \A t \in Tids : tok[t].pc \in {"new", "keys", "setex"} => nonce[t] = "none"
    /\ \A c \in Consumers :
         /\ cons[c].took => \E t \in Tids : cons[c].tid = {t} /\ nonce[t] = "taken"
         /\ cons[c].pc \in {"new", "getdel"} => ~cons[c].took
         /\ cons[c].pc \in Burned => cons[c].took
         /\ cons[c].pc = "getdel" => \E t \in Tids : cons[c].tid = {t}
    /\ \A c, d \in Consumers :
         cons[c].took /\ cons[d].took /\ cons[c].tid = cons[d].tid => c = d

TicketInv == HandoffTypeOK /\ BurnInv

LEMMA TicketInvInit == Init => TicketInv
<1>. SUFFICES ASSUME Init PROVE TicketInv
  OBVIOUS
<1>1. HandoffTypeOK
  <2>1. cons \in [Consumers -> ConsumeCalls]
    BY DEF Init, ConsumeCalls
  <2>2. tok \in [Tids -> TokenCalls]
    BY DEF Init, TokenCalls
  <2>3. lo \in [Logouts -> LogoutCalls]
    BY DEF Init, LogoutCalls
  <2>4. 0 \in 0..TTL
    BY TTLAssumption
  <2>. QED
    BY <2>1, <2>2, <2>3, <2>4 DEF Init, HandoffTypeOK
<1>2. BurnInv
  BY DEF Init, BurnInv, Burned
<1>. QED
  BY <1>1, <1>2 DEF TicketInv

-----------------------------------------------------------------------------
(* Steps of one kind of request leave the invariant's other parts alone.   *)
LEMMA IssueTyped ==
    ASSUME TicketInv, NEW t \in Tids,
           \/ \E m \in Members : Validate(t, m)
           \/ IssueStep(t) \/ IssueFails(t)
    PROVE  HandoffTypeOK'
<1>. USE TTLAssumption DEF TicketInv, HandoffTypeOK
<1>0. tok' \in [Tids -> TokenCalls]
  <2>1. ASSUME NEW m \in Members, Validate(t, m) PROVE tok' \in [Tids -> TokenCalls]
    <3>. DEFINE r == [tok[t] EXCEPT !.pc = "keys", !.m = {m}]
    <3>1. tok[t] \in TokenCalls /\ "keys" \in Issuing
      BY DEF Issuing
    <3>2. r \in TokenCalls
      BY <3>1 DEF TokenCalls
    <3>3. tok' = [tok EXCEPT ![t] = r]
      BY <2>1 DEF Validate
    <3>. HIDE DEF r
    <3>. QED
      BY <3>2, <3>3
  <2>2. ASSUME NEW s \in {"out", "failed"} \cup Issuing, TokGoto(t, s)
        PROVE  tok' \in [Tids -> TokenCalls]
    <3>. DEFINE r == [tok[t] EXCEPT !.pc = s]
    <3>1. tok[t] \in TokenCalls
      OBVIOUS
    <3>2. r \in TokenCalls
      BY <3>1 DEF TokenCalls
    <3>3. tok' = [tok EXCEPT ![t] = r]
      BY <2>2 DEF TokGoto
    <3>. HIDE DEF r
    <3>. QED
      BY <3>2, <3>3
  <2>3. CASE Sign(t)
    <3>1. CASE tok' = [tok EXCEPT ![t].pc = "setex", ![t].key = signer]
      <4>. DEFINE r == [tok[t] EXCEPT !.pc = "setex", !.key = signer]
      <4>1. signer \in SUBSET KeyIds
        BY DEF Ring!RingOK
      <4>2. r \in TokenCalls
        <5>1. tok[t] \in TokenCalls /\ "setex" \in Issuing
          BY DEF Issuing
        <5>. QED
          BY <4>1, <5>1 DEF TokenCalls
      <4>3. tok' = [tok EXCEPT ![t] = r]
        BY <3>1 DEF TokenCalls
      <4>. QED
        BY <4>2, <4>3
    <3>. QED
      BY <2>2, <2>3, <3>1 DEF Sign
  <2>4. CASE SetEx(t) \/ SAdd(t) \/ Expire(t) \/ HandOut(t) \/ IssueFails(t)
    BY <2>2, <2>4 DEF SetEx, SAdd, Expire, HandOut, IssueFails, Issuing
  <2>. QED
    BY <2>1, <2>3, <2>4 DEF IssueStep
<1>1. ASSUME NEW m \in Members, Validate(t, m) PROVE HandoffTypeOK'
  BY <1>0, <1>1 DEF Validate, Ring!RingOK, dbVars, redisVars, ringVars
<1>2. CASE Sign(t)
  BY <1>0, <1>2 DEF Sign, Ring!RingOK, dbVars, redisVars, ringVars
<1>3. CASE SetEx(t)
  BY <1>0, <1>3 DEF SetEx, NonceTTL, Ring!RingOK, dbVars, ringVars
<1>4. CASE SAdd(t)
  BY <1>0, <1>4 DEF SAdd, IndexWith, Ring!RingOK, dbVars, ringVars
<1>5. CASE Expire(t)
  BY <1>0, <1>5 DEF Expire, IndexTTL, Ring!RingOK, dbVars, ringVars
<1>6. CASE HandOut(t) \/ IssueFails(t)
  BY <1>0, <1>6 DEF HandOut, IssueFails, Ring!RingOK, dbVars, redisVars, ringVars
<1>. QED
  BY <1>1, <1>2, <1>3, <1>4, <1>5, <1>6 DEF IssueStep

LEMMA ConsumeTyped ==
    ASSUME TicketInv, NEW c \in Consumers,
           \/ \E t \in Tids : Verify(c, t)
           \/ ConsumeStep(c) \/ ConsumeFails(c)
    PROVE  HandoffTypeOK'
<1>. USE TTLAssumption DEF TicketInv, HandoffTypeOK
<1>0. cons' \in [Consumers -> ConsumeCalls]
  <2>1. ASSUME NEW t \in Tids, Verify(c, t) PROVE cons' \in [Consumers -> ConsumeCalls]
    BY <2>1 DEF Verify, ConsumeCalls, Consuming
  <2>2. ASSUME NEW s \in {"done", "refused"} \cup Consuming, ConsGoto(c, s)
        PROVE  cons' \in [Consumers -> ConsumeCalls]
    BY <2>2 DEF ConsGoto, ConsumeCalls
  <2>3. CASE GetDel(c)
    <3>1. CASE cons' = [cons EXCEPT ![c].pc = "srem", ![c].took = TRUE]
      BY <3>1 DEF ConsumeCalls, Consuming
    <3>. QED
      BY <2>2, <2>3, <3>1 DEF GetDel
  <2>4. CASE SRem(c) \/ HostCheck(c) \/ MemberCheck(c) \/ Login(c) \/ ConsumeFails(c)
    BY <2>2, <2>4 DEF SRem, HostCheck, MemberCheck, Login, ConsumeFails, Consuming
  <2>. QED
    BY <2>1, <2>3, <2>4 DEF ConsumeStep
<1>1. ASSUME NEW t \in Tids, Verify(c, t) PROVE HandoffTypeOK'
  BY <1>0, <1>1 DEF Verify, Ring!RingOK, dbVars, issueVars, redisVars, ringVars
<1>2. CASE GetDel(c)
  BY <1>0, <1>2 DEF GetDel, BurnNonce, Ring!RingOK, dbVars, issueVars, ringVars
<1>3. CASE SRem(c)
  <2>1. index' \in [Users -> SUBSET Tids] /\ ittl' \in [Users -> 0..TTL]
    BY <1>3 DEF SRem
  <2>. QED
    BY <1>0, <1>3, <2>1 DEF SRem, Ring!RingOK, dbVars, issueVars, ringVars
<1>4. CASE HostCheck(c) \/ MemberCheck(c) \/ Login(c) \/ ConsumeFails(c)
  BY <1>0, <1>4 DEF HostCheck, MemberCheck, Login, ConsumeFails, Ring!RingOK,
                    dbVars, issueVars, redisVars, ringVars
<1>. QED
  BY <1>1, <1>2, <1>3, <1>4 DEF ConsumeStep

LEMMA LogoutTyped ==
    ASSUME TicketInv, NEW l \in Logouts,
           \/ \E u \in Users : SMembers(l, u)
           \/ LogoutStep(l) \/ LogoutFails(l)
    PROVE  HandoffTypeOK'
<1>. USE TTLAssumption DEF TicketInv, HandoffTypeOK
<1>1. ASSUME NEW u \in Users, SMembers(l, u) PROVE HandoffTypeOK'
  <2>1. lo' \in [Logouts -> LogoutCalls]
    BY <1>1 DEF SMembers, LogoutCalls, LoggingOut
  <2>. QED
    BY <1>1, <2>1 DEF SMembers, Ring!RingOK, dbVars, issueVars, redisVars, ringVars
<1>2. ASSUME NEW s \in {"done", "failed"} \cup LoggingOut,
             lo' = [lo EXCEPT ![l].pc = s]
      PROVE  lo' \in [Logouts -> LogoutCalls]
  BY <1>2 DEF LogoutCalls
<1>3. CASE DelNonces(l)
  <2>1. lo' \in [Logouts -> LogoutCalls]
    BY <1>2, <1>3 DEF DelNonces, LoggingOut
  <2>2. nonce' \in [Tids -> {"none", "live", "taken", "revoked", "expired"}]
        /\ ttl' \in [Tids -> 0..TTL]
    BY <1>3 DEF DelNonces
  <2>. QED
    BY <1>3, <2>1, <2>2 DEF DelNonces, Ring!RingOK, dbVars, issueVars, ringVars
<1>4. CASE DelIndex(l)
  <2>1. lo' \in [Logouts -> LogoutCalls]
    BY <1>2, <1>4 DEF DelIndex
  <2>. QED
    BY <1>4, <2>1 DEF DelIndex, Ring!RingOK, dbVars, issueVars, ringVars
<1>5. CASE LogoutFails(l)
  <2>1. lo' \in [Logouts -> LogoutCalls]
    BY <1>2, <1>5 DEF LogoutFails
  <2>. QED
    BY <1>5, <2>1 DEF LogoutFails, Ring!RingOK, dbVars, issueVars, redisVars, ringVars
<1>. QED
  BY <1>1, <1>3, <1>4, <1>5 DEF LogoutStep

LEMMA WorldTyped ==
    ASSUME TicketInv,
           \/ Tick \/ KeysChange
           \/ \E m \in Members : MembershipChange(m)
           \/ \E h \in Hosts, s \in {"ACTIVE", "SUSPENDED", "missing"} : OrgChange(h, s)
    PROVE  HandoffTypeOK'
<1>. USE TTLAssumption DEF TicketInv, HandoffTypeOK
<1>1. CASE Tick
  <2>1. \A n \in 0..TTL : (IF n = 0 THEN 0 ELSE n - 1) \in 0..TTL
    OBVIOUS
  <2>2. jwt' \in [Tids -> 0..TTL] /\ ttl' \in [Tids -> 0..TTL] /\ ittl' \in [Users -> 0..TTL]
    BY <1>1, <2>1 DEF Tick
  <2>3. nonce' \in [Tids -> {"none", "live", "taken", "revoked", "expired"}]
        /\ index' \in [Users -> SUBSET Tids]
    BY <1>1 DEF Tick
  <2>. QED
    BY <1>1, <2>2, <2>3 DEF Tick, Ring!RingOK, dbVars, ringVars
<1>2. CASE KeysChange
  BY <1>2 DEF KeysChange, Ring!RingChange, dbVars, issueVars, redisVars
<1>3. ASSUME NEW m \in Members, MembershipChange(m) PROVE HandoffTypeOK'
  BY <1>3 DEF MembershipChange, Ring!RingOK, issueVars, redisVars, ringVars
<1>4. ASSUME NEW h \in Hosts, NEW s \in {"ACTIVE", "SUSPENDED", "missing"}, OrgChange(h, s)
      PROVE  HandoffTypeOK'
  BY <1>4 DEF OrgChange, Ring!RingOK, issueVars, redisVars, ringVars
<1>. QED
  BY <1>1, <1>2, <1>3, <1>4

-----------------------------------------------------------------------------
(* Every step, in the order of Next, preserves the burn invariant.         *)
LEMMA BurnStep == TicketInv /\ [Next]_hVars => BurnInv'
<1>. SUFFICES ASSUME TicketInv, [Next]_hVars PROVE BurnInv'
  OBVIOUS
<1>. USE DEF TicketInv, HandoffTypeOK
<1>1. ASSUME UNCHANGED <<nonce, cons>>, NEW t \in Tids, NEW r,
             tok' = [tok EXCEPT ![t] = r],
             r.pc \in {"new", "keys", "setex"} => tok[t].pc \in {"new", "keys", "setex"}
      PROVE  BurnInv'
  BY <1>1 DEF BurnInv
<1>2. ASSUME UNCHANGED <<nonce, cons, tok>> PROVE BurnInv'
  BY <1>2 DEF BurnInv
<1>3. ASSUME NEW t \in Tids, NEW m \in Members, Validate(t, m) PROVE BurnInv'
  <2>1. tok' = [tok EXCEPT ![t] = [tok[t] EXCEPT !.pc = "keys", !.m = {m}]]
    BY <1>3 DEF Validate, TokenCalls
  <2>2. tok[t].pc = "new" /\ UNCHANGED <<nonce, cons>>
    BY <1>3 DEF Validate, redisVars
  <2>. QED
    BY <1>1, <2>1, <2>2
<1>4. ASSUME NEW t \in Tids, NEW s, TokGoto(t, s), UNCHANGED <<nonce, cons>>,
             s = "setex" => tok[t].pc = "keys",
             s \notin {"new", "keys"}
      PROVE  BurnInv'
  <2>. DEFINE r == [tok[t] EXCEPT !.pc = s]
  <2>1. r.pc = s
    BY DEF TokenCalls
  <2>2. tok' = [tok EXCEPT ![t] = r]
    BY <1>4 DEF TokGoto, TokenCalls
  <2>. HIDE DEF r
  <2>. QED
    BY <1>1, <1>4, <2>1, <2>2
<1>5. ASSUME NEW t \in Tids, SetEx(t) PROVE BurnInv'
  <2>1. \A s \in Tids : tok'[s].pc = IF s = t THEN "sadd" ELSE tok[s].pc
    BY <1>5 DEF SetEx, TokGoto, TokenCalls
  <2>2. nonce[t] = "none" /\ nonce' = [nonce EXCEPT ![t] = "live"] /\ cons' = cons
    BY <1>5 DEF SetEx, BurnInv
  <2>3. ASSUME NEW c \in Consumers, NEW s \in Tids, cons[c].tid = {s}, nonce[s] = "taken"
        PROVE  s # t
    BY <2>2, <2>3
  <2>4. \A c \in Consumers : cons[c].took =>
           \E s \in Tids : cons[c].tid = {s} /\ nonce'[s] = "taken"
    BY <2>2, <2>3 DEF BurnInv
  <2>. QED
    BY <2>1, <2>2, <2>4 DEF BurnInv
<1>6. ASSUME NEW t \in Tids, Sign(t) \/ SAdd(t) \/ Expire(t) \/ HandOut(t) \/ IssueFails(t)
      PROVE  BurnInv'
  <2>1. CASE Sign(t)
    <3>1. CASE TokGoto(t, "failed")
      BY <1>4, <2>1, <3>1 DEF Sign, redisVars
    <3>2. CASE tok' = [tok EXCEPT ![t].pc = "setex", ![t].key = signer]
      <4>1. tok' = [tok EXCEPT ![t] = [tok[t] EXCEPT !.pc = "setex", !.key = signer]]
        BY <3>2 DEF TokenCalls
      <4>2. tok[t].pc = "keys" /\ UNCHANGED <<nonce, cons>>
        BY <2>1 DEF Sign, redisVars
      <4>. QED
        BY <1>1, <4>1, <4>2
    <3>. QED
      BY <2>1, <3>1, <3>2 DEF Sign
  <2>2. CASE SAdd(t) \/ Expire(t) \/ HandOut(t)
    BY <1>4, <2>2 DEF SAdd, Expire, HandOut, redisVars
  <2>3. CASE IssueFails(t)
    BY <1>4, <2>3 DEF IssueFails, redisVars
  <2>. QED
    BY <1>6, <2>1, <2>2, <2>3
<1>7. ASSUME NEW c \in Consumers, NEW t \in Tids, Verify(c, t) PROVE BurnInv'
  <2>. DEFINE r == [cons[c] EXCEPT !.pc = "getdel", !.tid = {t}]
  <2>1. nonce' = nonce /\ tok' = tok /\ cons' = [cons EXCEPT ![c] = r]
    BY <1>7 DEF Verify, redisVars, issueVars
  <2>2. ~cons[c].took
    BY <1>7 DEF Verify, BurnInv
  <2>3. r.pc = "getdel" /\ r.took = cons[c].took /\ r.tid = {t}
    BY DEF ConsumeCalls
  <2>. HIDE DEF r
  <2>. QED
    BY <2>1, <2>2, <2>3 DEF BurnInv, Burned
<1>8. ASSUME NEW c \in Consumers, GetDel(c) PROVE BurnInv'
  <2>3. \A d \in Consumers : cons[d].pc = "getdel" => \E t \in Tids : cons[d].tid = {t}
    BY DEF BurnInv
  <2>4. PICK t \in Tids : cons[c].tid = {t}
    BY <1>8, <2>3, Zenon DEF GetDel
  <2>0. ~cons[c].took /\ tok' = tok
    BY <1>8 DEF GetDel, BurnInv, issueVars
  <2>1. CASE nonce[t] # "live"
    <3>. DEFINE r == [cons[c] EXCEPT !.pc = "refused"]
    <3>1. nonce' = nonce /\ cons' = [cons EXCEPT ![c] = r]
      BY <1>8, <2>4, <2>1 DEF GetDel, ConsGoto
    <3>2. r.pc = "refused" /\ r.took = cons[c].took /\ r.tid = cons[c].tid
      BY DEF ConsumeCalls
    <3>. HIDE DEF r
    <3>. QED
      BY <2>0, <3>1, <3>2 DEF BurnInv, Burned
  <2>2. CASE nonce[t] = "live"
    <3>. DEFINE r == [cons[c] EXCEPT !.pc = "srem", !.took = TRUE]
    <3>1. nonce' = [nonce EXCEPT ![t] = "taken"] /\ cons' = [cons EXCEPT ![c] = r]
      BY <1>8, <2>4, <2>2 DEF GetDel, BurnNonce
    <3>2. r.pc = "srem" /\ r.took = TRUE /\ r.tid = {t}
      BY <2>4 DEF ConsumeCalls
    <3>3. ASSUME NEW d \in Consumers, cons[d].took
          PROVE  \E s \in Tids : s # t /\ cons[d].tid = {s} /\ nonce[s] = "taken"
      BY <2>2, <3>3 DEF BurnInv
    <3>. HIDE DEF r
    <3>4. \A d \in Consumers : cons'[d].took =>
             \E s \in Tids : cons'[d].tid = {s} /\ nonce'[s] = "taken"
      BY <3>1, <3>2, <3>3
    <3>5. ASSUME NEW d \in Consumers, NEW e \in Consumers,
                 cons'[d].took, cons'[e].took, cons'[d].tid = cons'[e].tid
          PROVE  d = e
      <4>1. \A f \in Consumers : f # c => cons'[f] = cons[f]
        BY <3>1
      <4>2. cons'[c].tid = {t}
        BY <3>1, <3>2
      <4>3. \A f \in Consumers : f # c /\ cons'[f].took => cons'[f].tid # {t}
        BY <4>1, <3>3
      <4>. QED
        BY <3>5, <4>1, <4>2, <4>3 DEF BurnInv
    <3>6. \A s \in Tids : tok[s].pc \in {"new", "keys", "setex"} => nonce'[s] = "none"
      BY <2>2, <3>1 DEF BurnInv
    <3>. QED
      BY <2>0, <3>1, <3>2, <3>4, <3>5, <3>6 DEF BurnInv, Burned
  <2>. QED
    BY <2>1, <2>2
<1>9. ASSUME NEW c \in Consumers, NEW s \in {"host", "member", "login", "done", "refused"},
             cons[c].pc \in Consuming, s # "refused" => cons[c].pc \in Burned,
             ConsGoto(c, s), UNCHANGED <<nonce, tok>>
      PROVE  BurnInv'
  BY <1>9 DEF ConsGoto, BurnInv, Burned, ConsumeCalls
<1>10. ASSUME NEW c \in Consumers,
              SRem(c) \/ HostCheck(c) \/ MemberCheck(c) \/ Login(c) \/ ConsumeFails(c)
       PROVE  BurnInv'
  BY <1>9, <1>10 DEF SRem, HostCheck, MemberCheck, Login, ConsumeFails, Consuming, Burned,
                     redisVars, issueVars
<1>11. ASSUME NEW l \in Logouts,
              (\E u \in Users : SMembers(l, u)) \/ DelIndex(l) \/ LogoutFails(l)
       PROVE  BurnInv'
  BY <1>2, <1>11 DEF SMembers, DelIndex, LogoutFails, redisVars, issueVars
<1>12. ASSUME NEW l \in Logouts, DelNonces(l) PROVE BurnInv'
  BY <1>12 DEF DelNonces, issueVars, BurnInv
<1>13. CASE Tick
  BY <1>13 DEF Tick, BurnInv
<1>14. CASE KeysChange
  BY <1>2, <1>14 DEF KeysChange, issueVars, redisVars
<1>16. ASSUME NEW m \in Members, MembershipChange(m) PROVE BurnInv'
  BY <1>2, <1>16 DEF MembershipChange, issueVars, redisVars
<1>17. ASSUME NEW h \in Hosts, NEW s \in {"ACTIVE", "SUSPENDED", "missing"}, OrgChange(h, s)
       PROVE  BurnInv'
  BY <1>2, <1>17 DEF OrgChange, issueVars, redisVars
<1>15. CASE UNCHANGED hVars
  BY <1>2, <1>15 DEF hVars, issueVars, redisVars
<1>. QED
  BY <1>3, <1>5, <1>6, <1>7, <1>8, <1>10, <1>11, <1>12, <1>13, <1>14, <1>15, <1>16, <1>17
     DEF Next, IssueStep, ConsumeStep, LogoutStep

LEMMA TicketInvStep == TicketInv /\ [Next]_hVars => TicketInv'
<1>. SUFFICES ASSUME TicketInv, [Next]_hVars PROVE HandoffTypeOK'
  BY BurnStep DEF TicketInv
<1>1. CASE UNCHANGED hVars
  BY <1>1 DEF hVars, TicketInv, HandoffTypeOK, Ring!RingOK, ringVars, dbVars, issueVars, redisVars
<1>2. CASE Next
  BY <1>2, IssueTyped, ConsumeTyped, LogoutTyped, WorldTyped DEF Next
<1>. QED
  BY <1>1, <1>2

LEMMA TicketInvariant == Spec => []TicketInv
BY TicketInvInit, TicketInvStep, PTL DEF Spec

(* No two requests ever enter a tenant with the same token.                *)
THEOREM HandoffIsSingleUse == Spec => []SingleUse
<1>1. TicketInv => SingleUse
  BY DEF TicketInv, BurnInv, Burned, SingleUse
<1>. QED
  BY <1>1, TicketInvariant, PTL

-----------------------------------------------------------------------------
(* Towards the refinement.  A step that leaves the nonces alone and only   *)
(* moves requests that are not being let in is a stutter.                  *)
LEMMA StutterStep ==
    ASSUME TicketInv, nonce' = nonce, cons' = cons
    PROVE  UNCHANGED Ticket!ticketVars
BY DEF Ticket!ticketVars, TicketState, Redeemers, LetIn

LEMMA VoidStep ==
    ASSUME TicketInv, NEW T \in SUBSET Tids, NEW why \in {"revoked", "expired"},
           \A t \in T : nonce[t] = "live",
           nonce' = [t \in Tids |-> IF t \in T THEN why ELSE nonce[t]],
           cons' = cons
    PROVE  Ticket!Void(T)
<1>1. \A t \in T : TicketState[t] = "outstanding"
  BY DEF TicketState
<1>2. TicketState' = [t \in Tids |-> IF t \in T THEN "void" ELSE TicketState[t]]
  <2>1. \A t \in Tids : TicketState'[t] = IF t \in T THEN "void" ELSE TicketState[t]
    BY DEF TicketState
  <2>. QED
    BY <2>1 DEF TicketState
<1>3. Redeemers' = Redeemers /\ LetIn' = LetIn
  BY DEF Redeemers, LetIn
<1>. QED
  BY <1>1, <1>2, <1>3 DEF Ticket!Void

LEMMA SetExIssues ==
    ASSUME TicketInv, NEW t \in Tids, SetEx(t)
    PROVE  Ticket!Issue(t)
<1>. USE DEF TicketInv, HandoffTypeOK
<1>1. nonce[t] = "none" /\ nonce' = [nonce EXCEPT ![t] = "live"] /\ cons' = cons
  BY DEF SetEx, BurnInv
<1>2. TicketState[t] = "unissued" /\ TicketState' = [TicketState EXCEPT ![t] = "outstanding"]
  BY <1>1 DEF TicketState
<1>3. Redeemers' = Redeemers /\ LetIn' = LetIn
  BY <1>1 DEF Redeemers, LetIn
<1>. QED
  BY <1>2, <1>3 DEF Ticket!Issue

LEMMA GetDelRedeems ==
    ASSUME TicketInv, NEW c \in Consumers, GetDel(c)
    PROVE  \/ \E t \in Tids : Ticket!Redeem(t, c)
           \/ UNCHANGED Ticket!ticketVars
<1>. USE DEF TicketInv, HandoffTypeOK
<1>1. \A d \in Consumers : cons[d].pc = "getdel" => \E t \in Tids : cons[d].tid = {t}
  BY DEF BurnInv
<1>2. PICK t \in Tids : cons[c].tid = {t}
  BY <1>1, Zenon DEF GetDel
<1>3. ~cons[c].took /\ cons[c].pc = "getdel"
  BY DEF GetDel, BurnInv
<1>4. CASE nonce[t] # "live"
  <2>. DEFINE r == [cons[c] EXCEPT !.pc = "refused"]
  <2>1. nonce' = nonce /\ cons' = [cons EXCEPT ![c] = r]
    BY <1>2, <1>4 DEF GetDel, ConsGoto
  <2>2. r.pc = "refused" /\ r.took = cons[c].took /\ r.tid = cons[c].tid
    BY DEF ConsumeCalls
  <2>. HIDE DEF r
  <2>3. TicketState' = TicketState
    BY <2>1 DEF TicketState
  <2>4. Redeemers' = Redeemers /\ LetIn' = LetIn
    BY <1>3, <2>1, <2>2 DEF Redeemers, LetIn
  <2>. QED
    BY <2>3, <2>4 DEF Ticket!ticketVars
<1>5. CASE nonce[t] = "live"
  <2>. DEFINE r == [cons[c] EXCEPT !.pc = "srem", !.took = TRUE]
  <2>1. nonce' = [nonce EXCEPT ![t] = "taken"] /\ cons' = [cons EXCEPT ![c] = r]
    BY <1>2, <1>5 DEF GetDel, BurnNonce
  <2>2. r.pc = "srem" /\ r.took = TRUE /\ r.tid = {t}
    BY <1>2 DEF ConsumeCalls
  <2>. HIDE DEF r
  <2>3. TicketState[t] = "outstanding" /\ TicketState' = [TicketState EXCEPT ![t] = "redeemed"]
    BY <1>5, <2>1 DEF TicketState
  <2>4. \A u \in Tids : c \notin Redeemers[u]
    BY <1>3 DEF Redeemers
  <2>5. \A d \in Consumers : cons[d].took => cons[d].tid # {t}
    <3>1. ASSUME NEW d \in Consumers, cons[d].took
          PROVE  \E s \in Tids : s # t /\ cons[d].tid = {s}
      BY <1>5, <3>1 DEF BurnInv
    <3>. QED
      BY <3>1
  <2>6. Redeemers' = [Redeemers EXCEPT ![t] = {c}]
    <3>1. Redeemers'[t] = {c}
      BY <2>1, <2>2, <2>5 DEF Redeemers
    <3>2. \A u \in Tids \ {t} : Redeemers'[u] = Redeemers[u]
      BY <1>2, <1>3, <2>1, <2>2 DEF Redeemers
    <3>. QED
      BY <3>1, <3>2 DEF Redeemers
  <2>7. LetIn' = LetIn
    BY <1>3, <2>1, <2>2 DEF LetIn
  <2>. QED
    BY <2>3, <2>4, <2>6, <2>7 DEF Ticket!Redeem
<1>. QED
  BY <1>4, <1>5

LEMMA LoginEnters ==
    ASSUME TicketInv, NEW c \in Consumers, Login(c)
    PROVE  Ticket!Enter(c)
<1>. USE DEF TicketInv, HandoffTypeOK
<1>. DEFINE r == [cons[c] EXCEPT !.pc = "done"]
<1>1. nonce' = nonce /\ cons' = [cons EXCEPT ![c] = r] /\ cons[c].pc = "login"
  BY DEF Login, ConsGoto, redisVars
<1>2. r.pc = "done" /\ r.took = cons[c].took /\ r.tid = cons[c].tid
  BY DEF ConsumeCalls
<1>. HIDE DEF r
<1>3. cons[c].took /\ \E t \in Tids : cons[c].tid = {t}
  BY <1>1 DEF BurnInv, Burned
<1>4. PICK t \in Tids : cons[c].tid = {t}
  BY <1>3
<1>8. \A d \in Consumers : cons[d].took /\ cons[d].tid = {t} => d = c
  BY <1>3, <1>4 DEF BurnInv
<1>5. Redeemers[t] = {c}
  BY <1>3, <1>4, <1>8 DEF Redeemers
<1>6. TicketState' = TicketState /\ Redeemers' = Redeemers
  BY <1>1, <1>2 DEF TicketState, Redeemers
<1>7. c \notin LetIn /\ LetIn' = LetIn \cup {c}
  BY <1>1, <1>2 DEF LetIn
<1>. QED
  BY <1>5, <1>6, <1>7 DEF Ticket!Enter

(* The other moves of a consume request: none of them redeems or enters.   *)
LEMMA ConsumeStutters ==
    ASSUME TicketInv, NEW c \in Consumers,
           \/ \E t \in Tids : Verify(c, t)
           \/ SRem(c) \/ HostCheck(c) \/ MemberCheck(c) \/ ConsumeFails(c)
    PROVE  UNCHANGED Ticket!ticketVars
<1>. USE DEF TicketInv, HandoffTypeOK
<1>1. ASSUME NEW r, nonce' = nonce, cons' = [cons EXCEPT ![c] = r],
             cons[c].pc # "done", r.pc # "done", r.took = cons[c].took,
             cons[c].took => r.tid = cons[c].tid
      PROVE  UNCHANGED Ticket!ticketVars
  <2>1. TicketState' = TicketState /\ LetIn' = LetIn
    BY <1>1 DEF TicketState, LetIn
  <2>2. Redeemers' = Redeemers
    BY <1>1 DEF Redeemers
  <2>. QED
    BY <2>1, <2>2 DEF Ticket!ticketVars
<1>2. ASSUME NEW s \in {"host", "member", "login", "refused"}, nonce' = nonce,
             cons[c].pc \in Consuming, ConsGoto(c, s)
      PROVE  UNCHANGED Ticket!ticketVars
  <2>. DEFINE r == [cons[c] EXCEPT !.pc = s]
  <2>1. r.pc = s /\ r.took = cons[c].took /\ r.tid = cons[c].tid
    BY DEF ConsumeCalls
  <2>2. cons' = [cons EXCEPT ![c] = r]
    BY <1>2 DEF ConsGoto
  <2>. HIDE DEF r
  <2>. QED
    BY <1>1, <1>2, <2>1, <2>2 DEF Consuming
<1>3. ASSUME NEW t \in Tids, Verify(c, t) PROVE UNCHANGED Ticket!ticketVars
  <2>. DEFINE r == [cons[c] EXCEPT !.pc = "getdel", !.tid = {t}]
  <2>1. r.pc = "getdel" /\ r.took = cons[c].took
    BY DEF ConsumeCalls
  <2>2. nonce' = nonce /\ cons' = [cons EXCEPT ![c] = r] /\ cons[c].pc = "new"
    BY <1>3 DEF Verify, redisVars
  <2>3. ~cons[c].took
    BY <2>2 DEF BurnInv
  <2>. HIDE DEF r
  <2>. QED
    BY <1>1, <2>1, <2>2, <2>3
<1>. QED
  BY <1>2, <1>3 DEF SRem, HostCheck, MemberCheck, ConsumeFails, Consuming, redisVars

LEMMA TickVoids ==
    ASSUME TicketInv, Tick
    PROVE  \E T \in SUBSET Tids : Ticket!Void(T)
<1>. DEFINE T == {t \in Tids : nonce[t] = "live" /\ ttl[t] = 1}
<1>1. cons' = cons /\ nonce' = [t \in Tids |-> IF t \in T THEN "expired" ELSE nonce[t]]
  BY DEF Tick
<1>2. T \in SUBSET Tids /\ \A t \in T : nonce[t] = "live"
  OBVIOUS
<1>. HIDE DEF T
<1>. QED
  BY <1>1, <1>2, VoidStep

LEMMA DelNoncesVoids ==
    ASSUME TicketInv, NEW l \in Logouts, DelNonces(l)
    PROVE  \E T \in SUBSET Tids : Ticket!Void(T)
<1>. DEFINE T == {t \in lo[l].seen : nonce[t] = "live"}
<1>1. cons' = cons /\ nonce' = [t \in Tids |-> IF t \in T THEN "revoked" ELSE nonce[t]]
  BY DEF DelNonces
<1>2. T \in SUBSET Tids /\ \A t \in T : nonce[t] = "live"
  BY DEF TicketInv, HandoffTypeOK, LogoutCalls
<1>. HIDE DEF T
<1>. QED
  BY <1>1, <1>2, VoidStep

(* The whole handoff protocol, Redis commands, races, failures and expiry  *)
(* included, is a one-shot ticket.                                         *)
THEOREM HandoffImplementsOneShot == Spec => ImplementsOneShot
<1>1. Init => Ticket!TicketInit
  BY DEF Init, Ticket!TicketInit, TicketState, Redeemers, LetIn
<1>2. TicketInv /\ [Next]_hVars => [Ticket!TicketNext]_(Ticket!ticketVars)
  <2>. SUFFICES ASSUME TicketInv, [Next]_hVars
                PROVE  Ticket!TicketNext \/ UNCHANGED Ticket!ticketVars
    OBVIOUS
  <2>1. ASSUME NEW t \in Tids,
               (\E m \in Members : Validate(t, m)) \/ IssueStep(t) \/ IssueFails(t)
        PROVE  Ticket!TicketNext \/ UNCHANGED Ticket!ticketVars
    <3>1. CASE SetEx(t)
      BY <3>1, SetExIssues DEF Ticket!TicketNext
    <3>2. CASE ~SetEx(t)
      <4>1. nonce' = nonce /\ cons' = cons
        BY <2>1, <3>2 DEF Validate, IssueStep, IssueFails, Sign, SAdd, Expire, HandOut, redisVars
      <4>. QED
        BY <4>1, StutterStep
    <3>. QED
      BY <3>1, <3>2
  <2>2. ASSUME NEW c \in Consumers,
               (\E t \in Tids : Verify(c, t)) \/ ConsumeStep(c) \/ ConsumeFails(c)
        PROVE  Ticket!TicketNext \/ UNCHANGED Ticket!ticketVars
    BY <2>2, GetDelRedeems, LoginEnters, ConsumeStutters DEF ConsumeStep, Ticket!TicketNext
  <2>3. ASSUME NEW l \in Logouts,
               (\E u \in Users : SMembers(l, u)) \/ LogoutStep(l) \/ LogoutFails(l)
        PROVE  Ticket!TicketNext \/ UNCHANGED Ticket!ticketVars
    <3>1. CASE DelNonces(l)
      BY <3>1, DelNoncesVoids DEF Ticket!TicketNext
    <3>2. CASE ~DelNonces(l)
      <4>1. nonce' = nonce /\ cons' = cons
        BY <2>3, <3>2 DEF SMembers, LogoutStep, DelIndex, LogoutFails, redisVars
      <4>. QED
        BY <4>1, StutterStep
    <3>. QED
      BY <3>1, <3>2
  <2>4. CASE Tick
    BY <2>4, TickVoids DEF Ticket!TicketNext
  <2>5. ASSUME KeysChange \/ (\E m \in Members : MembershipChange(m))
               \/ (\E h \in Hosts, s \in {"ACTIVE", "SUSPENDED", "missing"} : OrgChange(h, s))
               \/ UNCHANGED hVars
        PROVE  UNCHANGED Ticket!ticketVars
    <3>1. nonce' = nonce /\ cons' = cons
      BY <2>5 DEF KeysChange, MembershipChange, OrgChange, hVars, redisVars
    <3>. QED
      BY <3>1, StutterStep
  <2>. QED
    BY <2>1, <2>2, <2>3, <2>4, <2>5 DEF Next
<1>. QED
  BY <1>1, <1>2, TicketInvariant, PTL DEF Spec, ImplementsOneShot, Ticket!TicketSpec

-----------------------------------------------------------------------------
(* A logout revokes what it found in the index for good.  A token is       *)
(* listed only after its nonce was written, and a nonce is written once:   *)
(* whatever is listed can die, and can never come to life.                 *)
ListInv ==
    /\ \A t \in Tids : tok[t].pc \in {"sadd", "expire", "audit", "out"} => nonce[t] # "none"
    /\ \A u \in Users : \A t \in index[u] : nonce[t] # "none"
    /\ \A l \in Logouts : \A t \in lo[l].seen : nonce[t] # "none"

RevokeInv == ListInv /\ RevokedStaysDead

NonceForward ==
    \A t \in Tids : nonce[t] # "none" =>
        nonce'[t] # "none" /\ (nonce'[t] = "live" => nonce[t] = "live")

LEMMA NonceMovesForward == TicketInv /\ [Next]_hVars => NonceForward
<1>. SUFFICES ASSUME TicketInv, [Next]_hVars PROVE NonceForward
  OBVIOUS
<1>. USE DEF TicketInv, HandoffTypeOK
<1>1. ASSUME NEW t \in Tids, SetEx(t) PROVE NonceForward
  <2>1. nonce[t] = "none" /\ nonce' = [nonce EXCEPT ![t] = "live"]
    BY <1>1 DEF SetEx, BurnInv
  <2>. QED
    BY <2>1 DEF NonceForward
<1>2. ASSUME NEW c \in Consumers, GetDel(c) PROVE NonceForward
  <2>1. nonce' = nonce \/ \E t \in Tids : nonce' = [nonce EXCEPT ![t] = "taken"]
    <3>1. cons[c].tid \subseteq Tids
      BY DEF ConsumeCalls
    <3>. QED
      BY <1>2, <3>1 DEF GetDel, BurnNonce
  <2>. QED
    BY <2>1 DEF NonceForward
<1>3. ASSUME NEW l \in Logouts, DelNonces(l) PROVE NonceForward
  BY <1>3 DEF DelNonces, NonceForward
<1>4. CASE Tick
  BY <1>4 DEF Tick, NonceForward
<1>5. CASE nonce' = nonce
  BY <1>5 DEF NonceForward
<1>. QED
  BY <1>1, <1>2, <1>3, <1>4, <1>5
     DEF Next, IssueStep, ConsumeStep, LogoutStep, Validate, Sign, SAdd, Expire, HandOut,
         IssueFails, Verify, SRem, HostCheck, MemberCheck, Login, ConsumeFails, SMembers,
         DelIndex, LogoutFails, KeysChange, MembershipChange, OrgChange, redisVars, hVars

LEMMA RevokeInvStep == TicketInv /\ RevokeInv /\ [Next]_hVars => RevokeInv'
<1>. SUFFICES ASSUME TicketInv, RevokeInv, [Next]_hVars PROVE RevokeInv'
  OBVIOUS
<1>0. NonceForward
  BY NonceMovesForward
<1>. USE DEF TicketInv, HandoffTypeOK
<1>7. (\A l \in Logouts : lo[l].seen \subseteq Tids) /\ \A u \in Users : index[u] \subseteq Tids
  BY DEF LogoutCalls
<1>1. \A t \in Tids : tok'[t].pc \in {"sadd", "expire", "audit", "out"} => nonce'[t] # "none"
  <2>1. CASE tok' = tok
    BY <1>0, <2>1 DEF RevokeInv, ListInv, NonceForward
  <2>2. ASSUME NEW t \in Tids, NEW m \in Members, Validate(t, m)
        PROVE  \A s \in Tids : tok'[s].pc = "keys" \/ tok'[s].pc = tok[s].pc
    <3>. DEFINE r == [tok[t] EXCEPT !.pc = "keys", !.m = {m}]
    <3>1. r.pc = "keys" /\ tok' = [tok EXCEPT ![t] = r]
      BY <2>2 DEF Validate, TokenCalls
    <3>. HIDE DEF r
    <3>. QED
      BY <3>1
  <2>3. ASSUME NEW t \in Tids, Sign(t)
        PROVE  \A s \in Tids : tok'[s].pc \in {"setex", "failed"} \/ tok'[s].pc = tok[s].pc
    <3>. DEFINE out == [tok[t] EXCEPT !.pc = "failed"]
                signed == [tok[t] EXCEPT !.pc = "setex", !.key = signer]
    <3>1. out.pc = "failed" /\ signed.pc = "setex"
      BY DEF TokenCalls
    <3>2. tok' = [tok EXCEPT ![t] = out] \/ tok' = [tok EXCEPT ![t] = signed]
      BY <2>3 DEF Sign, TokGoto
    <3>. HIDE DEF out, signed
    <3>. QED
      BY <3>1, <3>2
  <2>4. ASSUME NEW t \in Tids, SetEx(t)
        PROVE  nonce'[t] # "none" /\ \A s \in Tids : s = t \/ tok'[s].pc = tok[s].pc
    BY <2>4 DEF SetEx, TokGoto, TokenCalls
  <2>5. ASSUME NEW t \in Tids, SAdd(t) \/ Expire(t) \/ HandOut(t) \/ IssueFails(t)
        PROVE  \A s \in Tids : \/ tok'[s].pc = tok[s].pc \/ tok'[s].pc = "failed"
                               \/ tok[s].pc \in {"sadd", "expire", "audit"}
    BY <2>5 DEF SAdd, Expire, HandOut, IssueFails, TokGoto, TokenCalls
  <2>. QED
    BY <1>0, <2>1, <2>2, <2>3, <2>4, <2>5
       DEF RevokeInv, ListInv, NonceForward, Next, IssueStep, ConsumeStep, LogoutStep, Verify,
           GetDel, SRem, HostCheck, MemberCheck, Login, ConsumeFails, SMembers, DelNonces,
           DelIndex, LogoutFails, Tick, KeysChange, MembershipChange, OrgChange, issueVars, hVars
<1>2. \A u \in Users : \A t \in index'[u] : t \in Tids /\ nonce'[t] # "none"
  <2>1. ASSUME NEW t \in Tids, SAdd(t)
        PROVE  nonce[t] # "none" /\ \A u \in Users : index'[u] \subseteq index[u] \cup {t}
    BY <2>1 DEF SAdd, IndexWith, RevokeInv, ListInv
  <2>2. CASE \A u \in Users : index'[u] \subseteq index[u]
    BY <1>0, <1>7, <2>2 DEF RevokeInv, ListInv, NonceForward
  <2>3. ASSUME NEW c \in Consumers, SRem(c) PROVE \A u \in Users : index'[u] \subseteq index[u]
    BY <2>3 DEF SRem
  <2>4. ASSUME Tick \/ \E l \in Logouts : DelIndex(l)
        PROVE  \A u \in Users : index'[u] \subseteq index[u]
    BY <2>4 DEF Tick, DelIndex
  <2>5. (\E t \in Tids : SAdd(t)) \/ (\A u \in Users : index'[u] \subseteq index[u])
    BY <2>3, <2>4
       DEF Next, IssueStep, ConsumeStep, LogoutStep, Validate, Sign, SetEx, Expire, HandOut,
           IssueFails, Verify, GetDel, HostCheck, MemberCheck, Login, ConsumeFails, SMembers,
           DelNonces, LogoutFails, KeysChange, MembershipChange, OrgChange, redisVars, hVars
  <2>6. ASSUME NEW t \in Tids, SAdd(t)
        PROVE  \A u \in Users : \A s \in index'[u] : s \in Tids /\ nonce'[s] # "none"
    BY <1>0, <1>7, <2>1, <2>6 DEF RevokeInv, ListInv, NonceForward
  <2>. QED
    BY <2>2, <2>5, <2>6
<1>3. CASE lo' = lo
  BY <1>0, <1>1, <1>2, <1>3, <1>7 DEF RevokeInv, ListInv, NonceForward, RevokedStaysDead
<1>4. ASSUME NEW l \in Logouts, NEW r, lo' = [lo EXCEPT ![l] = r],
             \A t \in r.seen : t \in Tids /\ nonce[t] # "none",
             r.pc \in {"delindex", "done"} => \A t \in r.seen : nonce'[t] # "live"
      PROVE  RevokeInv'
  BY <1>0, <1>1, <1>2, <1>4, <1>7 DEF RevokeInv, ListInv, NonceForward, RevokedStaysDead
<1>5. ASSUME NEW l \in Logouts, NEW u \in Users, SMembers(l, u) PROVE RevokeInv'
  <2>. DEFINE r == [pc |-> IF index[u] = {} THEN "done" ELSE "del",
                    user |-> {u}, seen |-> index[u]]
  <2>1. lo' = [lo EXCEPT ![l] = r]
    BY <1>5 DEF SMembers
  <2>2. r.seen = index[u] /\ (r.pc \in {"delindex", "done"} => index[u] = {})
    OBVIOUS
  <2>. HIDE DEF r
  <2>. QED
    BY <1>4, <1>7, <2>1, <2>2 DEF RevokeInv, ListInv
<1>6. ASSUME NEW l \in Logouts, LogoutStep(l) \/ LogoutFails(l) PROVE RevokeInv'
  <2>1. ASSUME NEW s, lo' = [lo EXCEPT ![l].pc = s],
               s \in {"delindex", "done"} => \A t \in lo[l].seen : nonce'[t] # "live"
        PROVE  RevokeInv'
    <3>. DEFINE r == [lo[l] EXCEPT !.pc = s]
    <3>1. r.pc = s /\ r.seen = lo[l].seen
      BY DEF LogoutCalls
    <3>2. lo' = [lo EXCEPT ![l] = r]
      BY <2>1
    <3>3. \A t \in r.seen : t \in Tids /\ nonce[t] # "none"
      BY <1>7, <3>1 DEF RevokeInv, ListInv
    <3>4. r.pc \in {"delindex", "done"} => \A t \in r.seen : nonce'[t] # "live"
      BY <2>1, <3>1
    <3>. HIDE DEF r
    <3>. QED
      BY <1>4, <3>2, <3>3, <3>4
  <2>2. CASE DelNonces(l)
    BY <1>7, <2>1, <2>2 DEF DelNonces
  <2>3. CASE DelIndex(l)
    BY <2>1, <2>3 DEF DelIndex, RevokeInv, RevokedStaysDead
  <2>4. CASE LogoutFails(l)
    BY <2>1, <2>4 DEF LogoutFails
  <2>. QED
    BY <1>6, <2>2, <2>3, <2>4 DEF LogoutStep
<1>. QED
  BY <1>3, <1>5, <1>6
     DEF Next, IssueStep, ConsumeStep, Validate, Sign, SetEx, SAdd, Expire, HandOut, IssueFails,
         Verify, GetDel, SRem, HostCheck, MemberCheck, Login, ConsumeFails, Tick, KeysChange,
         MembershipChange, OrgChange, hVars

(* Once a logout has deleted the nonces it found listed, none of those     *)
(* tokens is ever usable again, whatever is issued or consumed meanwhile.  *)
THEOREM RevocationIsFinal == Spec => []RevokedStaysDead
<1>1. Init => RevokeInv
  BY DEF Init, RevokeInv, ListInv, RevokedStaysDead
<1>2. RevokeInv => RevokedStaysDead
  BY DEF RevokeInv
<1>. QED
  BY <1>1, <1>2, RevokeInvStep, TicketInvariant, PTL DEF Spec

-----------------------------------------------------------------------------
(* Two clocks: a nonce gets its time when the JWT has already used some of *)
(* its own, and from then on both lose the same.                           *)
LifeInv ==
    \A t \in Tids :
        /\ nonce[t] = "live" => jwt[t] <= ttl[t]
        /\ nonce[t] = "expired" => jwt[t] = 0

LEMMA LifeInvStep == TicketInv /\ LifeInv /\ [Next]_hVars => LifeInv'
<1>. SUFFICES ASSUME TicketInv, LifeInv, [Next]_hVars PROVE LifeInv'
  OBVIOUS
<1>0. /\ jwt \in [Tids -> 0..TTL] /\ ttl \in [Tids -> 0..TTL] /\ TTL \in Nat
      /\ nonce \in [Tids -> {"none", "live", "taken", "revoked", "expired"}]
  BY TTLAssumption DEF TicketInv, HandoffTypeOK
<1>1. CASE UNCHANGED <<jwt, nonce, ttl>>
  BY <1>1 DEF LifeInv
<1>2. ASSUME NEW t \in Tids, Sign(t) PROVE LifeInv'
  <2>1. nonce[t] = "none" /\ UNCHANGED <<nonce, ttl>>
    BY <1>2 DEF Sign, TicketInv, BurnInv, redisVars
  <2>2. jwt' = jwt \/ jwt' = [jwt EXCEPT ![t] = TTL]
    BY <1>2 DEF Sign
  <2>. QED
    BY <1>0, <2>1, <2>2 DEF LifeInv
<1>3. ASSUME NEW t \in Tids, SetEx(t) PROVE LifeInv'
  BY <1>0, <1>3 DEF SetEx, NonceTTL, LifeInv
<1>4. ASSUME NEW c \in Consumers, GetDel(c) PROVE LifeInv'
  <2>1. jwt' = jwt
    BY <1>4 DEF GetDel, issueVars
  <2>2. \A t \in Tids : nonce'[t] = "taken" \/ (nonce'[t] = nonce[t] /\ ttl'[t] = ttl[t])
    BY <1>0, <1>4 DEF GetDel, BurnNonce
  <2>. QED
    BY <2>1, <2>2 DEF LifeInv
<1>5. ASSUME NEW l \in Logouts, DelNonces(l) PROVE LifeInv'
  <2>1. jwt' = jwt
    BY <1>5 DEF DelNonces, issueVars
  <2>2. \A t \in Tids : nonce'[t] = "revoked" \/ (nonce'[t] = nonce[t] /\ ttl'[t] = ttl[t])
    BY <1>5 DEF DelNonces
  <2>. QED
    BY <2>1, <2>2 DEF LifeInv
<1>6. CASE Tick
  <2>1. ASSUME NEW t \in Tids
        PROVE  /\ jwt'[t] = IF jwt[t] = 0 THEN 0 ELSE jwt[t] - 1
               /\ ttl'[t] = IF ttl[t] = 0 THEN 0 ELSE ttl[t] - 1
               /\ nonce'[t] = IF nonce[t] = "live" /\ ttl[t] = 1 THEN "expired" ELSE nonce[t]
    BY <1>6 DEF Tick
  <2>. QED
    BY <1>0, <2>1 DEF LifeInv
<1>. QED
  BY <1>1, <1>2, <1>3, <1>4, <1>5, <1>6
     DEF Next, IssueStep, ConsumeStep, LogoutStep, Validate, SAdd, Expire, HandOut, IssueFails,
         Verify, SRem, HostCheck, MemberCheck, Login, ConsumeFails, SMembers, DelIndex,
         LogoutFails, KeysChange, MembershipChange, OrgChange, issueVars, redisVars, hVars

(* Until a token's own exp, the nonce is missing only if it was consumed   *)
(* or revoked, for any lifetime and however late each command comes.       *)
THEOREM NoFalseReplay == Spec => []NonceOutlivesJwt
<1>1. Init => RevokeInv /\ LifeInv
  BY DEF Init, RevokeInv, ListInv, RevokedStaysDead, LifeInv
<1>2. TicketInv /\ RevokeInv /\ LifeInv => NonceOutlivesJwt
  <2>. SUFFICES ASSUME TicketInv, RevokeInv, LifeInv, NEW t \in Tids,
                       tok[t].pc = "out", jwt[t] > 0, nonce[t] \notin {"taken", "revoked"}
                PROVE  nonce[t] = "live" /\ jwt[t] <= ttl[t]
    BY DEF NonceOutlivesJwt
  <2>1. nonce[t] # "none"
    BY DEF RevokeInv, ListInv
  <2>2. nonce[t] # "expired"
    BY DEF LifeInv
  <2>3. nonce[t] \in {"none", "live", "taken", "revoked", "expired"}
    BY DEF TicketInv, HandoffTypeOK
  <2>. QED
    BY <2>1, <2>2, <2>3 DEF LifeInv
<1>. QED
  BY <1>1, <1>2, RevokeInvStep, LifeInvStep, TicketInvariant, PTL DEF Spec

-----------------------------------------------------------------------------
(* A request that has passed the check of its host is at the token's own   *)
(* host for good, since a token that is out says the same for ever.        *)
BoundInv ==
    \A c \in Consumers :
        /\ \A t \in cons[c].tid : tok[t].pc = "out"
        /\ cons[c].pc \in {"member", "login", "done"} => \A m \in Claim(c) : m.org = cons[c].host

LEMMA OutStays ==
    ASSUME TicketInv, [Next]_hVars, NEW t \in Tids, tok[t].pc = "out"
    PROVE  tok'[t] = tok[t]
<1>. USE DEF TicketInv, HandoffTypeOK
<1>1. ASSUME NEW s \in Tids, tok[s].pc # "out", \E r : tok' = [tok EXCEPT ![s] = r]
      PROVE  tok'[t] = tok[t]
  BY <1>1
<1>2. ASSUME NEW s \in Tids, NEW m \in Members, Validate(s, m) PROVE tok'[t] = tok[t]
  BY <1>2 DEF Validate
<1>3. ASSUME NEW s \in Tids, IssueStep(s) \/ IssueFails(s) PROVE tok'[t] = tok[t]
  BY <1>3 DEF IssueStep, Sign, SetEx, SAdd, Expire, HandOut, IssueFails, TokGoto, Issuing
<1>4. CASE tok' = tok
  BY <1>4
<1>. QED
  BY <1>2, <1>3, <1>4
     DEF Next, ConsumeStep, LogoutStep, Verify, GetDel, SRem, HostCheck, MemberCheck, Login,
         ConsumeFails, SMembers, DelNonces, DelIndex, LogoutFails, Tick, KeysChange,
         MembershipChange, OrgChange, issueVars, hVars

LEMMA BoundInvStep == TicketInv /\ BoundInv /\ [Next]_hVars => BoundInv'
<1>. SUFFICES ASSUME TicketInv, BoundInv, [Next]_hVars PROVE BoundInv'
  OBVIOUS
<1>0. \A c \in Consumers : cons[c] \in ConsumeCalls /\ cons[c].tid \subseteq Tids
  BY DEF TicketInv, HandoffTypeOK, ConsumeCalls
<1>1. ASSUME NEW c \in Consumers, NEW S \in SUBSET Tids, \A t \in S : tok[t].pc = "out"
      PROVE  \A t \in S : tok'[t] = tok[t]
  BY <1>1, OutStays
\* What stands for the requests that do not move.
<1>2. ASSUME NEW c \in Consumers, cons'[c] = cons[c]
      PROVE  /\ \A t \in cons'[c].tid : tok'[t].pc = "out"
             /\ cons'[c].pc \in {"member", "login", "done"} =>
                  \A m \in Claim(c)' : m.org = cons'[c].host
  <2>1. \A t \in cons[c].tid : tok'[t] = tok[t] /\ tok[t].pc = "out"
    BY <1>0, <1>1 DEF BoundInv
  <2>2. Claim(c)' = Claim(c)
    BY <1>2, <2>1 DEF Claim
  <2>. QED
    BY <1>2, <2>1, <2>2 DEF BoundInv
<1>3. CASE cons' = cons
  BY <1>2, <1>3 DEF BoundInv
<1>4. ASSUME NEW c \in Consumers, NEW r, cons' = [cons EXCEPT ![c] = r],
             \A t \in r.tid : tok'[t].pc = "out",
             r.pc \in {"member", "login", "done"} => \A m \in Claim(c)' : m.org = r.host
      PROVE  BoundInv'
  <2>1. cons'[c] = r /\ \A d \in Consumers \ {c} : cons'[d] = cons[d]
    BY <1>4 DEF TicketInv, HandoffTypeOK
  <2>. QED
    BY <1>2, <1>4, <2>1 DEF BoundInv
<1>5. ASSUME NEW c \in Consumers, NEW t \in Tids, Verify(c, t) PROVE BoundInv'
  <2>. DEFINE r == [cons[c] EXCEPT !.pc = "getdel", !.tid = {t}]
  <2>1. cons' = [cons EXCEPT ![c] = r] /\ r.pc = "getdel" /\ r.tid = {t}
    BY <1>0, <1>5 DEF Verify, ConsumeCalls
  <2>2. tok'[t].pc = "out"
    BY <1>5, OutStays DEF Verify
  <2>. HIDE DEF r
  <2>. QED
    BY <1>4, <2>1, <2>2
\* A request that goes on with the token it has.
<1>6. ASSUME NEW c \in Consumers, NEW r, cons' = [cons EXCEPT ![c] = r],
             r.tid = cons[c].tid, r.host = cons[c].host,
             r.pc \in {"member", "login", "done"} => \A m \in Claim(c) : m.org = cons[c].host
      PROVE  BoundInv'
  <2>1. \A t \in cons[c].tid : tok'[t] = tok[t] /\ tok[t].pc = "out"
    BY <1>0, <1>1 DEF BoundInv
  <2>2. cons'[c] = r
    BY <1>6 DEF TicketInv, HandoffTypeOK
  <2>3. Claim(c)' = Claim(c)
    BY <1>6, <2>1, <2>2 DEF Claim
  <2>4. \A t \in r.tid : tok'[t].pc = "out"
    BY <1>6, <2>1
  <2>5. r.pc \in {"member", "login", "done"} => \A m \in Claim(c)' : m.org = r.host
    BY <1>6, <2>3
  <2>. QED
    BY <1>4, <1>6, <2>4, <2>5
<1>7. ASSUME NEW c \in Consumers, NEW step, ConsGoto(c, step),
             step \in {"member", "login", "done"} => \A m \in Claim(c) : m.org = cons[c].host
      PROVE  BoundInv'
  <2>. DEFINE r == [cons[c] EXCEPT !.pc = step]
  <2>1. cons' = [cons EXCEPT ![c] = r] /\ r.pc = step /\ r.tid = cons[c].tid /\ r.host = cons[c].host
    BY <1>0, <1>7 DEF ConsGoto, ConsumeCalls
  <2>. HIDE DEF r
  <2>. QED
    BY <1>6, <1>7, <2>1
<1>8. ASSUME NEW c \in Consumers, GetDel(c) PROVE BoundInv'
  <2>1. CASE ConsGoto(c, "refused")
    BY <1>7, <2>1
  <2>2. CASE cons' = [cons EXCEPT ![c].pc = "srem", ![c].took = TRUE]
    <3>. DEFINE r == [cons[c] EXCEPT !.pc = "srem", !.took = TRUE]
    <3>1. /\ cons' = [cons EXCEPT ![c] = r] /\ r.pc = "srem" /\ r.tid = cons[c].tid
          /\ r.host = cons[c].host
      BY <1>0, <2>2 DEF ConsumeCalls
    <3>. HIDE DEF r
    <3>. QED
      BY <1>6, <3>1
  <2>. QED
    BY <1>8, <2>1, <2>2 DEF GetDel
<1>9. ASSUME NEW c \in Consumers, SRem(c) PROVE BoundInv'
  BY <1>7, <1>9 DEF SRem
<1>10. ASSUME NEW c \in Consumers, HostCheck(c) PROVE BoundInv'
  <2>1. CASE AtItsHost(c)
    BY <1>7, <1>10, <2>1 DEF HostCheck, AtItsHost
  <2>2. CASE ~AtItsHost(c)
    BY <1>7, <1>10, <2>2 DEF HostCheck
  <2>. QED
    BY <2>1, <2>2
<1>11. ASSUME NEW c \in Consumers, MemberCheck(c) PROVE BoundInv'
  <2>1. \A m \in Claim(c) : m.org = cons[c].host
    BY <1>11 DEF MemberCheck, BoundInv
  <2>. QED
    BY <1>7, <1>11, <2>1 DEF MemberCheck
<1>12. ASSUME NEW c \in Consumers, Login(c) PROVE BoundInv'
  <2>1. \A m \in Claim(c) : m.org = cons[c].host
    BY <1>12 DEF Login, BoundInv
  <2>. QED
    BY <1>7, <1>12, <2>1 DEF Login
<1>13. ASSUME NEW c \in Consumers, ConsumeFails(c) PROVE BoundInv'
  BY <1>7, <1>13 DEF ConsumeFails
<1>. QED
  BY <1>3, <1>5, <1>8, <1>9, <1>10, <1>11, <1>12, <1>13
     DEF Next, IssueStep, ConsumeStep, LogoutStep, Validate, Sign, SetEx, SAdd, Expire, HandOut,
         IssueFails, SMembers, DelNonces, DelIndex, LogoutFails, Tick, KeysChange,
         MembershipChange, OrgChange, hVars

(* A session is made only at the token's own host, by the request that     *)
(* burned the nonce, whatever staff changes meanwhile.                     *)
THEOREM SessionsAreBound == Spec => []SessionIsBound
<1>1. Init => BoundInv
  <2>. SUFFICES ASSUME Init, NEW c \in Consumers PROVE cons[c].tid = {} /\ cons[c].pc = "new"
    BY DEF BoundInv
  <2>. QED
    BY DEF Init
<1>2. TicketInv /\ BoundInv => SessionIsBound
  BY DEF TicketInv, BoundInv, BurnInv, Burned, SessionIsBound
<1>. QED
  BY <1>1, <1>2, BoundInvStep, TicketInvariant, PTL DEF Spec

(* Requests, Redis and the key ring stay well-formed.                      *)
THEOREM HandoffTyped == Spec => []HandoffTypeOK
<1>1. TicketInv => HandoffTypeOK
  BY DEF TicketInv
<1>. QED
  BY <1>1, TicketInvariant, PTL

-----------------------------------------------------------------------------
(* The one-shot ticket, on its own: what any implementation of it promises *)
(* to the guests.                                                          *)
TicketsInv ==
    /\ \A t \in Tids : Redeemers[t] \subseteq Consumers
    /\ Ticket!OneGuestEach

LEMMA TicketsStart == Ticket!TicketInit => TicketsInv
<1>. SUFFICES ASSUME Ticket!TicketInit PROVE TicketsInv
  OBVIOUS
<1>1. /\ \A t \in Tids : Redeemers[t] = {} /\ TicketState[t] = "unissued"
      /\ LetIn = {}
  BY DEF Ticket!TicketInit
<1>. QED
  BY <1>1 DEF TicketsInv, Ticket!OneGuestEach

LEMMA TicketsStay ==
    ASSUME TicketsInv, [Ticket!TicketNext]_(Ticket!ticketVars)
    PROVE  /\ TicketsInv'
           /\ \A t \in Tids : Redeemers[t] # {} => Redeemers'[t] = Redeemers[t]
           /\ LetIn \subseteq LetIn'
<1>. DEFINE S == TicketState
            R == Redeemers
            L == LetIn
            Whole(s, r, i) ==
              /\ \A t \in Tids : r[t] \subseteq Consumers
              /\ \A t \in Tids : r[t] # {} <=> s[t] = "redeemed"
              /\ \A t \in Tids : \A g \in r[t], h \in r[t] : g = h
              /\ \A t \in Tids, u \in Tids : r[t] \cap r[u] # {} => t = u
              /\ \A g \in i : \E t \in Tids : r[t] = {g}
            After ==
              /\ Whole(S', R', L')
              /\ \A t \in Tids : R[t] # {} => R'[t] = R[t]
              /\ L \subseteq L'
<1>1. Whole(S, R, L)
  BY DEF TicketsInv, Ticket!OneGuestEach
<1>2. SUFFICES After
  BY DEF TicketsInv, Ticket!OneGuestEach
<1>3. DOMAIN S = Tids /\ DOMAIN R = Tids
  BY DEF TicketState, Redeemers
<1>4. ASSUME NEW t \in Tids, Ticket!Issue(t) PROVE After
  <2>1. S[t] = "unissued" /\ S' = [S EXCEPT ![t] = "outstanding"] /\ R' = R /\ L' = L
    BY <1>4 DEF Ticket!Issue
  <2>. HIDE DEF S, R, L
  <2>. QED
    BY <1>1, <1>3, <2>1
<1>5. ASSUME NEW t \in Tids, NEW g \in Consumers, Ticket!Redeem(t, g) PROVE After
  <2>1. /\ S[t] = "outstanding" /\ \A u \in Tids : g \notin R[u]
        /\ S' = [S EXCEPT ![t] = "redeemed"] /\ R' = [R EXCEPT ![t] = {g}] /\ L' = L
    BY <1>5 DEF Ticket!Redeem
  <2>. HIDE DEF S, R, L
  <2>2. /\ \A u \in Tids : S'[u] = IF u = t THEN "redeemed" ELSE S[u]
        /\ \A u \in Tids : R'[u] = IF u = t THEN {g} ELSE R[u]
    BY <1>3, <2>1
  <2>3. R[t] = {}
    BY <1>1, <2>1
  <2>. QED
    BY <1>1, <2>1, <2>2, <2>3
<1>6. ASSUME NEW T \in SUBSET Tids, Ticket!Void(T) PROVE After
  <2>1. /\ \A t \in T : S[t] = "outstanding"
        /\ S' = [t \in Tids |-> IF t \in T THEN "void" ELSE S[t]] /\ R' = R /\ L' = L
    BY <1>6 DEF Ticket!Void
  <2>. HIDE DEF S, R, L
  <2>. QED
    BY <1>1, <2>1
<1>7. ASSUME NEW g \in Consumers, Ticket!Enter(g) PROVE After
  <2>1. (\E t \in Tids : R[t] = {g}) /\ S' = S /\ R' = R /\ L' = L \cup {g}
    BY <1>7 DEF Ticket!Enter
  <2>. HIDE DEF S, R, L
  <2>. QED
    BY <1>1, <2>1
<1>8. ASSUME UNCHANGED Ticket!ticketVars PROVE After
  <2>1. S' = S /\ R' = R /\ L' = L
    BY <1>8 DEF Ticket!ticketVars
  <2>. HIDE DEF S, R, L
  <2>. QED
    BY <1>1, <2>1
<1>. HIDE DEF After
<1>9. Ticket!TicketNext => After
  BY <1>4, <1>5, <1>6, <1>7 DEF Ticket!TicketNext
<1>. QED
  BY <1>8, <1>9

(* A ticket is redeemed by one guest, a guest redeems one, and only those  *)
(* who redeemed get in.                                                    *)
LEMMA TicketsAreOneShot == Ticket!TicketSpec => []Ticket!OneGuestEach
<1>1. TicketsInv => Ticket!OneGuestEach
  BY DEF TicketsInv
<1>2. TicketsInv /\ [Ticket!TicketNext]_(Ticket!ticketVars) => TicketsInv'
  BY TicketsStay
<1>. QED
  BY <1>1, <1>2, TicketsStart, PTL DEF Ticket!TicketSpec

(* Nobody takes over a ticket that was redeemed, or is put out again.      *)
LEMMA TicketsStayRedeemed == Ticket!TicketSpec => Ticket!RedeemedForGood
<1>1. TicketsInv /\ [Ticket!TicketNext]_(Ticket!ticketVars) =>
        [/\ \A t \in Tids : Redeemers[t] # {} => Redeemers'[t] = Redeemers[t]
         /\ LetIn \subseteq LetIn']_(Ticket!ticketVars)
  BY TicketsStay
<1>2. TicketsInv /\ [Ticket!TicketNext]_(Ticket!ticketVars) => TicketsInv'
  BY TicketsStay
<1>. QED
  BY <1>1, <1>2, TicketsStart, PTL DEF Ticket!TicketSpec, Ticket!RedeemedForGood

(* So it is with handoff tokens, whatever races, fails or runs out: one    *)
(* request has the token's nonce, that request had no other, and everybody *)
(* with a tenant session has one.                                          *)
THEOREM HandoffStaysOneShot == Spec => []Ticket!OneGuestEach /\ Ticket!RedeemedForGood
BY HandoffImplementsOneShot, TicketsAreOneShot, TicketsStayRedeemed, PTL DEF ImplementsOneShot

-----------------------------------------------------------------------------
(* When a logout finds every token.  A live nonce has time left; from its  *)
(* SADD on it is listed, from its EXPIRE on for as long as it lives; and   *)
(* what is listed while a logout deletes is what that logout has read.     *)
OnList(t) ==
    nonce[t] = "live" =>
        /\ ttl[t] > 0
        /\ \A u \in Owner(t) :
             /\ tok[t].pc \in {"expire", "audit", "out"} => t \in index[u]
             /\ tok[t].pc \in {"audit", "out"} => ittl[u] = 0 \/ ttl[t] <= ittl[u]

Read(l) == lo[l].pc \in LoggingOut => \A u \in lo[l].user : index[u] \subseteq lo[l].seen

OnListInv == (\A t \in Tids : OnList(t)) /\ (\A l \in Logouts : Read(l))

Numbers ==
    /\ TTL \in Nat \ {0}
    /\ ttl \in [Tids -> 0..TTL] /\ ittl \in [Users -> 0..TTL]
    /\ index \in [Users -> SUBSET Tids]
    /\ nonce \in [Tids -> {"none", "live", "taken", "revoked", "expired"}]
    /\ \A t \in Tids : Owner(t) \subseteq Users
    /\ \A l \in Logouts : lo[l].user \subseteq Users /\ lo[l].seen \subseteq Tids

LEMMA OnlyNumbers == TicketInv => Numbers
<1>. SUFFICES ASSUME TicketInv PROVE Numbers
  OBVIOUS
<1>1. ASSUME NEW t \in Tids PROVE Owner(t) \subseteq Users
  <2>1. tok[t].m \subseteq Members
    BY DEF TicketInv, HandoffTypeOK, TokenCalls
  <2>. QED
    BY <2>1 DEF Owner, Users
<1>2. ASSUME NEW l \in Logouts PROVE lo[l].user \subseteq Users /\ lo[l].seen \subseteq Tids
  BY DEF TicketInv, HandoffTypeOK, LogoutCalls
<1>. QED
  BY <1>1, <1>2, TTLAssumption DEF Numbers, TicketInv, HandoffTypeOK

\* A step of one issue call, on the call itself and on the others.
LEMMA CallMoves ==
    ASSUME TicketInv, NEW t \in Tids, NEW step, TokGoto(t, step)
    PROVE  /\ tok'[t].pc = step
           /\ \A s \in Tids : s # t => tok'[s] = tok[s]
           /\ \A s \in Tids : Owner(s)' = Owner(s)
<1>1. tok[t] \in TokenCalls /\ tok \in [Tids -> TokenCalls]
  BY DEF TicketInv, HandoffTypeOK
<1>2. tok'[t].pc = step /\ tok'[t].m = tok[t].m
  BY <1>1 DEF TokGoto, TokenCalls
<1>3. \A s \in Tids : s # t => tok'[s] = tok[s]
  BY <1>1 DEF TokGoto
<1>. QED
  BY <1>2, <1>3 DEF Owner

LEMMA IssueLists ==
    ASSUME TicketInv, OnListInv, ListedApart, NEW t \in Tids,
           \/ \E m \in Members : Validate(t, m)
           \/ IssueStep(t) \/ IssueFails(t)
    PROVE  OnListInv'
<1>0. Numbers /\ tok[t] \in TokenCalls /\ tok \in [Tids -> TokenCalls]
  BY OnlyNumbers DEF TicketInv, HandoffTypeOK
<1>1. ASSUME UNCHANGED redisVars, lo' = lo,
             \A s \in Tids : s # t => tok'[s] = tok[s],
             \/ nonce[t] = "none"
             \/ tok'[t].pc = "failed" /\ Owner(t)' = Owner(t)
             \/ tok[t].pc = "audit" /\ tok'[t].pc = "out" /\ Owner(t)' = Owner(t)
      PROVE  OnListInv'
  <2>1. ASSUME NEW s \in Tids PROVE OnList(s)'
    <3>0. OnList(s)
      BY DEF OnListInv
    <3>1. CASE s # t
      <4>1. tok'[s] = tok[s] /\ Owner(s)' = Owner(s)
        BY <1>1, <3>1 DEF Owner
      <4>. QED
        BY <1>1, <3>0, <4>1 DEF OnList, redisVars
    <3>2. CASE s = t
      BY <1>1, <3>0, <3>2 DEF OnList, redisVars
    <3>. QED
      BY <3>1, <3>2
  <2>2. \A l \in Logouts : Read(l)'
    BY <1>1 DEF OnListInv, Read, redisVars
  <2>. QED
    BY <2>1, <2>2 DEF OnListInv
<1>2. ASSUME NEW m \in Members, Validate(t, m) PROVE OnListInv'
  <2>1. nonce[t] = "none"
    BY <1>2 DEF Validate, TicketInv, BurnInv
  <2>. QED
    BY <1>0, <1>1, <1>2, <2>1 DEF Validate
<1>3. CASE Sign(t)
  <2>1. nonce[t] = "none"
    BY <1>3 DEF Sign, TicketInv, BurnInv
  <2>. QED
    BY <1>0, <1>1, <1>3, <2>1 DEF Sign, TokGoto
<1>4. CASE HandOut(t) \/ IssueFails(t)
  BY <1>1, <1>4, CallMoves DEF HandOut, IssueFails
<1>5. CASE SetEx(t)
  <2>1. /\ tok'[t].pc = "sadd"
        /\ \A s \in Tids : s # t => tok'[s] = tok[s]
        /\ \A s \in Tids : Owner(s)' = Owner(s)
    BY <1>5, CallMoves DEF SetEx
  <2>2. ttl'[t] > 0 /\ \A s \in Tids : s # t => nonce'[s] = nonce[s] /\ ttl'[s] = ttl[s]
    BY <1>0, <1>5 DEF SetEx, NonceTTL, Numbers
  <2>3. index' = index /\ ittl' = ittl /\ lo' = lo
    BY <1>5 DEF SetEx
  <2>. QED
    BY <2>1, <2>2, <2>3 DEF OnListInv, OnList, Read
<1>6. CASE SAdd(t)
  <2>1. /\ tok[t].pc = "sadd" /\ tok'[t].pc = "expire"
        /\ \A s \in Tids : s # t => tok'[s] = tok[s]
        /\ \A s \in Tids : Owner(s)' = Owner(s)
    BY <1>6, CallMoves DEF SAdd
  <2>2. /\ \A u \in Users : index'[u] = IF u \in Owner(t) THEN index[u] \cup {t} ELSE index[u]
        /\ UNCHANGED <<nonce, ttl, ittl, lo>>
    BY <1>6 DEF SAdd, IndexWith
  <2>3. ASSUME NEW s \in Tids PROVE OnList(s)'
    BY <1>0, <2>1, <2>2 DEF OnListInv, OnList, Numbers
  <2>4. ASSUME NEW l \in Logouts PROVE Read(l)'
    <3>1. lo[l].pc \in LoggingOut => \A u \in lo[l].user : u \notin Owner(t) /\ u \in Users
      BY <1>0, <2>1 DEF ListedApart, Numbers
    <3>. QED
      BY <2>2, <3>1 DEF OnListInv, Read
  <2>. QED
    BY <2>3, <2>4 DEF OnListInv
<1>7. CASE Expire(t)
  <2>1. /\ tok[t].pc = "expire" /\ tok'[t].pc = "audit"
        /\ \A s \in Tids : s # t => tok'[s] = tok[s]
        /\ \A s \in Tids : Owner(s)' = Owner(s)
    BY <1>7, CallMoves DEF Expire
  <2>2. /\ \A u \in Users : ittl'[u] = IF u \in Owner(t) /\ index[u] # {} THEN TTL ELSE ittl[u]
        /\ UNCHANGED <<nonce, ttl, index, lo>>
    BY <1>7 DEF Expire, IndexTTL
  <2>3. ASSUME NEW s \in Tids PROVE OnList(s)'
    <3>1. OnList(s) /\ ttl[s] <= TTL /\ Owner(s) \subseteq Users
      BY <1>0 DEF OnListInv, Numbers
    <3>. QED
      BY <2>1, <2>2, <3>1 DEF OnList
  <2>4. \A l \in Logouts : Read(l)'
    BY <2>2 DEF OnListInv, Read
  <2>. QED
    BY <2>3, <2>4 DEF OnListInv
<1>. QED
  BY <1>2, <1>3, <1>4, <1>5, <1>6, <1>7 DEF IssueStep

LEMMA ConsumeLists ==
    ASSUME TicketInv, OnListInv, NEW c \in Consumers,
           \/ \E t \in Tids : Verify(c, t)
           \/ ConsumeStep(c) \/ ConsumeFails(c)
    PROVE  OnListInv'
<1>0. Numbers /\ tok' = tok /\ lo' = lo /\ \A s \in Tids : Owner(s)' = Owner(s)
  <2>1. tok' = tok /\ lo' = lo
    BY DEF Verify, ConsumeStep, GetDel, SRem, HostCheck, MemberCheck, Login, ConsumeFails, issueVars
  <2>. QED
    BY <2>1, OnlyNumbers DEF Owner
<1>1. CASE UNCHANGED redisVars
  BY <1>0, <1>1 DEF OnListInv, OnList, Read, redisVars
<1>2. CASE GetDel(c)
  <2>1. /\ \A s \in Tids : nonce'[s] = "taken" \/ (nonce'[s] = nonce[s] /\ ttl'[s] = ttl[s])
        /\ UNCHANGED <<index, ittl>>
    BY <1>0, <1>2 DEF GetDel, BurnNonce, Numbers
  <2>. QED
    BY <1>0, <2>1 DEF OnListInv, OnList, Read
<1>3. CASE SRem(c)
  <2>. PICK t \in Tids : cons[c].tid = {t} /\ nonce[t] = "taken"
    BY <1>3 DEF SRem, TicketInv, BurnInv, Burned
  <2>1. /\ \A u \in Users : index'[u] \in {index[u], index[u] \ {t}}
        /\ \A u \in Users : ittl'[u] \in {0, ittl[u]}
        /\ UNCHANGED <<nonce, ttl>>
    BY <1>0, <1>3 DEF SRem, Numbers
  <2>2. ASSUME NEW s \in Tids PROVE OnList(s)'
    <3>1. OnList(s) /\ Owner(s) \subseteq Users /\ (nonce[s] = "live" => s # t)
      BY <1>0 DEF OnListInv, Numbers
    <3>. QED
      BY <1>0, <2>1, <3>1 DEF OnList
  <2>3. ASSUME NEW l \in Logouts PROVE Read(l)'
    <3>1. Read(l) /\ lo[l].user \subseteq Users
      BY <1>0 DEF OnListInv, Numbers
    <3>. QED
      BY <1>0, <2>1, <3>1 DEF Read
  <2>. QED
    BY <2>2, <2>3 DEF OnListInv
<1>. QED
  BY <1>1, <1>2, <1>3 DEF Verify, ConsumeStep, HostCheck, MemberCheck, Login, ConsumeFails

LEMMA LogoutLists ==
    ASSUME TicketInv, RevokeInv, OnListInv, NEW l \in Logouts,
           \/ \E u \in Users : SMembers(l, u)
           \/ LogoutStep(l) \/ LogoutFails(l)
    PROVE  OnListInv'
<1>0. Numbers /\ tok' = tok /\ \A s \in Tids : Owner(s)' = Owner(s)
  <2>1. tok' = tok
    BY DEF SMembers, LogoutStep, DelNonces, DelIndex, LogoutFails, issueVars
  <2>. QED
    BY <2>1, OnlyNumbers DEF Owner
<1>t. lo[l] \in LogoutCalls /\ lo \in [Logouts -> LogoutCalls]
  BY DEF TicketInv, HandoffTypeOK
\* A logout that has read goes on with what it has read.
<1>1. ASSUME NEW step, lo' = [lo EXCEPT ![l].pc = step], lo[l].pc \in LoggingOut,
             \A u \in Users : index'[u] \subseteq index[u]
      PROVE  \A k \in Logouts : Read(k)'
  <2>1. ASSUME NEW k \in Logouts
        PROVE  /\ lo'[k].user = lo[k].user /\ lo'[k].seen = lo[k].seen
               /\ lo'[k].pc \in LoggingOut => lo[k].pc \in LoggingOut
    BY <1>1, <1>t DEF LogoutCalls
  <2>. QED
    BY <1>0, <1>1, <2>1 DEF OnListInv, Read, Numbers
<1>2. ASSUME NEW u \in Users, SMembers(l, u) PROVE OnListInv'
  <2>. DEFINE r == [pc |-> IF index[u] = {} THEN "done" ELSE "del",
                    user |-> {u}, seen |-> index[u]]
  <2>1. lo' = [lo EXCEPT ![l] = r] /\ UNCHANGED redisVars
    BY <1>2 DEF SMembers
  <2>2. r.user = {u} /\ r.seen = index[u]
    OBVIOUS
  <2>. HIDE DEF r
  <2>3. \A k \in Logouts : Read(k)'
    BY <1>t, <2>1, <2>2 DEF OnListInv, Read, redisVars
  <2>. QED
    BY <1>0, <2>1, <2>3 DEF OnListInv, OnList, redisVars
<1>3. CASE DelNonces(l)
  <2>1. /\ lo[l].pc = "del" /\ lo' = [lo EXCEPT ![l].pc = "delindex"]
        /\ \A s \in Tids : nonce'[s] = "revoked" \/ (nonce'[s] = nonce[s] /\ ttl'[s] = ttl[s])
        /\ UNCHANGED <<index, ittl>>
    BY <1>3 DEF DelNonces
  <2>2. \A k \in Logouts : Read(k)'
    BY <1>1, <2>1 DEF LoggingOut
  <2>. QED
    BY <1>0, <2>1, <2>2 DEF OnListInv, OnList
<1>4. CASE DelIndex(l)
  <2>1. /\ lo[l].pc = "delindex" /\ lo' = [lo EXCEPT ![l].pc = "done"]
        /\ \A u \in Users : index'[u] = IF u \in lo[l].user THEN {} ELSE index[u]
        /\ \A u \in Users : ittl'[u] = IF u \in lo[l].user THEN 0 ELSE ittl[u]
        /\ UNCHANGED <<nonce, ttl>>
    BY <1>4 DEF DelIndex
  <2>2. \A k \in Logouts : Read(k)'
    BY <1>1, <2>1 DEF LoggingOut
  <2>3. \A u \in lo[l].user : \A s \in index[u] : nonce[s] # "live"
    BY <2>1 DEF OnListInv, Read, LoggingOut, RevokeInv, RevokedStaysDead
  <2>4. ASSUME NEW s \in Tids PROVE OnList(s)'
    <3>1. OnList(s) /\ Owner(s) \subseteq Users
      BY <1>0 DEF OnListInv, Numbers
    <3>. QED
      BY <1>0, <2>1, <2>3, <3>1 DEF OnList
  <2>. QED
    BY <2>2, <2>4 DEF OnListInv
<1>5. CASE LogoutFails(l)
  <2>1. UNCHANGED redisVars /\ lo[l].pc \in LoggingOut /\ lo' = [lo EXCEPT ![l].pc = "failed"]
    BY <1>5 DEF LogoutFails
  <2>2. \A k \in Logouts : Read(k)'
    BY <1>1, <2>1 DEF redisVars
  <2>. QED
    BY <1>0, <2>1, <2>2 DEF OnListInv, OnList, redisVars
<1>. QED
  BY <1>2, <1>3, <1>4, <1>5 DEF LogoutStep

LEMMA TickLists ==
    ASSUME TicketInv, OnListInv, Tick, \A t \in Tids : tok[t].pc # "expire"
    PROVE  OnListInv'
<1>. DEFINE less(n) == IF n = 0 THEN 0 ELSE n - 1
<1>0. Numbers /\ tok' = tok /\ lo' = lo /\ \A s \in Tids : Owner(s)' = Owner(s)
  BY OnlyNumbers DEF Tick, Owner
<1>1. /\ \A s \in Tids : ttl'[s] = less(ttl[s])
      /\ \A s \in Tids : nonce'[s] = IF nonce[s] = "live" /\ ttl[s] = 1 THEN "expired" ELSE nonce[s]
      /\ \A u \in Users : index'[u] = IF ittl[u] = 1 THEN {} ELSE index[u]
      /\ \A u \in Users : ittl'[u] = less(ittl[u])
  BY DEF Tick
<1>2. ASSUME NEW s \in Tids PROVE OnList(s)'
  <2>1. OnList(s) /\ ttl[s] \in Nat /\ tok[s].pc # "expire"
    BY <1>0 DEF OnListInv, Numbers
  <2>2. ASSUME nonce'[s] = "live" PROVE nonce[s] = "live" /\ ttl[s] > 1 /\ ttl'[s] = ttl[s] - 1
    BY <1>1, <2>1, <2>2 DEF OnList
  <2>3. ASSUME nonce'[s] = "live", tok[s].pc \in {"audit", "out"}, NEW u \in Owner(s)
        PROVE  s \in index'[u] /\ (ittl'[u] = 0 \/ ttl'[s] <= ittl'[u])
    <3>1. ittl[u] \in Nat /\ u \in Users
      BY <1>0 DEF Numbers
    <3>2. s \in index[u] /\ (ittl[u] = 0 \/ ttl[s] <= ittl[u])
      BY <2>1, <2>2, <2>3 DEF OnList
    <3>. QED
      BY <1>1, <2>1, <2>2, <2>3, <3>1, <3>2
  <2>. QED
    BY <1>0, <2>1, <2>2, <2>3 DEF OnList
<1>3. ASSUME NEW l \in Logouts PROVE Read(l)'
  <2>1. Read(l) /\ lo[l].user \subseteq Users
    BY <1>0 DEF OnListInv, Numbers
  <2>. QED
    BY <1>0, <1>1, <2>1 DEF Read
<1>. QED
  BY <1>2, <1>3 DEF OnListInv

LEMMA OnListStep ==
    /\ TicketInv /\ RevokeInv /\ OnListInv /\ ListedApart
    /\ [Next]_hVars
    /\ [Tick => \A t \in Tids : tok[t].pc # "expire"]_hVars
    => OnListInv'
<1>. SUFFICES ASSUME TicketInv, RevokeInv, OnListInv, ListedApart, [Next]_hVars,
                     [Tick => \A t \in Tids : tok[t].pc # "expire"]_hVars
              PROVE  OnListInv'
  OBVIOUS
<1>1. CASE UNCHANGED <<redisVars, tok, lo>>
  BY <1>1 DEF OnListInv, OnList, Read, Owner, redisVars
<1>2. CASE Tick
  BY <1>1, <1>2, TickLists DEF hVars, issueVars
<1>3. ASSUME KeysChange \/ (\E m \in Members : MembershipChange(m))
               \/ (\E h \in Hosts, s \in {"ACTIVE", "SUSPENDED", "missing"} : OrgChange(h, s))
               \/ UNCHANGED hVars
      PROVE  UNCHANGED <<redisVars, tok, lo>>
  BY <1>3 DEF KeysChange, MembershipChange, OrgChange, issueVars, hVars
<1>. QED
  BY <1>1, <1>2, <1>3, IssueLists, ConsumeLists, LogoutLists DEF Next

LEMMA OnListAlways ==
    Spec /\ []ListedApart /\ ListedSwiftly => [](TicketInv /\ OnListInv)
<1>1. Init => RevokeInv /\ OnListInv
  BY DEF Init, RevokeInv, ListInv, RevokedStaysDead, OnListInv, OnList, Read, LoggingOut
<1>. QED
  BY <1>1, OnListStep, RevokeInvStep, TicketInvariant, PTL DEF Spec, ListedSwiftly

(* _revoke.py and the index of _issue.py: every token a browser can still  *)
(* use is listed for its owner, if no logout of that person is deleting    *)
(* the index while a token is listed, and SADD and EXPIRE are close.       *)
THEOREM TokensAreListed == Spec /\ []ListedApart /\ ListedSwiftly => []EveryTokenListed
<1>1. TicketInv /\ OnListInv => EveryTokenListed
  BY DEF OnListInv, OnList, EveryTokenListed
<1>. QED
  BY <1>1, OnListAlways, PTL

(* Then a logout reads every token of its person that is outstanding, and  *)
(* with RevocationIsFinal none of them is usable once it has deleted them. *)
THEOREM LogoutsSeeAll == Spec /\ []ListedApart /\ ListedSwiftly => LogoutSeesAll
<1>1. ASSUME TicketInv, OnListInv, [Next]_hVars, NEW l \in Logouts,
             lo[l].pc = "new", lo'[l].pc # "new", NEW t \in Tids, tok[t].pc = "out",
             nonce[t] = "live", Owner(t) \cap lo'[l].user # {}
      PROVE  t \in lo'[l].seen
  <2>t. lo \in [Logouts -> LogoutCalls]
    BY <1>1 DEF TicketInv, HandoffTypeOK
  <2>1. ASSUME NEW k \in Logouts, LogoutStep(k) \/ LogoutFails(k) PROVE FALSE
    BY <1>1, <2>t, <2>1 DEF LogoutStep, DelNonces, DelIndex, LogoutFails, LoggingOut, LogoutCalls
  <2>2. lo' # lo
    BY <1>1
  <2>. PICK k \in Logouts, u \in Users : SMembers(k, u)
    BY <1>1, <2>1, <2>2
       DEF Next, IssueStep, ConsumeStep, Validate, Sign, SetEx, SAdd, Expire, HandOut, IssueFails,
           Verify, GetDel, SRem, HostCheck, MemberCheck, Login, ConsumeFails, Tick, KeysChange,
           MembershipChange, OrgChange, hVars
  <2>3. k = l
    BY <1>1, <2>t DEF SMembers
  <2>4. lo'[l].user = {u} /\ lo'[l].seen = index[u]
    BY <2>3, <2>t DEF SMembers
  <2>. QED
    BY <1>1, <2>4 DEF OnListInv, OnList
<1>2. TicketInv /\ OnListInv /\ [Next]_hVars =>
        [\A l \in Logouts : lo[l].pc = "new" /\ lo'[l].pc # "new" =>
           \A t \in Tids :
             tok[t].pc = "out" /\ nonce[t] = "live" /\ Owner(t) \cap lo'[l].user # {} =>
               t \in lo'[l].seen]_hVars
  BY <1>1
<1>. QED
  BY <1>2, OnListAlways, PTL DEF Spec, LogoutSeesAll

-----------------------------------------------------------------------------
(* An index without a lifetime stays in Redis for ever.  It is one whose   *)
(* EXPIRE is still to come, or was never sent because its call failed.     *)
Late(t, u) ==
    u \in Owner(t) /\ (tok[t].pc = "expire" \/ (Faults /\ tok[t].pc = "failed"))

Timed(u) == index[u] # {} => ittl[u] > 0 \/ \E t \in Tids : Late(t, u)

IndexesAreTimed == \A u \in Users : Timed(u)

LEMMA LateStays ==
    ASSUME NEW u, \E t \in Tids : Late(t, u),
           \A t \in Tids : Late(t, u) => (tok'[t] = tok[t] \/ Late(t, u)')
    PROVE  \E t \in Tids : Late(t, u)'
BY DEF Late, Owner

LEMMA IssueTimed ==
    ASSUME TicketInv, NEW u \in Users, Timed(u), NEW t \in Tids,
           \/ \E m \in Members : Validate(t, m)
           \/ IssueStep(t) \/ IssueFails(t)
    PROVE  Timed(u)'
<1>t. /\ tok \in [Tids -> TokenCalls]
      /\ index \in [Users -> SUBSET Tids]
      /\ ittl \in [Users -> 0..TTL]
  BY DEF TicketInv, HandoffTypeOK
<1>o. ASSUME \A x \in Tids : x # t => tok'[x] = tok[x], UNCHANGED <<index, ittl>>,
             ~Late(t, u) \/ Late(t, u)'
      PROVE  Timed(u)'
  BY <1>o, LateStays DEF Timed
<1>1. CASE \E m \in Members : Validate(t, m)
  <2>. PICK m \in Members : Validate(t, m)
    BY <1>1
  <2>1. ~Late(t, u) /\ \A x \in Tids : x # t => tok'[x] = tok[x]
    BY <1>t DEF Validate, Late
  <2>. QED
    BY <2>1, <1>o DEF Validate, redisVars
<1>2. CASE Sign(t) \/ SetEx(t) \/ HandOut(t)
  <2>1. ~Late(t, u)
    BY <1>2 DEF Sign, SetEx, HandOut, Late
  <2>2. \A x \in Tids : x # t => tok'[x] = tok[x]
    BY <1>2, <1>t DEF Sign, SetEx, HandOut, TokGoto
  <2>3. UNCHANGED <<index, ittl>>
    BY <1>2 DEF Sign, SetEx, HandOut, redisVars
  <2>. QED
    BY <2>1, <2>2, <2>3, <1>o
<1>3. CASE SAdd(t)
  <2>1. /\ \A x \in Tids : x # t => tok'[x] = tok[x]
        /\ tok'[t].pc = "expire" /\ tok'[t].m = tok[t].m
    BY <1>3, <1>t DEF SAdd, TokGoto, TokenCalls
  <2>2. tok[t].pc = "sadd" /\ ittl' = ittl /\ index' = IndexWith(t)
    BY <1>3 DEF SAdd
  <2>3. CASE u \in Owner(t)
    <3>1. Late(t, u)'
      BY <2>1, <2>3 DEF Late, Owner
    <3>. QED
      BY <3>1 DEF Timed
  <2>4. CASE u \notin Owner(t)
    <3>1. ~Late(t, u) /\ index'[u] = index[u]
      BY <2>2, <2>4 DEF Late, IndexWith
    <3>. QED
      BY <3>1, <2>1, <2>2, LateStays DEF Timed
  <2>. QED
    BY <2>3, <2>4
<1>4. CASE Expire(t)
  <2>1. /\ \A x \in Tids : x # t => tok'[x] = tok[x]
        /\ index' = index
    BY <1>4, <1>t DEF Expire, TokGoto
  <2>2. ittl'[u] = IF u \in Owner(t) /\ index[u] # {} THEN TTL ELSE ittl[u]
    BY <1>4 DEF Expire, IndexTTL
  <2>3. CASE u \in Owner(t)
    BY <2>1, <2>2, <2>3, TTLAssumption DEF Timed
  <2>4. CASE u \notin Owner(t)
    <3>1. ~Late(t, u)
      BY <2>4 DEF Late
    <3>. QED
      BY <3>1, <2>1, <2>2, <2>4, LateStays DEF Timed
  <2>. QED
    BY <2>3, <2>4
<1>5. CASE IssueFails(t)
  <2>1. /\ \A x \in Tids : x # t => tok'[x] = tok[x]
        /\ tok'[t].pc = "failed" /\ tok'[t].m = tok[t].m
    BY <1>5, <1>t DEF IssueFails, TokGoto, TokenCalls
  <2>2. Faults /\ UNCHANGED <<index, ittl>>
    BY <1>5 DEF IssueFails, redisVars
  <2>3. Late(t, u) => Late(t, u)'
    BY <2>1, <2>2 DEF Late, Owner
  <2>. QED
    BY <2>1, <2>2, <2>3, <1>o
<1>. QED
  BY <1>1, <1>2, <1>3, <1>4, <1>5 DEF IssueStep

LEMMA OthersTimed ==
    ASSUME TicketInv, NEW u \in Users, Timed(u), tok' = tok,
           index'[u] = {} \/ (index'[u] \subseteq index[u] /\ ittl'[u] = ittl[u])
             \/ (index'[u] \subseteq index[u] /\ (ittl'[u] > 0 \/ ittl[u] = 0))
    PROVE  Timed(u)'
<1>1. (\E t \in Tids : Late(t, u)) => \E t \in Tids : Late(t, u)'
  BY LateStays
<1>2. ittl[u] \in Nat
  BY TTLAssumption DEF TicketInv, HandoffTypeOK
<1>. QED
  BY <1>1, <1>2 DEF Timed

LEMMA TimedStep == TicketInv /\ IndexesAreTimed /\ [Next]_hVars => IndexesAreTimed'
<1>. SUFFICES ASSUME TicketInv, IndexesAreTimed, [Next]_hVars, NEW u \in Users
              PROVE  Timed(u)'
  BY DEF IndexesAreTimed, Users
<1>t. /\ index \in [Users -> SUBSET Tids]
      /\ ittl \in [Users -> 0..TTL]
  BY DEF TicketInv, HandoffTypeOK
<1>u. Timed(u)
  BY DEF IndexesAreTimed
<1>1. ASSUME NEW t \in Tids,
             \/ \E m \in Members : Validate(t, m)
             \/ IssueStep(t) \/ IssueFails(t)
      PROVE  Timed(u)'
  BY <1>1, <1>u, IssueTimed
<1>2. ASSUME NEW c \in Consumers, SRem(c) PROVE Timed(u)'
  <2>1. tok' = tok
    BY <1>2 DEF SRem, issueVars
  <2>2. index'[u] = {} \/ (index'[u] \subseteq index[u] /\ ittl'[u] = ittl[u])
    <3>1. CASE UNCHANGED <<index, ittl>>
      BY <3>1
    <3>. DEFINE left(v) == index[v] \ cons[c].tid
                mine(v) == \E m \in Claim(c) : m.user = v
    <3>2. CASE /\ index' = [v \in Users |-> IF mine(v) THEN left(v) ELSE index[v]]
               /\ ittl' = [v \in Users |-> IF mine(v) /\ left(v) = {} THEN 0 ELSE ittl[v]]
      <4>1. left(u) \subseteq index[u]
        OBVIOUS
      <4>. HIDE DEF left, mine
      <4>. QED
        BY <3>2, <4>1
    <3>. QED
      BY <1>2, <3>1, <3>2 DEF SRem
  <2>. QED
    BY <2>1, <2>2, <1>u, OthersTimed
<1>3. ASSUME NEW l \in Logouts, DelIndex(l) PROVE Timed(u)'
  <2>1. tok' = tok
    BY <1>3 DEF DelIndex, issueVars
  <2>2. index'[u] = {} \/ (index'[u] = index[u] /\ ittl'[u] = ittl[u])
    BY <1>3 DEF DelIndex
  <2>. QED
    BY <2>1, <2>2, <1>u, OthersTimed
<1>4. CASE Tick
  <2>1. tok' = tok
    BY <1>4 DEF Tick
  <2>2. /\ index'[u] = IF ittl[u] = 1 THEN {} ELSE index[u]
        /\ ittl'[u] = IF ittl[u] = 0 THEN 0 ELSE ittl[u] - 1
    BY <1>4 DEF Tick
  <2>3. ittl[u] \in Nat
    BY <1>t, TTLAssumption
  <2>4. index'[u] = {} \/ (index'[u] \subseteq index[u] /\ (ittl'[u] > 0 \/ ittl[u] = 0))
    BY <2>2, <2>3
  <2>. QED
    BY <2>1, <2>4, <1>u, OthersTimed
<1>5. ASSUME UNCHANGED <<tok, index, ittl>> PROVE Timed(u)'
  BY <1>5, <1>u, OthersTimed
<1>6. ASSUME NEW c \in Consumers,
             \/ \E t \in Tids : Verify(c, t)
             \/ GetDel(c) \/ HostCheck(c) \/ MemberCheck(c) \/ Login(c) \/ ConsumeFails(c)
      PROVE  UNCHANGED <<tok, index, ittl>>
  BY <1>6 DEF Verify, GetDel, HostCheck, MemberCheck, Login, ConsumeFails, issueVars, redisVars
<1>7. ASSUME NEW l \in Logouts,
             \/ \E v \in Users : SMembers(l, v)
             \/ DelNonces(l) \/ LogoutFails(l)
      PROVE  UNCHANGED <<tok, index, ittl>>
  BY <1>7 DEF SMembers, DelNonces, LogoutFails, issueVars, redisVars
<1>8. ASSUME KeysChange \/ (\E m \in Members : MembershipChange(m))
               \/ (\E h \in Hosts, s \in {"ACTIVE", "SUSPENDED", "missing"} : OrgChange(h, s))
               \/ UNCHANGED hVars
      PROVE  UNCHANGED <<tok, index, ittl>>
  BY <1>8 DEF KeysChange, MembershipChange, OrgChange, issueVars, redisVars, hVars
<1>. QED
  BY <1>1, <1>2, <1>3, <1>4, <1>5, <1>6, <1>7, <1>8 DEF Next, ConsumeStep, LogoutStep

(* user_handoffs:{u} has no lifetime only between the SADD of an issue     *)
(* call and its EXPIRE, or where a call failed in between: apart from such *)
(* failures, no index outlives its last token for good.                    *)
THEOREM IndexesRunOut == Spec => []IndexesAreTimed
<1>1. Init => IndexesAreTimed
  BY DEF Init, IndexesAreTimed, Timed
<1>. QED
  BY <1>1, TimedStep, TicketInvariant, PTL DEF Spec

-----------------------------------------------------------------------------
(* Retiring a key, or rotating it away in an emergency, shuts out every    *)
(* token it signed: after that no request gets past the JWT check with one *)
(* of them, though a request already past it may still be let in.          *)
SpentKeysAdmitNobody ==
    [][\A t \in Tids, c \in Consumers :
         tok[t].key \cap spent # {} /\ cons[c].tid # {t} => cons'[c].tid # {t}]_hVars

LEMMA OnlyVerifyTakesUp ==
    ASSUME TicketInv, [Next]_hVars, NEW c \in Consumers, cons'[c].tid # cons[c].tid
    PROVE  \E t \in Tids : Verify(c, t) /\ cons'[c].tid = {t}
<1>t. cons \in [Consumers -> ConsumeCalls]
  BY DEF TicketInv, HandoffTypeOK
<1>1. ASSUME NEW d \in Consumers, ConsumeStep(d) \/ ConsumeFails(d) PROVE FALSE
  <2>1. \E s : cons' = [cons EXCEPT ![d].pc = s]
            \/ cons' = [cons EXCEPT ![d].pc = s, ![d].took = TRUE]
    BY <1>1 DEF ConsumeStep, GetDel, SRem, HostCheck, MemberCheck, Login, ConsumeFails, ConsGoto
  <2>. QED
    BY <2>1, <1>t DEF ConsumeCalls
<1>2. cons' # cons
  OBVIOUS
<1>3. PICK d \in Consumers, t \in Tids : Verify(d, t)
  BY <1>1, <1>2
     DEF Next, IssueStep, LogoutStep, Validate, Sign, SetEx, SAdd, Expire, HandOut, IssueFails,
         SMembers, DelNonces, DelIndex, LogoutFails, Tick, KeysChange, MembershipChange, OrgChange,
         hVars
<1>4. d = c /\ cons'[c].tid = {t}
  BY <1>3, <1>t DEF Verify, ConsumeCalls
<1>. QED
  BY <1>3, <1>4

(* _keys.py and _verify_jwt: a token that a spent key signed is not taken  *)
(* up any more, whichever keys, requests and failures there are.           *)
THEOREM SpentKeysShutOut == Spec => SpentKeysAdmitNobody
<1>. DEFINE A == \A t \in Tids, c \in Consumers :
                   tok[t].key \cap spent # {} /\ cons[c].tid # {t} => cons'[c].tid # {t}
<1>1. ASSUME TicketInv, [Next]_hVars, NEW t \in Tids, NEW c \in Consumers,
             tok[t].key \cap spent # {}, cons[c].tid # {t}, cons'[c].tid = {t}
      PROVE  FALSE
  <2>1. PICK x \in Tids : Verify(c, x) /\ cons'[c].tid = {x}
    BY <1>1, OnlyVerifyTakesUp
  <2>2. tok[t].key \subseteq trusted
    BY <1>1, <2>1 DEF Verify
  <2>3. trusted \cap spent = {}
    BY <1>1 DEF TicketInv, HandoffTypeOK, Ring!RingOK
  <2>. QED
    BY <1>1, <2>2, <2>3
<1>2. TicketInv /\ [Next]_hVars => A
  BY <1>1
<1>. HIDE DEF A
<1>3. Spec => [][A]_hVars
  BY <1>2, TicketInvariant, PTL DEF Spec
<1>. QED
  BY <1>3 DEF A, SpentKeysAdmitNobody

===============================================================================
