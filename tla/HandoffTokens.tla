--------------------------- MODULE HandoffTokens ---------------------------
(***************************************************************************)
(* Cross-subdomain handoff tokens: accounts/handoff/services/_issue.py,    *)
(* _consume.py, _revoke.py and _tenant_session.py, at the granularity of   *)
(* their Redis commands and database reads.  Any number of issue, consume  *)
(* and logout requests interleave; Redis commands are atomic one by one,   *)
(* and nothing spans two of them.                                          *)
(*                                                                         *)
(* Time is kept as what is left: Tick takes one unit from every running    *)
(* lifetime (JWT exp, nonce TTL, index TTL), so no clock is bounded.       *)
(***************************************************************************)
EXTENDS Naturals

CONSTANTS
    KeyIds,      \* signing keys
    Members,     \* membership rows, records [user, org]
    Hosts,       \* tenant hosts; an organization is identified with its host
    Tids,        \* token ids: each issue call draws a fresh one
    Consumers,   \* POSTs to the tenant host's consume endpoint
    Logouts,     \* root-domain logouts
    TTL,         \* MPH_HANDOFF_TOKEN_TTL_SECONDS, in units of Tick
    Faults,      \* whether Redis, the database or a worker may fail
    Moving       \* what changes around the requests: "keys", "members", "orgs"

ASSUME TTLAssumption == TTL \in Nat \ {0}
ASSUME FaultsAssumption == Faults \in BOOLEAN

Users == {m.user : m \in Members}

VARIABLES
    trusted, spent, signer,   \* the key ring, see KeyRing
    active,    \* memberships whose status is ACTIVE
    orgs,      \* orgs[h]: the status of the organization behind host h
    tok,       \* tok[t]: the issue call that draws t, and the JWT's claims
    jwt,       \* jwt[t]: time left until the JWT's exp
    nonce,     \* nonce[t]: the Redis key handoff:{t}; once gone, why
    ttl,       \* ttl[t]: the time left to that key
    index,     \* index[u]: the Redis set user_handoffs:{u}
    ittl,      \* ittl[u]: the time left to that set, 0: it has no TTL
    cons,      \* cons[c]: a consume request
    lo         \* lo[l]: a logout request

Ring == INSTANCE KeyRing

ringVars == <<trusted, spent, signer>>

issueVars == <<tok, jwt>>
redisVars == <<nonce, ttl, index, ittl>>
dbVars == <<active, orgs>>
hVars == <<ringVars, dbVars, issueVars, redisVars, cons, lo>>

Issuing == {"keys", "setex", "sadd", "expire", "audit"}
Consuming == {"getdel", "srem", "host", "member", "login"}
LoggingOut == {"del", "delindex"}

\* m and tid are {} until the request has one; key is {the signing key}.
TokenCalls == [pc : {"new", "out", "failed"} \cup Issuing,
               m : SUBSET Members, key : SUBSET KeyIds]
ConsumeCalls == [pc : {"new", "done", "refused"} \cup Consuming,
                 tid : SUBSET Tids, host : Hosts, took : BOOLEAN]
LogoutCalls == [pc : {"new", "done", "failed"} \cup LoggingOut,
                user : SUBSET Users, seen : SUBSET Tids]

Owner(t) == {m.user : m \in tok[t].m}

HandoffTypeOK ==
    /\ Ring!RingOK
    /\ active \subseteq Members
    /\ orgs \in [Hosts -> {"ACTIVE", "SUSPENDED", "missing"}]
    /\ tok \in [Tids -> TokenCalls]
    /\ jwt \in [Tids -> 0..TTL]
    /\ nonce \in [Tids -> {"none", "live", "taken", "revoked", "expired"}]
    /\ ttl \in [Tids -> 0..TTL]
    /\ index \in [Users -> SUBSET Tids]
    /\ ittl \in [Users -> 0..TTL]
    /\ cons \in [Consumers -> ConsumeCalls]
    /\ lo \in [Logouts -> LogoutCalls]

Init ==
    /\ trusted \in SUBSET KeyIds
    /\ spent = {}
    /\ signer \in {{}} \cup {{k} : k \in KeyIds}
    /\ Ring!RingOK
    /\ active = Members
    /\ orgs = [h \in Hosts |-> "ACTIVE"]
    /\ tok = [t \in Tids |-> [pc |-> "new", m |-> {}, key |-> {}]]
    /\ jwt = [t \in Tids |-> 0]
    /\ nonce = [t \in Tids |-> "none"]
    /\ ttl = [t \in Tids |-> 0]
    /\ index = [u \in Users |-> {}]
    /\ ittl = [u \in Users |-> 0]
    /\ cons \in [Consumers -> [pc : {"new"}, tid : {{}}, host : Hosts, took : {FALSE}]]
    /\ lo = [l \in Logouts |-> [pc |-> "new", user |-> {}, seen |-> {}]]

-----------------------------------------------------------------------------
(* issue_handoff_token, one call for each token id.  The parameter checks  *)
(* other than the membership's read nothing that changes; a call they      *)
(* refuse has no effect.                                                   *)
TokGoto(t, step) == tok' = [tok EXCEPT ![t].pc = step]

Validate(t, m) ==
    /\ tok[t].pc = "new"
    /\ m \in active
    /\ tok' = [tok EXCEPT ![t].pc = "keys", ![t].m = {m}]
    /\ UNCHANGED <<ringVars, dbVars, jwt, redisVars, cons, lo>>

(* Read the keys, draw the token id, sign with the newest.                 *)
Sign(t) ==
    /\ tok[t].pc = "keys"
    /\ \/ /\ trusted = {}
          /\ TokGoto(t, "failed")
          /\ UNCHANGED jwt
       \/ /\ trusted # {}
          /\ tok' = [tok EXCEPT ![t].pc = "setex", ![t].key = signer]
          /\ jwt' = [jwt EXCEPT ![t] = TTL]
    /\ UNCHANGED <<ringVars, dbVars, redisVars, cons, lo>>

\* Both keys are given the lifetime of the JWT.
NonceTTLShort == TTL - 1
NonceTTL == TTL

IndexTTLDoubled == 2 * TTL
IndexTTLForgotten == 0
IndexTTL == TTL

SetEx(t) ==
    /\ tok[t].pc = "setex"
    /\ nonce' = [nonce EXCEPT ![t] = "live"]
    /\ ttl' = [ttl EXCEPT ![t] = NonceTTL]
    /\ TokGoto(t, "sadd")
    /\ UNCHANGED <<ringVars, dbVars, jwt, index, ittl, cons, lo>>

IndexWith(t) == [u \in Users |-> IF u \in Owner(t) THEN index[u] \cup {t} ELSE index[u]]

\* A mutant: the token is listed before its nonce is written.
SAddBeforeSetEx(t) ==
    /\ tok[t].pc = "setex"
    /\ index' = IndexWith(t)
    /\ UNCHANGED <<ringVars, dbVars, issueVars, nonce, ttl, ittl, cons, lo>>

SAdd(t) ==
    /\ tok[t].pc = "sadd"
    /\ index' = IndexWith(t)
    /\ TokGoto(t, "expire")
    /\ UNCHANGED <<ringVars, dbVars, jwt, nonce, ttl, ittl, cons, lo>>

\* EXPIRE does nothing to a key that is not there.
Expire(t) ==
    /\ tok[t].pc = "expire"
    /\ ittl' = [u \in Users |->
                   IF u \in Owner(t) /\ index[u] # {} THEN IndexTTL ELSE ittl[u]]
    /\ TokGoto(t, "audit")
    /\ UNCHANGED <<ringVars, dbVars, jwt, nonce, ttl, index, cons, lo>>

\* audit_emit, commit, and the JWT goes to the browser.
HandOut(t) ==
    /\ tok[t].pc = "audit"
    /\ TokGoto(t, "out")
    /\ UNCHANGED <<ringVars, dbVars, jwt, redisVars, cons, lo>>

\* An exception leaves what Redis already did; the JWT is never returned.
IssueFails(t) ==
    /\ Faults
    /\ tok[t].pc \in Issuing
    /\ TokGoto(t, "failed")
    /\ UNCHANGED <<ringVars, dbVars, jwt, redisVars, cons, lo>>

IssueStep(t) == Sign(t) \/ SetEx(t) \/ SAdd(t) \/ Expire(t) \/ HandOut(t)

-----------------------------------------------------------------------------
(* consume_handoff_token and establish_tenant_session.                     *)
ConsGoto(c, step) == cons' = [cons EXCEPT ![c].pc = step]

Claim(c) == UNION {tok[t].m : t \in cons[c].tid}

(* _verify_jwt: some non-retired key verifies the signature and exp is     *)
(* ahead.  A token refused here leaves everything as it was.               *)
Verify(c, t) ==
    /\ cons[c].pc = "new"
    /\ tok[t].pc = "out"
    /\ tok[t].key \subseteq trusted
    /\ jwt[t] > 0
    /\ cons' = [cons EXCEPT ![c].pc = "getdel", ![c].tid = {t}]
    /\ UNCHANGED <<ringVars, dbVars, issueVars, redisVars, lo>>

\* A mutant: GET where the code has GETDEL.
ReadNonce(t) == UNCHANGED <<nonce, ttl>>

BurnNonce(t) ==
    /\ nonce' = [nonce EXCEPT ![t] = "taken"]
    /\ ttl' = [ttl EXCEPT ![t] = 0]

GetDel(c) ==
    /\ cons[c].pc = "getdel"
    /\ \E t \in cons[c].tid :
         \/ /\ nonce[t] = "live"
            /\ BurnNonce(t)
            /\ cons' = [cons EXCEPT ![c].pc = "srem", ![c].took = TRUE]
         \/ /\ nonce[t] # "live"
            /\ ConsGoto(c, "refused")
            /\ UNCHANGED <<nonce, ttl>>
    /\ UNCHANGED <<ringVars, dbVars, issueVars, index, ittl, lo>>

\* Best effort.  Redis drops a set, and its TTL, with its last member.
SRem(c) ==
    /\ cons[c].pc = "srem"
    /\ \/ LET left(u) == index[u] \ cons[c].tid
              mine(u) == \E m \in Claim(c) : m.user = u
          IN  /\ index' = [u \in Users |-> IF mine(u) THEN left(u) ELSE index[u]]
              /\ ittl' = [u \in Users |-> IF mine(u) /\ left(u) = {} THEN 0 ELSE ittl[u]]
       \/ Faults /\ UNCHANGED <<index, ittl>>
    /\ ConsGoto(c, "host")
    /\ UNCHANGED <<ringVars, dbVars, issueVars, nonce, ttl, lo>>

\* A mutant: any host of an existing organization will do.
AtAnyHost(c) == \A m \in Claim(c) : orgs[m.org] # "missing"

\* The organization is read for its slug; its status is not looked at.
AtItsHost(c) == \A m \in Claim(c) : orgs[m.org] # "missing" /\ m.org = cons[c].host

HostCheck(c) ==
    /\ cons[c].pc = "host"
    /\ ConsGoto(c, IF AtItsHost(c) THEN "member" ELSE "refused")
    /\ UNCHANGED <<ringVars, dbVars, issueVars, redisVars, lo>>

MemberCheck(c) ==
    /\ cons[c].pc = "member"
    /\ ConsGoto(c, IF Claim(c) \subseteq active THEN "login" ELSE "refused")
    /\ UNCHANGED <<ringVars, dbVars, issueVars, redisVars, lo>>

\* The success audit, then login() and the tenant session keys.
Login(c) ==
    /\ cons[c].pc = "login"
    /\ ConsGoto(c, "done")
    /\ UNCHANGED <<ringVars, dbVars, issueVars, redisVars, lo>>

ConsumeFails(c) ==
    /\ Faults
    /\ cons[c].pc \in Consuming
    /\ ConsGoto(c, "refused")
    /\ UNCHANGED <<ringVars, dbVars, issueVars, redisVars, lo>>

ConsumeStep(c) == GetDel(c) \/ SRem(c) \/ HostCheck(c) \/ MemberCheck(c) \/ Login(c)

-----------------------------------------------------------------------------
(* revoke_all_handoff_tokens_for_user, on the root domain's logout.        *)
SMembers(l, u) ==
    /\ lo[l].pc = "new"
    /\ lo' = [lo EXCEPT ![l] =
                 [pc |-> IF index[u] = {} THEN "done" ELSE "del",
                  user |-> {u}, seen |-> index[u]]]
    /\ UNCHANGED <<ringVars, dbVars, issueVars, redisVars, cons>>

DelNonces(l) ==
    /\ lo[l].pc = "del"
    /\ LET gone == {t \in lo[l].seen : nonce[t] = "live"}
       IN  /\ nonce' = [t \in Tids |-> IF t \in gone THEN "revoked" ELSE nonce[t]]
           /\ ttl' = [t \in Tids |-> IF t \in gone THEN 0 ELSE ttl[t]]
    /\ lo' = [lo EXCEPT ![l].pc = "delindex"]
    /\ UNCHANGED <<ringVars, dbVars, issueVars, index, ittl, cons>>

DelIndex(l) ==
    /\ lo[l].pc = "delindex"
    /\ index' = [u \in Users |-> IF u \in lo[l].user THEN {} ELSE index[u]]
    /\ ittl' = [u \in Users |-> IF u \in lo[l].user THEN 0 ELSE ittl[u]]
    /\ lo' = [lo EXCEPT ![l].pc = "done"]
    /\ UNCHANGED <<ringVars, dbVars, issueVars, nonce, ttl, cons>>

\* Any exception is logged and swallowed: the logout itself goes through.
LogoutFails(l) ==
    /\ Faults
    /\ lo[l].pc \in LoggingOut
    /\ lo' = [lo EXCEPT ![l].pc = "failed"]
    /\ UNCHANGED <<ringVars, dbVars, issueVars, redisVars, cons>>

LogoutStep(l) == DelNonces(l) \/ DelIndex(l)

-----------------------------------------------------------------------------
(* The world around the requests. *)

\* One unit of time: Redis drops the keys whose TTL runs out.
Tick ==
    LET expiring == {t \in Tids : nonce[t] = "live" /\ ttl[t] = 1}
        dropped == {u \in Users : ittl[u] = 1}
        less(n) == IF n = 0 THEN 0 ELSE n - 1
    IN  /\ \/ \E t \in Tids : jwt[t] > 0 \/ ttl[t] > 0
           \/ \E u \in Users : ittl[u] > 0
        /\ jwt' = [t \in Tids |-> less(jwt[t])]
        /\ nonce' = [t \in Tids |-> IF t \in expiring THEN "expired" ELSE nonce[t]]
        /\ ttl' = [t \in Tids |-> less(ttl[t])]
        /\ index' = [u \in Users |-> IF u \in dropped THEN {} ELSE index[u]]
        /\ ittl' = [u \in Users |-> less(ittl[u])]
        /\ UNCHANGED <<ringVars, dbVars, tok, cons, lo>>

KeysChange ==
    /\ "keys" \in Moving
    /\ Ring!RingChange
    /\ UNCHANGED <<dbVars, issueVars, redisVars, cons, lo>>

\* Statuses are changed by staff, outside these services.
MembershipChange(m) ==
    /\ "members" \in Moving
    /\ active' \in {active \cup {m}, active \ {m}}
    /\ UNCHANGED <<ringVars, orgs, issueVars, redisVars, cons, lo>>

OrgChange(h, status) ==
    /\ "orgs" \in Moving
    /\ orgs[h] # "missing"
    /\ orgs' = [orgs EXCEPT ![h] = status]
    /\ UNCHANGED <<ringVars, active, issueVars, redisVars, cons, lo>>

Next ==
    \/ \E t \in Tids :
         \/ \E m \in Members : Validate(t, m)
         \/ IssueStep(t)
         \/ IssueFails(t)
    \/ \E c \in Consumers :
         \/ \E t \in Tids : Verify(c, t)
         \/ ConsumeStep(c)
         \/ ConsumeFails(c)
    \/ \E l \in Logouts :
         \/ \E u \in Users : SMembers(l, u)
         \/ LogoutStep(l)
         \/ LogoutFails(l)
    \/ Tick
    \/ KeysChange
    \/ \E m \in Members : MembershipChange(m)
    \/ \E h \in Hosts, s \in {"ACTIVE", "SUSPENDED", "missing"} : OrgChange(h, s)

Spec == Init /\ [][Next]_hVars

(* A request that has started is run by a worker until it ends, and time   *)
(* passes.  Nobody has to start one, nor to change a key or a status.      *)
Fairness ==
    /\ WF_hVars(Tick)
    /\ \A t \in Tids : WF_hVars(IssueStep(t))
    /\ \A c \in Consumers : WF_hVars(ConsumeStep(c))
    /\ \A l \in Logouts : WF_hVars(LogoutStep(l))

FairSpec == Spec /\ Fairness

-----------------------------------------------------------------------------
(* A token lets in at most one request, however many present it at once    *)
(* and whatever fails in between.                                          *)
SingleUse ==
    \A c, d \in Consumers :
        cons[c].pc = "done" /\ cons[d].pc = "done" /\ cons[c].tid = cons[d].tid => c = d

(* What a logout found in the index stays dead once it has deleted the     *)
(* nonces: SETEX comes before SADD, so no listed token can come to life    *)
(* afterwards.                                                             *)
RevokedStaysDead ==
    \A l \in Logouts :
        lo[l].pc \in {"delindex", "done"} => \A t \in lo[l].seen : nonce[t] # "live"

(* revoke_all_handoff_tokens_for_user: "all outstanding handoff tokens for *)
(* a user".  The index has every one of them that a browser holds, and a   *)
(* logout reads it as a whole.                                             *)
EveryTokenListed ==
    \A t \in Tids : tok[t].pc = "out" /\ nonce[t] = "live" =>
                        \A u \in Owner(t) : t \in index[u]

LogoutSeesAll ==
    [][\A l \in Logouts : lo[l].pc = "new" /\ lo'[l].pc # "new" =>
         \A t \in Tids :
           tok[t].pc = "out" /\ nonce[t] = "live" /\ Owner(t) \cap lo'[l].user # {} =>
             t \in lo'[l].seen]_hVars

(* That is so under two conditions.  No token of a person is being listed  *)
(* while a logout of theirs is between its SMEMBERS and its last DEL, and  *)
(* no unit of time passes between SADD and EXPIRE.                         *)
ListedApart ==
    \A l \in Logouts, t \in Tids :
        lo[l].pc \in LoggingOut /\ tok[t].pc = "sadd" => Owner(t) \cap lo[l].user = {}

ListedSwiftly == [][Tick => \A t \in Tids : tok[t].pc # "expire"]_hVars

(* Redis never ends a token before its own exp does: until then, a token   *)
(* a browser holds is missing only if it was consumed or revoked, so       *)
(* HANDOFF_REPLAY_DETECTED means what it says at the time of the check.    *)
NonceOutlivesJwt ==
    \A t \in Tids :
        tok[t].pc = "out" /\ jwt[t] > 0 /\ nonce[t] \notin {"taken", "revoked"} =>
            nonce[t] = "live" /\ jwt[t] <= ttl[t]

(* A tenant session exists only on the host of the token's organization,   *)
(* for a request that itself burned the nonce.                             *)
SessionIsBound ==
    \A c \in Consumers :
        cons[c].pc = "done" =>
            /\ \A m \in Claim(c) : m.org = cons[c].host
            /\ \A t \in cons[c].tid : nonce[t] = "taken"

(* The index of a user who issues nothing any more goes away by itself.    *)
IndexCleaned == \A u \in Users : <>[](index[u] = {})

(* Handoff tokens are one-shot tickets: the nonce says where a token is in *)
(* its life, and the request whose GETDEL returned it has redeemed it.     *)
TicketState ==
    [t \in Tids |-> CASE nonce[t] = "none" -> "unissued"
                      [] nonce[t] = "live" -> "outstanding"
                      [] nonce[t] = "taken" -> "redeemed"
                      [] OTHER -> "void"]

Redeemers == [t \in Tids |-> {c \in Consumers : cons[c].took /\ cons[c].tid = {t}}]

LetIn == {c \in Consumers : cons[c].pc = "done"}

Ticket == INSTANCE OneShot WITH
    Tickets <- Tids, Guests <- Consumers,
    state <- TicketState, redeemer <- Redeemers, inside <- LetIn

ImplementsOneShot == Ticket!TicketSpec

=============================================================================
