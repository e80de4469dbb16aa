-------------------------- MODULE Reference_proofs --------------------------
(***************************************************************************)
(* Proofs about locations and their scopes, and about hosts and their      *)
(* sessions, for any rows, assignments, hosts and host templates; and      *)
(* about the role seed with the registry and default roles of version 1.   *)
(***************************************************************************)
EXTENDS MCReference, RoleSeed_proofs, SequenceTheorems, FiniteSetTheorems, TLAPS

\* The rows that Assign may write.
Targeted == {a \in Columns : ExactlyOneTarget(a) /\ ScopeTypeMatches(a)}

ScopeInv ==
    /\ org \in [Locations -> Orgs]
    /\ market \in [Locations -> Markets]
    /\ region \in [Markets -> Regions]
    /\ member \in Memberships
    /\ scopes \subseteq Targeted

LEMMA ScopeInvHolds == ScopeSpec => []ScopeInv
<1>1. ScopeInit => ScopeInv
  BY ScopeAssumption DEF ScopeInit, ScopeInv, Memberships
<1>2. ScopeInv /\ [ScopeNext]_scopeVars => ScopeInv'
  <2>. SUFFICES ASSUME ScopeInv, [ScopeNext]_scopeVars PROVE ScopeInv'
    OBVIOUS
  <2>. USE DEF ScopeInv, rowVars
  <2>1. ASSUME NEW l \in Locations, NEW o \in Orgs, Own(l, o) PROVE ScopeInv'
    BY <2>1 DEF Own
  <2>2. ASSUME NEW l \in Locations, NEW m \in Markets, Place(l, m) PROVE ScopeInv'
    BY <2>2 DEF Place
  <2>3. ASSUME NEW m \in Markets, NEW r \in Regions, File(m, r) PROVE ScopeInv'
    BY <2>3 DEF File
  <2>4. ASSUME NEW m \in Memberships, Enter(m) PROVE ScopeInv'
    BY <2>4 DEF Enter
  <2>5. ASSUME NEW a \in Columns, Assign(a) PROVE ScopeInv'
    BY <2>5 DEF Assign, Targeted
  <2>6. ASSUME NEW a \in scopes, Unassign(a) PROVE ScopeInv'
    BY <2>6 DEF Unassign
  <2>7. CASE UNCHANGED scopeVars
    BY <2>7 DEF scopeVars
  <2>. QED
    BY <2>1, <2>2, <2>3, <2>4, <2>5, <2>6, <2>7 DEF ScopeNext
<1>. QED
  BY <1>1, <1>2, PTL DEF ScopeSpec

(* A row that the two constraints let through has the one target that its  *)
(* type names.                                                             *)
LEMMA TargetIsTyped ==
    ASSUME NEW a \in Targeted
    PROVE  \/ a.scope_type = "REGION" /\ a.region # {} /\ a.market = {} /\ a.location = {}
           \/ a.scope_type = "MARKET" /\ a.region = {} /\ a.market # {} /\ a.location = {}
           \/ a.scope_type = "LOCATION" /\ a.region = {} /\ a.market = {} /\ a.location # {}
BY DEF Targeted, Columns, ExactlyOneTarget, ScopeTypeMatches

LEMMA ResolvedIsCovered ==
    ASSUME NEW rows \in SUBSET Targeted, NEW l \in Locations
    PROVE  l \in resolve_location_ids_for_scopes(rows) <=> \E a \in rows : Covers(a, l)
<1>1. \A a \in rows : Covers(a, l) <=>
          \/ region[market[l]] \in a.region
          \/ a.region = {} /\ market[l] \in a.market
          \/ a.region = {} /\ a.market = {} /\ l \in a.location
  <2>. SUFFICES ASSUME NEW a \in rows
                PROVE  Covers(a, l) <=>
                         \/ region[market[l]] \in a.region
                         \/ a.region = {} /\ market[l] \in a.market
                         \/ a.region = {} /\ a.market = {} /\ l \in a.location
    OBVIOUS
  <2>. QED
    BY TargetIsTyped DEF Covers
<1>2. \A a \in rows : a.location \subseteq Locations
  BY DEF Targeted, Columns, Nullable
<1>. QED
  BY <1>1, <1>2 DEF resolve_location_ids_for_scopes

(* A member sees, of her own organization, what her assignments cover at   *)
(* their own level, however locations, markets and regions are filed.      *)
THEOREM MembersSeeTheirScope == ScopeSpec => []SeesExactlyScope
<1>1. ScopeInv => SeesExactlyScope
  <2>. SUFFICES ASSUME ScopeInv PROVE SeesExactlyScope
    OBVIOUS
  <2>1. \A l \in Locations :
          l \in resolve_location_ids_for_scopes(scopes) <=> \E a \in scopes : Covers(a, l)
    BY ResolvedIsCovered DEF ScopeInv
  <2>2. for_org(Locations, member.org) = {l \in Locations : org[l] = member.org}
    BY DEF for_org
  <2>. HIDE DEF for_org
  <2>3. CASE scopes = {}
    BY <2>2, <2>3 DEF SeesExactlyScope, for_membership, intersect_with_operating_scope
  <2>4. CASE scopes # {}
    BY <2>1, <2>2, <2>4 DEF SeesExactlyScope, for_membership, intersect_with_operating_scope
  <2>. QED
    BY <2>3, <2>4
<1>. QED
  BY <1>1, ScopeInvHolds, PTL

-----------------------------------------------------------------------------
LEMMA LowerKeeps ==
    ASSUME NEW s \in Seq(Chars)
    PROVE  lower(s) \in Seq(Chars) /\ Len(lower(s)) = Len(s)
<1>1. \A i \in 1 .. Len(s) : LowerOf[s[i]] \in Chars
  BY HostAssumption
<1>2. Len(s) \in Nat
  OBVIOUS
<1>. QED
  BY <1>1, <1>2 DEF lower

LEMMA CutOut ==
    ASSUME NEW s \in Seq(Chars), NEW m \in Int, NEW n \in Int, 1 <= m, n <= Len(s)
    PROVE  /\ SubSeq(s, m, n) \in Seq(Chars)
           /\ Len(SubSeq(s, m, n)) = IF m <= n THEN n - m + 1 ELSE 0
           /\ \A i \in 1 .. n - m + 1 : SubSeq(s, m, n)[i] = s[m + i - 1]
<1>1. \A i \in m .. n : s[i] \in Chars
  OBVIOUS
<1>. QED
  BY <1>1, SubSeqProperties

(* A host that is the template with a slug in it is recognised, and what is*)
(* cut out of it is this slug.                                             *)
LEMMA TemplateIsRead ==
    ASSUME NEW s \in Seq(Chars), NEW h, h = TenantHost(s)
    PROVE  StartsWith(h, Prefix) /\ EndsWith(h, Suffix) /\ Candidate(h) = s
<1>. USE HostAssumption
<1>1. /\ Prefix \o s \in Seq(Chars)
      /\ Len(Prefix \o s) = Len(Prefix) + Len(s)
      /\ \A i \in 1 .. Len(Prefix) + Len(s) :
           (Prefix \o s)[i] = IF i <= Len(Prefix) THEN Prefix[i] ELSE s[i - Len(Prefix)]
  BY ConcatProperties
<1>2. /\ h \in Seq(Chars)
      /\ Len(h) = Len(Prefix) + Len(s) + Len(Suffix)
      /\ \A i \in 1 .. Len(Prefix) + Len(s) + Len(Suffix) :
           h[i] = IF i <= Len(Prefix) + Len(s) THEN (Prefix \o s)[i]
                  ELSE Suffix[i - (Len(Prefix) + Len(s))]
  BY <1>1, ConcatProperties DEF TenantHost
<1>3. Len(Prefix) \in Nat /\ Len(s) \in Nat /\ Len(Suffix) \in Nat
  BY LenProperties
<1>4. StartsWith(h, Prefix)
  <2>1. SubSeq(h, 1, Len(Prefix)) = Prefix
    <3>1. /\ SubSeq(h, 1, Len(Prefix)) \in Seq(Chars)
          /\ Len(SubSeq(h, 1, Len(Prefix))) = Len(Prefix)
          /\ \A i \in 1 .. Len(Prefix) : SubSeq(h, 1, Len(Prefix))[i] = h[i]
      BY <1>2, <1>3, CutOut
    <3>. QED
      BY <1>1, <1>2, <1>3, <3>1, SeqEqual
  <2>. QED
    BY <1>2, <1>3, <2>1 DEF StartsWith
<1>5. EndsWith(h, Suffix)
  <2>. DEFINE tail == SubSeq(h, Len(h) - Len(Suffix) + 1, Len(h))
  <2>1. /\ tail \in Seq(Chars)
        /\ Len(tail) = Len(Suffix)
        /\ \A i \in 1 .. Len(Suffix) : tail[i] = h[Len(Prefix) + Len(s) + i]
    BY <1>2, <1>3, CutOut
  <2>. HIDE DEF tail
  <2>2. tail = Suffix
    <3>1. ASSUME NEW i \in 1 .. Len(Suffix) PROVE tail[i] = Suffix[i]
      <4>1. /\ Len(Prefix) + Len(s) + i \in 1 .. Len(Prefix) + Len(s) + Len(Suffix)
            /\ ~(Len(Prefix) + Len(s) + i <= Len(Prefix) + Len(s))
            /\ Len(Prefix) + Len(s) + i - (Len(Prefix) + Len(s)) = i
        BY <1>3
      <4>2. tail[i] = h[Len(Prefix) + Len(s) + i]
        BY <2>1
      <4>3. h[Len(Prefix) + Len(s) + i] = Suffix[Len(Prefix) + Len(s) + i - (Len(Prefix) + Len(s))]
        BY <1>2, <4>1
      <4>. QED
        BY <4>1, <4>2, <4>3
    <3>. QED
      BY <2>1, <3>1, SeqEqual
  <2>. QED
    BY <1>2, <1>3, <2>2 DEF EndsWith, tail
<1>6. Candidate(h) = s
  <2>. DEFINE rest == SubSeq(h, Len(Prefix) + 1, Len(h))
  <2>1. /\ rest \in Seq(Chars)
        /\ Len(rest) = Len(s) + Len(Suffix)
        /\ \A i \in 1 .. Len(rest) : rest[i] = h[Len(Prefix) + i]
    BY <1>2, <1>3, CutOut
  <2>. HIDE DEF rest
  <2>2. ASSUME NEW i \in 1 .. Len(s) PROVE rest[i] = s[i]
    <3>1. /\ i \in 1 .. Len(s) + Len(Suffix)
          /\ Len(Prefix) + i \in 1 .. Len(Prefix) + Len(s)
          /\ Len(Prefix) + i \in 1 .. Len(Prefix) + Len(s) + Len(Suffix)
          /\ Len(Prefix) + i <= Len(Prefix) + Len(s)
          /\ ~(Len(Prefix) + i <= Len(Prefix))
          /\ Len(Prefix) + i - Len(Prefix) = i
      BY <1>3
    <3>2. rest[i] = h[Len(Prefix) + i]
      BY <2>1, <3>1
    <3>3. h[Len(Prefix) + i] = (Prefix \o s)[Len(Prefix) + i]
      BY <1>2, <3>1
    <3>4. (Prefix \o s)[Len(Prefix) + i] = s[i]
      BY <1>1, <3>1
    <3>. QED
      BY <3>2, <3>3, <3>4
  <2>3. CASE Suffix = <<>>
    <3>1. rest = s
      BY <1>3, <2>1, <2>2, <2>3, SeqEqual
    <3>. QED
      BY <2>3, <3>1 DEF Candidate, rest
  <2>4. CASE Suffix # <<>>
    <3>1. Candidate(h) = SubSeq(rest, 1, Len(s))
      BY <1>3, <2>1, <2>4 DEF Candidate, rest, Upto
    <3>2. /\ SubSeq(rest, 1, Len(s)) \in Seq(Chars)
          /\ Len(SubSeq(rest, 1, Len(s))) = Len(s)
          /\ \A i \in 1 .. Len(s) : SubSeq(rest, 1, Len(s))[i] = rest[i]
      BY <1>3, <2>1, CutOut
    <3>. QED
      BY <2>2, <3>1, <3>2, SeqEqual
  <2>. QED
    BY <2>3, <2>4
<1>. QED
  BY <1>4, <1>5, <1>6

(* Without overlap, a host that has the template's two ends is the template*)
(* with what is between them.                                              *)
LEMMA EndsMakeTemplate ==
    ASSUME NEW h \in Seq(Chars), StartsWith(h, Prefix), EndsWith(h, Suffix),
           Len(Prefix) + Len(Suffix) <= Len(h)
    PROVE  /\ h = TenantHost(Candidate(h))
           /\ Candidate(h) = SubSeq(h, Len(Prefix) + 1, Len(h) - Len(Suffix))
<1>. USE HostAssumption
<1>. DEFINE mid == SubSeq(h, Len(Prefix) + 1, Len(h) - Len(Suffix))
            size == Len(h) - Len(Prefix) - Len(Suffix)
<1>1. Len(Prefix) \in Nat /\ Len(h) \in Nat /\ Len(Suffix) \in Nat /\ size \in Nat
  BY LenProperties
<1>2. /\ mid \in Seq(Chars)
      /\ Len(mid) = size
      /\ \A i \in 1 .. size : mid[i] = h[Len(Prefix) + i]
  BY <1>1, CutOut
<1>3. Candidate(h) = mid
  <2>. DEFINE rest == SubSeq(h, Len(Prefix) + 1, Len(h))
  <2>1. /\ rest \in Seq(Chars)
        /\ Len(rest) = size + Len(Suffix)
        /\ \A i \in 1 .. Len(rest) : rest[i] = h[Len(Prefix) + i]
    BY <1>1, CutOut
  <2>. HIDE DEF rest
  <2>2. CASE Suffix = <<>>
    <3>1. Len(Suffix) = 0
      BY <2>2
    <3>2. rest = mid
      <4>. HIDE DEF mid
      <4>1. Len(rest) = size
        BY <1>1, <2>1, <3>1
      <4>. HIDE DEF size
      <4>2. \A i \in 1 .. size : rest[i] = mid[i]
        BY <1>2, <2>1, <4>1
      <4>. QED
        BY <1>2, <2>1, <4>1, <4>2, SeqEqual
    <3>. QED
      BY <2>2, <3>2 DEF Candidate, rest
  <2>3. CASE Suffix # <<>>
    <3>1. Candidate(h) = SubSeq(rest, 1, size)
      BY <1>1, <2>1, <2>3 DEF Candidate, rest, Upto
    <3>2. /\ SubSeq(rest, 1, size) \in Seq(Chars)
          /\ Len(SubSeq(rest, 1, size)) = size
          /\ \A i \in 1 .. size : SubSeq(rest, 1, size)[i] = rest[i]
      BY <1>1, <2>1, CutOut
    <3>3. SubSeq(rest, 1, size) = mid
      <4>. HIDE DEF mid, size
      <4>1. \A i \in 1 .. size : i \in 1 .. Len(rest)
        BY <1>1, <2>1
      <4>2. \A i \in 1 .. size : SubSeq(rest, 1, size)[i] = mid[i]
        BY <1>2, <2>1, <3>2, <4>1
      <4>. QED
        BY <1>2, <3>2, <4>2, SeqEqual
    <3>. QED
      BY <3>1, <3>3
  <2>. QED
    BY <2>2, <2>3
<1>4. h = TenantHost(mid)
  <2>1. /\ Prefix \o mid \in Seq(Chars)
        /\ Len(Prefix \o mid) = Len(Prefix) + size
        /\ \A i \in 1 .. Len(Prefix) + size :
             (Prefix \o mid)[i] = IF i <= Len(Prefix) THEN Prefix[i] ELSE mid[i - Len(Prefix)]
    BY <1>2, ConcatProperties
  <2>2. /\ TenantHost(mid) \in Seq(Chars)
        /\ Len(TenantHost(mid)) = Len(Prefix) + size + Len(Suffix)
        /\ \A i \in 1 .. Len(Prefix) + size + Len(Suffix) :
             TenantHost(mid)[i] = IF i <= Len(Prefix) + size THEN (Prefix \o mid)[i]
                                  ELSE Suffix[i - (Len(Prefix) + size)]
    BY <2>1, ConcatProperties DEF TenantHost
  <2>3. \A i \in 1 .. Len(Prefix) : h[i] = Prefix[i]
    <3>1. \A i \in 1 .. Len(Prefix) : SubSeq(h, 1, Len(Prefix))[i] = h[i]
      BY <1>1, CutOut
    <3>. QED
      BY <3>1 DEF StartsWith
  <2>4. \A i \in 1 .. Len(Suffix) : h[Len(Prefix) + size + i] = Suffix[i]
    <3>1. \A i \in 1 .. Len(Suffix) :
            SubSeq(h, Len(h) - Len(Suffix) + 1, Len(h))[i] = h[Len(Prefix) + size + i]
      BY <1>1, CutOut
    <3>. QED
      BY <3>1 DEF EndsWith
  <2>5. Len(h) = Len(TenantHost(mid))
    BY <1>1, <2>2
  <2>6. \A i \in 1 .. Len(h) : h[i] = TenantHost(mid)[i]
    <3>. HIDE DEF mid, TenantHost
    <3>1. Len(h) = Len(Prefix) + size + Len(Suffix)
      BY <1>1
    <3>. HIDE DEF size
    <3>. SUFFICES ASSUME NEW i \in 1 .. Len(h) PROVE h[i] = TenantHost(mid)[i]
      OBVIOUS
    <3>2. CASE i <= Len(Prefix)
      <4>1. /\ i \in 1 .. Len(Prefix)
            /\ i \in 1 .. Len(Prefix) + size
            /\ i <= Len(Prefix) + size
        BY <1>1, <3>2
      <4>2. TenantHost(mid)[i] = (Prefix \o mid)[i]
        BY <2>2, <3>1, <4>1
      <4>. QED
        BY <2>1, <2>3, <3>2, <4>1, <4>2
    <3>3. CASE Len(Prefix) < i /\ i <= Len(Prefix) + size
      <4>1. i - Len(Prefix) \in 1 .. size
        BY <1>1, <3>1, <3>3
      <4>2. h[i] = mid[i - Len(Prefix)]
        BY <1>1, <1>2, <4>1
      <4>3. i \in 1 .. Len(Prefix) + size /\ ~(i <= Len(Prefix))
        BY <1>1, <3>1, <3>3
      <4>4. TenantHost(mid)[i] = (Prefix \o mid)[i]
        BY <2>2, <3>1, <3>3
      <4>. QED
        BY <2>1, <4>2, <4>3, <4>4
    <3>4. CASE Len(Prefix) + size < i
      <4>1. i - (Len(Prefix) + size) \in 1 .. Len(Suffix)
        BY <1>1, <3>1, <3>4
      <4>2. h[i] = Suffix[i - (Len(Prefix) + size)]
        <5>1. Len(Prefix) + size + (i - (Len(Prefix) + size)) = i
          BY <1>1
        <5>. QED
          BY <2>4, <4>1, <5>1
      <4>3. ~(i <= Len(Prefix) + size)
        BY <1>1, <3>4
      <4>. QED
        BY <2>2, <3>1, <4>2, <4>3
    <3>. QED
      BY <1>1, <3>2, <3>3, <3>4
  <2>. QED
    BY <2>2, <2>5, <2>6, SeqEqual
<1>. QED
  BY <1>3, <1>4

\* What a request in service was given is a function of its host.
HostInv ==
    \/ host = <<>> /\ scope = OtherScope /\ urlconf = UrlconfFor("OTHER")
    \/ /\ host \in Hosts
       /\ scope = resolve_session_scope(host)
       /\ urlconf = UrlconfFor(resolve_session_scope(host).host_scope)

LEMMA HostInvNames == HostInv => HostNamesOneTenant
<1>. SUFFICES ASSUME HostInv PROVE HostNamesOneTenant
  OBVIOUS
<1>. DEFINE h == lower(host)
            parts == {SubSeq(h, i, j) : i \in 1 .. Len(h), j \in 1 .. Len(h)}
            named == {s \in parts : IsSlug(s) /\ h = TenantHost(s)}
<1>1. host \in Seq(Chars) /\ h \in Seq(Chars) /\ Len(h) = Len(host)
  BY HostAssumption, LowerKeeps, EmptySeq DEF HostInv
<1>2. \A s \in parts : s \in Seq(Chars)
  <2>. SUFFICES ASSUME NEW s \in parts PROVE s \in Seq(Chars)
    OBVIOUS
  <2>. HIDE DEF h
  <2>1. PICK i \in 1 .. Len(h), j \in 1 .. Len(h) : s = SubSeq(h, i, j)
    OBVIOUS
  <2>2. Len(h) \in Nat
    BY <1>1, LenProperties
  <2>. QED
    BY <1>1, <2>1, <2>2, CutOut
<1>3. UrlconfFor("OTHER") # "config.urls_tenant" /\ UrlconfFor("ROOT") # "config.urls_tenant"
        /\ UrlconfFor("TENANT") = "config.urls_tenant"
  BY DEF UrlconfFor
<1>4. \A s \in named : StartsWith(h, Prefix) /\ EndsWith(h, Suffix) /\ Candidate(h) = s
  <2>. HIDE DEF parts, h
  <2>. QED
    BY <1>2, TemplateIsRead
<1>5. CASE host = <<>> /\ scope = OtherScope /\ urlconf = UrlconfFor("OTHER")
  <2>1. Len(host) = 0
    BY <1>5
  <2>2. named = {}
    BY <1>1, <2>1
  <2>. QED
    BY <1>3, <1>5, <2>2 DEF HostNamesOneTenant, OtherScope
<1>6. CASE /\ host \in Hosts
           /\ scope = resolve_session_scope(host)
           /\ urlconf = UrlconfFor(resolve_session_scope(host).host_scope)
  <2>1. CASE h = lower(Root)
    <3>1. scope = RootScope /\ urlconf = UrlconfFor("ROOT")
      BY <1>6, <2>1 DEF resolve_session_scope, RootScope
    <3>. QED
      BY <1>3, <2>1, <3>1 DEF HostNamesOneTenant, RootScope
  <2>2. CASE h # lower(Root) /\ StartsWith(h, Prefix) /\ EndsWith(h, Suffix) /\ IsSlug(Candidate(h))
    <3>1. scope = TenantScope(h, Candidate(h)) /\ urlconf = UrlconfFor("TENANT")
      BY <1>6, <2>2 DEF resolve_session_scope, TenantScope
    <3>2. Len(Prefix) + Len(Suffix) <= Len(h)
      BY <1>1, <1>6, <2>2, NoOverlap
    <3>3. /\ h = TenantHost(Candidate(h))
          /\ Candidate(h) = SubSeq(h, Len(Prefix) + 1, Len(h) - Len(Suffix))
      BY <1>1, <2>2, <3>2, EndsMakeTemplate
    <3>4. Candidate(h) \in parts
      <4>1. Len(Prefix) \in Nat /\ Len(h) \in Nat /\ Len(Suffix) \in Nat
        BY <1>1, HostAssumption, LenProperties
      <4>2. Len(Candidate(h)) \in 3 .. 63
        BY <2>2 DEF IsSlug
      <4>3. Len(Prefix) + 1 \in 1 .. Len(h) /\ Len(h) - Len(Suffix) \in 1 .. Len(h)
        BY <1>1, <3>2, <3>3, <4>1, <4>2, CutOut
      <4>. QED
        BY <3>3, <4>3
    <3>5. Candidate(h) \in named
      BY <2>2, <3>3, <3>4
    <3>. HIDE DEF named
    <3>6. named # {} /\ \A s \in named : scope = TenantScope(h, s)
      BY <1>4, <3>1, <3>5
    <3>. QED
      BY <1>3, <2>2, <3>1, <3>6 DEF HostNamesOneTenant, named
  <2>3. CASE h # lower(Root) /\ ~(StartsWith(h, Prefix) /\ EndsWith(h, Suffix) /\ IsSlug(Candidate(h)))
    <3>1. scope = OtherScope /\ urlconf = UrlconfFor("OTHER")
      BY <1>6, <2>3 DEF resolve_session_scope, OtherScope
    <3>2. named = {}
      BY <1>4, <2>3
    <3>. QED
      BY <1>3, <3>1, <3>2 DEF HostNamesOneTenant, OtherScope
  <2>. QED
    BY <2>1, <2>2, <2>3
<1>. QED
  BY <1>5, <1>6 DEF HostInv

(* A request is a tenant's exactly if its host is the template with a slug *)
(* in it, and gets the session of this slug: for every template whose two  *)
(* ends no requested host lays over each other.                            *)
THEOREM HostsAreToldApart == HostSpec => []HostNamesOneTenant
<1>1. HostInit => HostInv
  BY DEF HostInit, HostInv
<1>2. HostInv /\ [HostNext]_hostVars => HostInv'
  BY DEF HostInv, HostNext, Serve, Served, hostVars
<1>. QED
  BY <1>1, <1>2, HostInvNames, PTL DEF HostSpec

-----------------------------------------------------------------------------
\* A code begins with its area and ends with its verb.
LEMMA TwoWords ==
    ASSUME NEW a, NEW V, NEW k \in In(a, V)
    PROVE  k[1] = a /\ k[Len(k)] \in V
<1>. PICK v \in V : k = <<a, v>>
  BY DEF In
<1>. QED
  OBVIOUS

LEMMA ThreeWords ==
    ASSUME NEW a, NEW p, NEW V, NEW k \in Sub(a, p, V)
    PROVE  k[1] = a /\ k[Len(k)] \in V
<1>. PICK v \in V : k = <<a, p, v>>
  BY DEF Sub
<1>. QED
  OBVIOUS

(* An area's codes begin with its name, so the guide's areas are those of  *)
(* the registry; and only the work orders have a code in view_all.         *)
Begin(A, a) == \A k \in A : k[1] = a
NoViewAll(A) == \A k \in A : k[Len(k)] # "view_all"

LEMMA OneArea ==
    /\ Begin(Leads, "leads") /\ Begin(Quotes, "quotes") /\ Begin(Clients, "clients")
    /\ Begin(Orders, "orders") /\ Begin(Catalog, "catalog") /\ Begin(Pricing, "pricing")
    /\ Begin(WorkOrders, "workorders") /\ Begin(Purchasing, "purchasing")
    /\ Begin(Builds, "build") /\ Begin(Billing, "billing") /\ Begin(Tasks, "tasks")
    /\ Begin(Communications, "communications") /\ Begin(Reporting, "reporting")
    /\ Begin(Administration, "admin") /\ Begin(Tax, "tax")
<1>. USE TwoWords, ThreeWords DEF Begin
<1>1. /\ Begin(Leads, "leads") /\ Begin(Quotes, "quotes") /\ Begin(Clients, "clients")
  BY DEF Leads, Quotes, Clients
<1>2. /\ Begin(Orders, "orders") /\ Begin(Catalog, "catalog") /\ Begin(Pricing, "pricing")
  BY DEF Orders, Catalog, Pricing
<1>3. /\ Begin(WorkOrders, "workorders") /\ Begin(Purchasing, "purchasing")
      /\ Begin(Builds, "build")
  BY DEF WorkOrders, Purchasing, Builds
<1>4. /\ Begin(Billing, "billing") /\ Begin(Tasks, "tasks")
      /\ Begin(Communications, "communications") /\ Begin(Reporting, "reporting")
  BY DEF Billing, Tasks, Communications, Reporting
<1>5. Begin(Administration, "admin") /\ Begin(Tax, "tax")
  BY DEF Administration, Tax
<1>. QED
  BY <1>1, <1>2, <1>3, <1>4, <1>5

LEMMA WholeAreas ==
    /\ Area("leads") = Leads
    /\ Area("tasks") = Tasks
    /\ Area("communications") = Communications
    /\ Area("pricing") = Pricing
    /\ Area("billing") = Billing
BY OneArea DEF Area, AllCapabilities, Begin

LEMMA ViewsOfAll ==
    ViewCapabilities = {k \in AllCapabilities : k[Len(k)] = "view"} \cup {<<"workorders", "view_all">>}
<1>. USE TwoWords, ThreeWords DEF NoViewAll
<1>1. NoViewAll(Leads) /\ NoViewAll(Quotes) /\ NoViewAll(Clients) /\ NoViewAll(Orders)
  BY DEF Leads, Quotes, Clients, Orders
<1>2. NoViewAll(Catalog) /\ NoViewAll(Pricing) /\ NoViewAll(Purchasing)
  BY DEF Catalog, Pricing, Purchasing
<1>3. NoViewAll(Builds) /\ NoViewAll(Billing) /\ NoViewAll(Tasks)
  BY DEF Builds, Billing, Tasks
<1>4. NoViewAll(Communications) /\ NoViewAll(Reporting) /\ NoViewAll(Administration) /\ NoViewAll(Tax)
  BY DEF Communications, Reporting, Administration, Tax
<1>5. \A k \in WorkOrders : k[Len(k)] = "view_all" <=> k = <<"workorders", "view_all">>
  BY DEF WorkOrders, In
<1>6. <<"workorders", "view_all">> \in WorkOrders
  BY DEF WorkOrders, In
<1>7. \A k \in AllCapabilities : k[Len(k)] = "view_all" <=> k = <<"workorders", "view_all">>
  BY <1>1, <1>2, <1>3, <1>4, <1>5, <1>6 DEF AllCapabilities
<1>8. <<"workorders", "view_all">> \in AllCapabilities
  BY <1>6 DEF AllCapabilities
<1>. QED
  BY <1>7, <1>8 DEF ViewCapabilities, IsView

\* Each of the lists is the guide's, with the two additions.
LEMMA ListsAgree == \A c \in RoleCodes : DefaultRoles[c] = GuideList(c) \cup Beyond(c)
<1>. SUFFICES ASSUME NEW c \in RoleCodes PROVE DefaultRoles[c] = GuideList(c) \cup Beyond(c)
  OBVIOUS
<1>0. RoleCodes = Managers \cup {"sales_staff", "service_staff", "production_staff", "pricing_manager",
                   "billing_staff", "viewer"}
  BY DEF RoleCodes
<1>1. CASE c \in Managers
  BY <1>1 DEF DefaultRoles, GuideList, Beyond, Managers
<1>2. CASE c = "sales_staff"
  <2>1. DefaultRoles[c] = SalesStaff
    BY <1>2 DEF DefaultRoles, Managers
  <2>2. SalesStaff = GuideList(c) \cup Beyond(c)
    BY <1>2, WholeAreas DEF GuideList, Beyond, SalesStaff, Leads, Tasks, Communications, In, Sub
  <2>. QED
    BY <2>1, <2>2
<1>3. CASE c = "service_staff"
  BY <1>3 DEF DefaultRoles, Managers, GuideList, Beyond, ServiceStaff, In, Sub
<1>4. CASE c = "production_staff"
  BY <1>4 DEF DefaultRoles, Managers, GuideList, Beyond, ProductionStaff, In, Sub
<1>5. CASE c = "pricing_manager"
  BY <1>5, WholeAreas DEF DefaultRoles, Managers, GuideList, Beyond, PricingManager, Pricing, In, Sub
<1>6. CASE c = "billing_staff"
  BY <1>6, WholeAreas DEF DefaultRoles, Managers, GuideList, Beyond, BillingStaff, Billing, In, Sub
<1>7. CASE c = "viewer"
  BY <1>7, ViewsOfAll DEF DefaultRoles, Managers, GuideList, Beyond
<1>. QED
  BY <1>0, <1>1, <1>2, <1>3, <1>4, <1>5, <1>6, <1>7

LEMMA ElevenRoles == Cardinality(RoleCodes) = 11
<1>. DEFINE name == <<"owner", "org_admin", "regional_manager", "market_manager",
                      "location_manager", "sales_staff", "service_staff", "production_staff",
                      "pricing_manager", "billing_staff", "viewer">>
<1>1. name \in [1 .. 11 -> RoleCodes]
  BY DEF RoleCodes, Managers
<1>2. \A i, j \in 1 .. 11 : name[i] = name[j] => i = j
  OBVIOUS
<1>3. \A c \in RoleCodes : \E i \in 1 .. 11 : name[i] = c
  BY DEF RoleCodes, Managers
<1>. HIDE DEF name
<1>4. ExistsBijection(1 .. 11, RoleCodes)
  BY <1>1, <1>2, <1>3 DEF ExistsBijection, Bijection, Injection, IsInjective, Surjection
<1>. QED
  BY <1>4, FS_CountingElements

(* With the registry and the default roles of version 1, whatever staff    *)
(* does between two runs of the seed: a freshly seeded set of templates is *)
(* the guide's table of eleven roles with the two additions, and has       *)
(* nothing of the edits left.                                              *)
THEOREM SeededAsDocumented ==
    ASSUME Registry = AllCapabilities, Codes = RoleCodes, Defaults = DefaultRoles
    PROVE  RoleSeedSpec => []RolesAsDocumented
<1>1. SeedConverges => RolesAsDocumented
  <2>. SUFFICES ASSUME SeedConverges, edits = 0, templates # {}
                PROVE  /\ Cardinality(templates) = 11
                       /\ \A c \in templates : Held(c) = GuideList(c) \cup Beyond(c)
    BY DEF RolesAsDocumented
  <2>1. templates = RoleCodes /\ \A c \in RoleCodes : Held(c) = DefaultRoles[c]
    BY DEF SeedConverges
  <2>. QED
    BY <2>1, ElevenRoles, ListsAgree
<1>. QED
  BY <1>1, SeedIsIdempotent, PTL

=============================================================================
