---------------------------- MODULE HostSessions ----------------------------
(***************************************************************************)
(* Which session a request gets: the host it came in on is the root        *)
(* domain, a tenant's, or another; each tenant has a cookie and a URL table*)
(* of its own.  A host is a sequence of characters.                        *)
(***************************************************************************)
EXTENDS Integers, Sequences

CONSTANTS
    Chars,
    Letters,    \* a to z
    Digits,
    LowerOf,    \* LowerOf[c]: the lower case of a character
    Root,       \* MPH_ROOT_DOMAIN
    Prefix,     \* MPH_TENANT_DOMAIN_TEMPLATE up to {slug}
    Suffix,     \* and from there on
    Hosts       \* the hosts that requests name, without a port

VARIABLES
    host,       \* of the request being served; <<>> while there is none
    scope,      \* request._mph_session_scope
    urlconf     \* the URL table that the request is resolved in

hostVars == <<host, scope, urlconf>>

ASSUME HostAssumption ==
    /\ Letters \cup Digits \cup {"-"} \subseteq Chars
    /\ LowerOf \in [Chars -> Chars]
    /\ Root \in Seq(Chars) /\ Prefix \in Seq(Chars) /\ Suffix \in Seq(Chars)
    /\ Hosts \subseteq Seq(Chars)

lower(s) == [i \in 1 .. Len(s) |-> LowerOf[s[i]]]

StartsWith(s, t) == Len(t) <= Len(s) /\ SubSeq(s, 1, Len(t)) = t

EndsWith(s, t) == Len(t) <= Len(s) /\ SubSeq(s, Len(s) - Len(t) + 1, Len(s)) = t

\* s[: n], where a negative n counts from the end.
Upto(s, n) == SubSeq(s, 1, IF n >= 0 THEN n ELSE Len(s) + n)

\* A mutant: strip() takes a set of characters off, not a text.
Stripped(h) ==
    LET keep == {i \in 1 .. Len(h) :
                   /\ \E k \in 1 .. i : \A j \in 1 .. Len(Prefix) : h[k] # Prefix[j]
                   /\ \E k \in i .. Len(h) : \A j \in 1 .. Len(Suffix) : h[k] # Suffix[j]}
        low == {i \in keep : \A j \in keep : i <= j}
        high == {i \in keep : \A j \in keep : j <= i}
    IN  IF keep = {} THEN <<>>
        ELSE SubSeq(h, CHOOSE i \in low : TRUE, CHOOSE i \in high : TRUE)

Candidate(h) ==
    LET rest == SubSeq(h, Len(Prefix) + 1, Len(h))
    IN  IF Suffix = <<>> THEN rest ELSE Upto(rest, Len(rest) - Len(Suffix))

\* _SLUG_REGEX
IsSlug(s) ==
    /\ Len(s) \in 3 .. 63
    /\ s[1] \in Letters
    /\ s[Len(s)] \in Letters \cup Digits
    /\ \A i \in 1 .. Len(s) : s[i] \in Letters \cup Digits \cup {"-"}

\* The name of a cookie, by the slug in it; the root's has none.
RootCookie == <<"mph_root_session">>
TenantCookie(slug) == <<"tenant_session", slug>>

\* domain is the host that the cookie is limited to; <<>> stands for None.
RootScope == [host_scope |-> "ROOT", cookie |-> RootCookie, domain |-> <<>>]
OtherScope == [host_scope |-> "OTHER", cookie |-> RootCookie, domain |-> <<>>]
TenantScope(h, slug) ==
    [host_scope |-> "TENANT", cookie |-> TenantCookie(slug), domain |-> h]

resolve_session_scope(name) ==
    LET h == lower(name) IN
    IF h = lower(Root) THEN RootScope
    ELSE IF StartsWith(h, Prefix) /\ EndsWith(h, Suffix) /\ IsSlug(Candidate(h))
    THEN TenantScope(h, Candidate(h))
    ELSE OtherScope

\* _URLCONF_FOR_SCOPE; other hosts keep ROOT_URLCONF.
UrlconfFor(host_scope) ==
    CASE host_scope = "ROOT" -> "config.urls_root"
      [] host_scope = "TENANT" -> "config.urls_tenant"
      [] host_scope = "OTHER" -> "config.urls"

\* _render_handoff_form and _build_tenant_redirect: the host of a tenant.
TenantHost(slug) == Prefix \o slug \o Suffix

(* No request names a host that is the start of a tenant host and the end  *)
(* of one with the two on top of each other.  With a template that begins  *)
(* with {slug} there is none; with app.{slug}.local there is app.local,    *)
(* which would be the tenant "loca".                                       *)
ASSUME NoOverlap ==
    \A name \in Hosts :
        StartsWith(lower(name), Prefix) /\ EndsWith(lower(name), Suffix)
            => Len(Prefix) + Len(Suffix) <= Len(name)

HostInit ==
    /\ host = <<>>
    /\ scope = OtherScope
    /\ urlconf = UrlconfFor("OTHER")

\* PerTenantSessionMiddleware.process_request and HostUrlconfMiddleware.
Serve(name) ==
    /\ host' = name
    /\ scope' = resolve_session_scope(name)
    /\ urlconf' = UrlconfFor(resolve_session_scope(name).host_scope)

Served ==
    /\ host # <<>>
    /\ host' = <<>>
    /\ scope' = OtherScope
    /\ urlconf' = UrlconfFor("OTHER")

HostNext ==
    \/ host = <<>> /\ \E name \in Hosts : Serve(name)
    \/ Served

HostSpec == HostInit /\ [][HostNext]_hostVars

-----------------------------------------------------------------------------
(* A host is a tenant's exactly if it is the template with a slug in it,   *)
(* and then its session is the one of this slug and no other: the handoff  *)
(* arrives at the tenant that the picker named, and two tenants share      *)
(* neither a cookie nor a page (host_resolution.py:110).                   *)
HostNamesOneTenant ==
    LET h == lower(host)
        parts == {SubSeq(h, i, j) : i \in 1 .. Len(h), j \in 1 .. Len(h)}
        named == {s \in parts : IsSlug(s) /\ h = TenantHost(s)}
    IN  IF named = {} \/ h = lower(Root)
        THEN scope.cookie = RootCookie /\ scope.domain = <<>>
                /\ urlconf # "config.urls_tenant"
        ELSE /\ \A s \in named : scope = TenantScope(h, s)
             /\ urlconf = "config.urls_tenant"

=============================================================================
