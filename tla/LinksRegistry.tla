--------------------------- MODULE LinksRegistry ---------------------------
(***************************************************************************)
(* The provider registry of the link cards as the sender and the receiver  *)
(* consult it: who owns a host, which route a URL matches, and which       *)
(* fields a kind of card requires (rust/links registry.rs, kinds.rs).      *)
(*                                                                         *)
(* A URL is [host, path, query, fragment, https, long] as parsing leaves   *)
(* it.  A path is a token, which route patterns list; a query is the set   *)
(* of its parameters that some route or strip_params names; `long` says    *)
(* that its canonical form is over MAX_CANONICAL_URL_CHARS.  A fragment,   *)
(* if there is one, is [slash, path, query]: `slash` says that it begins   *)
(* with '/', and a hash_route provider then reads a path and a query in    *)
(* it.  Captures, values and the reserved paths are part of the tokens.    *)
(***************************************************************************)
EXTENDS Naturals, Sequences, FiniteSets, TLC

CONSTANTS
    Hosts,      \* [host -> [owner, role]]
    Providers,  \* [provider -> [tier, fallback, unreachableIn, hostRewrite, hashRoute, strip, routes]]
    DotPaths    \* [path -> path]: paths with dot segments, and what parsing makes of them

\* Option::None is << >> and Some(x) is <<x>>.
Some(x) == x # << >>

NoProvider == "no provider"

\* The only provider that may be first-party.
TELLOMI == "tellomi"

HostRoles == {"domain", "short", "official", "api", "lookalike", "other"}
Tiers == {"first-party", "structured", "brand", "claimed"}
PlanTypes == {"url-only", "public-api", "oembed", "og+jsonld", "first-party", "none"}

\* What each kind requires, as the alternatives of which one must be complete.
\* Coordinates stand for the three attributes lat, lng and coord_sys.
Required ==
    [ k \in {"video", "app"}                               |-> {{"title", "image"}} ] @@
    [ k \in {"channel", "music", "repo",
             "tellomi.group", "tellomi.sticker"}           |-> {{"title"}} ] @@
    [ k \in {"place"}                                      |-> {{"coordinates"}, {"name"}} ] @@
    [ k \in {"tellomi.user", "tellomi.call", "tellomi.official",
             "article", "product", "payment", "web"}       |-> {{}} ]

Kinds == DOMAIN Required
FirstPartyKinds == {"tellomi.user", "tellomi.group", "tellomi.call", "tellomi.sticker",
                    "tellomi.official"}
Reserved == {"article", "product", "payment", "web"}

\* KindDef::meets_required, of the set of fields that are present.
MeetsRequired(kind, present) == \E group \in Required[kind] : group \subseteq present

Role(host)  == Hosts[host].role

\* provider_for_host: api hosts and look-alikes are nobody's.
ProviderForHost(host) ==
    IF Role(host) \in {"domain", "short", "official"} THEN Hosts[host].owner ELSE NoProvider

\* Provider::owns
Owns(p, host) == ProviderForHost(host) = p

\* host_in(host, provider.domains) and provider.api_hosts.contains(host)
InDomains(p, host)  == Hosts[host] = [owner |-> p, role |-> "domain"]
InApiHosts(p, host) == Hosts[host] = [owner |-> p, role |-> "api"]

IsFirstPartyUrl(url) == url.https /\ ProviderForHost(url.host) = TELLOMI

Route(p, r) == Providers[p].routes[r]

\* Route::is_structured
IsStructured(p, r) ==
    /\ ~ Route(p, r).degraded
    /\ Route(p, r).kind \notin Reserved
    /\ \E i \in DOMAIN Route(p, r).plan : Route(p, r).plan[i].type # "none"

KindOf(p, r) == IF r = 0 THEN "web" ELSE Route(p, r).kind

UnreachableFrom(p, region) == region \in Providers[p].unreachableIn

-----------------------------------------------------------------------------
(***************************************************************************)
(* Matching a URL of a host the provider owns and that is not short.       *)
(***************************************************************************)
HostRewrite(p, host) ==
    IF host \in DOMAIN Providers[p].hostRewrite THEN Providers[p].hostRewrite[host] ELSE host

\* What match_url reads a URL as: the host rewritten, once; the path and query a
\* hash route has in its fragment; tracking parameters gone.
Read(p, url) ==
    LET hashed == Providers[p].hashRoute /\ Some(url.fragment) /\ url.fragment[1].slash
        from   == IF hashed THEN url.fragment[1] ELSE url
    IN  [url EXCEPT !.host = HostRewrite(p, url.host), !.path = from.path,
                    !.query = from.query \ Providers[p].strip,
                    !.fragment = IF hashed THEN << >> ELSE @]

\* A route without a host is for the provider's domains only.
RouteMatches(p, route, read) ==
    /\ IF Some(route.host) THEN route.host[1] = read.host ELSE InDomains(p, read.host)
    /\ read.path \in route.paths
    /\ route.query \subseteq read.query
    /\ Some(route.fragment) => Some(read.fragment) /\ read.fragment[1].path \in route.fragment[1]

\* The first route that matches, 0 for none.
FirstRoute(p, read) ==
    LET hits == { r \in DOMAIN Providers[p].routes : RouteMatches(p, Route(p, r), read) }
    IN  IF hits = {} THEN 0 ELSE CHOOSE r \in hits : \A other \in hits : r <= other

\* RouteMatch.canonical is always https and has no fragment.
RouteMatch(route, read) ==
    [route |-> route, canonical |-> [read EXCEPT !.fragment = << >>, !.https = TRUE]]

\* Faulty variant: the routes are tried on the host as it was typed.
MatchTypedHost(p, url) ==
    LET read == Read(p, url)
    IN  RouteMatch(FirstRoute(p, [read EXCEPT !.host = url.host]), read)

MatchUrl(p, url) == RouteMatch(FirstRoute(p, Read(p, url)), Read(p, url))

\* parse_web_url of a canonical URL, which is a string when it is read again.
Parsed(url) == [url EXCEPT !.path = IF @ \in DOMAIN DotPaths THEN DotPaths[@] ELSE @]

-----------------------------------------------------------------------------
(***************************************************************************)
(* The load rules the other modules rely on, by the names the Loader gives *)
(* them.  L5, L6 and L20, about patterns and the placeholders of           *)
(* templates, have nothing to speak about here.                            *)
(***************************************************************************)

\* L13, of providers: by id, never by tier.
FirstPartyRule ==
    \A p \in DOMAIN Providers : (Providers[p].tier = "first-party") <=> (p = TELLOMI)

\* L13, of official domains, and L22, of tellomi's short domains.
HostRules ==
    \A h \in DOMAIN Hosts :
        /\ Role(h) \in HostRoles
        /\ Role(h) = "official" => Hosts[h].owner = TELLOMI
        /\ Hosts[h].owner = TELLOMI => Role(h) # "short"

\* L4, of host_rewrite: both sides are in domains.  The target of one rewriting
\* may be the source of another.
RewriteRule ==
    \A p \in DOMAIN Providers : \A h \in DOMAIN Providers[p].hostRewrite :
        InDomains(p, h) /\ InDomains(p, HostRewrite(p, h))

\* L24: only a structured provider falls back to generic.
FallbackRule ==
    \A p \in DOMAIN Providers : Providers[p].fallback => Providers[p].tier = "structured"

\* L9, of API plans: they only talk to api_hosts.
PlanHostRule(p, step) == step.type \in {"public-api", "oembed"} => InApiHosts(p, step.host)

\* L10, L9 and L21, of one step of a plan.
PlanRules(p, route, step) ==
    /\ Providers[p].tier \in {"brand", "claimed"} => step.type = "none"
    /\ step.type = "first-party" => p = TELLOMI
    /\ p = TELLOMI => step.type \notin {"public-api", "oembed"}
    /\ p = TELLOMI /\ step.type = "og+jsonld" =>
          Some(route.host) /\ Role(route.host[1]) = "official"

\* L7, L4, L13 and L9, of one route.
RouteRules(p, route) ==
    /\ (route.kind \in FirstPartyKinds) => p = TELLOMI
    /\ Some(route.host) =>
          Hosts[route.host[1]] \in [owner : {p}, role : {"domain", "official"}]
    /\ Some(route.fragment) => p = TELLOMI
    /\ Providers[p].tier \in {"structured", "first-party"} => route.plan # << >>
    /\ \A i \in DOMAIN route.plan :
          PlanRules(p, route, route.plan[i]) /\ PlanHostRule(p, route.plan[i])

\* compile_route: a degraded route has no plan left, and a route of a reserved
\* kind with a plan is degraded.
Compiled(route) ==
    LET plans == { route.plan[i].type : i \in DOMAIN route.plan }
    IN  /\ route.kind \in Kinds
        /\ plans \subseteq PlanTypes
        /\ route.degraded => plans = {"none"}
        /\ route.kind \in Reserved => plans \subseteq {"none"}

ASSUME RegistryAssumption ==
    /\ FirstPartyRule /\ HostRules /\ RewriteRule /\ FallbackRule
    /\ \A p \in DOMAIN Providers :
          /\ Providers[p].tier \in Tiers
          /\ \A r \in DOMAIN Providers[p].routes : RouteRules(p, Route(p, r)) /\ Compiled(Route(p, r))
=============================================================================
