---------------------------- MODULE LinksReceiver ----------------------------
(***************************************************************************)
(* The receiver's side of a link card, Registry::classify of               *)
(* rust/links/src/classify.rs, composed with the sender's job: the preview *)
(* a job's finish put together is read with the same registry.  The        *)
(* receiver trusts nothing the sender wrote: provider, kind and level are  *)
(* recomputed from the URL in the message.                                 *)
(***************************************************************************)
EXTENDS LinksJob

Card(level, provider, kind, image) ==
    [level |-> level, provider |-> provider, kind |-> kind, image |-> image]

PlainCard == Card(PlainLinkLevel, NoProvider, "none", FALSE)

\* The generic card of the snapshot, if it says anything.
GenericCard(preview) ==
    IF preview.title THEN Card(GenericLevel, NoProvider, "none", preview.image) ELSE PlainCard

\* A claimed provider's page is the snapshot, or the brand shell without a title.
ClaimedCard(preview, p, r) ==
    IF preview.title THEN GenericCard(preview) ELSE Card(BrandLevel, p, KindOf(p, r), FALSE)

FirstPartyCard(preview) ==
    LET r     == MatchUrl(TELLOMI, preview.url).route
        route == Route(TELLOMI, r)
        shows == route.kind \in {"tellomi.group", "tellomi.sticker"}
    IN  IF r = 0 THEN PlainCard
        ELSE IF route.degraded \/ (shows /\ ~ preview.title) THEN PlainCard
        ELSE Card(FirstPartyLevel, TELLOMI, route.kind, shows /\ preview.image)

\* match_parsed for a provider's route, 0 where a short link or none matches.
RouteOf(p, url) == IF Role(url.host) = "short" THEN 0 ELSE MatchUrl(p, url).route

\* The route the receiver settles on: a short link's comes from canonical_url.
LocalRoute(preview, p) ==
    LET canonical == preview.rich[1].canonical IN
    IF Role(preview.url.host) # "short" THEN RouteOf(p, preview.url)
    ELSE IF Some(canonical) THEN RouteOf(p, Parsed(canonical[1])) ELSE 0

\* canonical_url is parsed and matched again: it must be the same provider's
\* and, unless the link is short, of the same kind as the link.
CanonicalAgrees(preview, p) ==
    LET canonical == preview.rich[1].canonical IN
    Some(canonical) =>
        /\ ProviderForHost(canonical[1].host) = p
        /\ Role(canonical[1].host) # "short"
        /\ Role(preview.url.host) = "short"
              \/ KindOf(p, RouteOf(p, Parsed(canonical[1]))) = KindOf(p, RouteOf(p, preview.url))

RichCard(preview, p) ==
    LET rich    == preview.rich[1]
        r       == LocalRoute(preview, p)
        present == {"title"} \union rich.attrs \union (IF preview.image THEN {"image"} ELSE {})
        structured ==
            /\ Providers[p].tier # "brand"
            /\ r # 0 /\ IsStructured(p, r) /\ MeetsRequired(KindOf(p, r), present)
            /\ rich.level = StructuredLevel
    IN  IF \/ rich.provider # p
           \/ ~ CanonicalAgrees(preview, p)
           \/ rich.kind # KindOf(p, r)
        THEN GenericCard(preview)
        ELSE IF ~ preview.title THEN PlainCard
        ELSE IF structured THEN Card(StructuredLevel, p, rich.kind, preview.image)
        ELSE Card(BrandLevel, p, rich.kind, FALSE)

Classify(preview) ==
    LET url == preview.url
        p   == ProviderForHost(url.host)
        claimed == Providers[p].tier = "claimed" /\ Role(url.host) # "short"
    IN  IF ~ url.https \/ Role(url.host) = "lookalike" THEN PlainCard
        ELSE IF IsFirstPartyUrl(url) THEN FirstPartyCard(preview)
        ELSE IF p = NoProvider THEN GenericCard(preview)
        ELSE IF Some(preview.rich) THEN RichCard(preview, p)
        ELSE IF claimed THEN ClaimedCard(preview, p, RouteOf(p, url))
        ELSE GenericCard(preview)

Sent == Some(outcome) /\ Some(outcome[1].preview)
TheCard == Classify(outcome[1].preview[1])

(***************************************************************************)
(* "Whatever a sender produces, a receiver on the same registry lands on   *)
(* the same level" (rust/links/tests/receive.rs:188).  The code does not   *)
(* keep this promise: SameCard names the cases.                            *)
(***************************************************************************)
SameLevel == Sent => TheCard.level = outcome[1].level

\* The canonical URL that is sent reads the same when it is matched again: its
\* host is not rewritten once more, and its path has no dot segments.
Settled(p, canonical) ==
    /\ canonical.host \notin DOMAIN Providers[p].hostRewrite
    /\ canonical.path \notin DOMAIN DotPaths

(***************************************************************************)
(* Sender and receiver agree on level, provider, kind and on whether an    *)
(* image is shown, whatever answers the job got and wherever it stopped:   *)
(* hash routes, rewritten hosts and stripped parameters give a canonical   *)
(* URL that classify matches again as begin or on_expanded matched the     *)
(* link.  Four cases are apart: a title with nothing visible in it; a      *)
(* short link whose canonical URL is too long to send; a canonical URL     *)
(* that is not Settled, for load rule L4 lets host_rewrite lead to a host  *)
(* that is rewritten again, and parsing resolves the dot segments of a     *)
(* path that came from a fragment; and the image of an official page,      *)
(* which finish sends and classify hides.                                  *)
(***************************************************************************)
SameCard ==
    LET out == outcome[1]
        preview == out.preview[1]
        canonical == job.target.canonical
        matched == job.target.t = "provider" /\ Some(canonical)
    IN  /\ Sent /\ preview.title
        /\ matched => IF canonical[1].long THEN Role(job.url.host) # "short"
                      ELSE Settled(job.target.provider, canonical[1])
        => /\ TheCard.level = out.level
           /\ TheCard.provider = out.provider
           /\ TheCard.kind = out.kind
           /\ out.kind # "tellomi.official" => TheCard.image = preview.image

(***************************************************************************)
(* A card that names a platform carries only what that platform's own      *)
(* hosts said: whatever redirects a page or an API answer went through,    *)
(* the fields of a structured card, and of a claimed page, come from the   *)
(* URL, the registry, the provider's domains or its API hosts; those of a  *)
(* first-party card come from the URL, the client or an official host.     *)
(***************************************************************************)
FieldSources == { a.src : a \in job.attrs }
                  \union { job.title[i].src : i \in DOMAIN job.title }
                  \union { job.image[i].src : i \in DOMAIN job.image }

OwnWords ==
    /\ job.target.t = "first-party" =>
          \A src \in FieldSources : src \in {"url", "client"} \/ Role(src) = "official"
    /\ \A p \in DOMAIN Providers :
          \/ job.target.t = "provider" /\ job.target.provider = p
          \/ job.target.t = "generic" /\ Some(job.target.claimed)
                /\ job.target.claimed[1].provider = p
          => \A src \in FieldSources :
                src \in {"url", "registry"} \/ InDomains(p, src) \/ InApiHosts(p, src)
=============================================================================
