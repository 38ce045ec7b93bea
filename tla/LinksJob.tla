------------------------------ MODULE LinksJob ------------------------------
(***************************************************************************)
(* The sender's side of a link card: one Job of rust/links/src/job.rs.     *)
(*                                                                         *)
(* A Job never touches the network.  next_request hands the client at most *)
(* one request at a time; the client performs it and reports with an on_*  *)
(* call carrying the request's id; finish assembles the preview, when      *)
(* next_request has nothing more or when the client's time is up.  Answers *)
(* may come late or twice.                                                 *)
(*                                                                         *)
(* A field records how much it is worth and the host it came from.  The    *)
(* text of a title is reduced to whether anything visible is left of it    *)
(* once the receiver has stripped what it does not display.                *)
(***************************************************************************)
EXTENDS LinksRegistry, SequencesExt

CONSTANTS
    Links,      \* the URLs a user may type
    Locations,  \* the URLs a short link may lead to
    Memos,      \* the reachability memos a job may start from: sets of hosts
    Regions     \* the sender's region

MAX_METADATA_REQUESTS == 3

Contexts == [region : Regions, expand : BOOLEAN, memo : Memos]

VARIABLES
    job,        \* the Job
    outcome,    \* what finish returned, if it was called
    seen        \* requests handed out, as an observer counts them

vars == <<job, outcome, seen>>

PlainTarget           == [t |-> "plain"]
Generic(url, claimed) == [t |-> "generic", fetch |-> url, claimed |-> claimed]
FirstParty(m)         == [t |-> "first-party", provider |-> TELLOMI, route |-> m.route,
                          canonical |-> <<m.canonical>>, viaHttp |-> FALSE]
Provider(p, r, canonical, viaHttp) ==
    [t |-> "provider", provider |-> p, route |-> r, canonical |-> canonical, viaHttp |-> viaHttp]

Expand      == [s |-> "expand", i |-> 0]
GenericPage == [s |-> "page", i |-> 0]
AskClient   == [s |-> "first-party", i |-> 0]
Plan(i)     == [s |-> "plan", i |-> i]
PlanSteps(p, r) == [i \in DOMAIN Route(p, r).plan |-> Plan(i)]

NewJob(url, ctx) ==
    [ url |-> url, ctx |-> ctx, target |-> PlainTarget, queue |-> << >>, pending |-> << >>,
      nextId |-> 1, metadata |-> 0, unreachable |-> ctx.memo, newUnreachable |-> {},
      title |-> << >>, image |-> << >>, attrs |-> {},
      imageDecided |-> FALSE, imageOk |-> FALSE, firstPartyFailed |-> FALSE,
      groupInvalid |-> FALSE, finished |-> FALSE ]

-----------------------------------------------------------------------------
(***************************************************************************)
(* Fields.                                                                 *)
(***************************************************************************)
Better(new, old) == Some(old) => old[1].conf = "low" /\ new.conf = "object"

\* offer: a better source replaces a worse one; the first value of an attribute stays.
OfferTitle(j, v) == IF Better(v, j.title) THEN [j EXCEPT !.title = <<v>>] ELSE j
OfferImage(j, v) == IF Better(v, j.image) THEN [j EXCEPT !.image = <<v>>] ELSE j
OfferAttrs(j, names, src) ==
    [j EXCEPT !.attrs = @ \union { [name |-> n, src |-> src] : n \in
                                     {n \in names : \A a \in j.attrs : a.name # n} }]

Title(conf, src, visible) == [conf |-> conf, src |-> src, visible |-> visible]
Image(conf, src)          == [conf |-> conf, src |-> src]

\* The values of one API response, URL template or first-party answer, all of
\* them about the object itself.
OfferObject(j, names, src, visible) ==
    LET withTitle == IF "title" \in names THEN OfferTitle(j, Title("object", src, visible)) ELSE j
        withImage == IF "image" \in names THEN OfferImage(withTitle, Image("object", src))
                                          ELSE withTitle
    IN  OfferAttrs(withImage, names \ {"title", "image"}, src)

AttrNames(j) == { a.name : a \in j.attrs }

HasRoute(j) == j.target.t = "first-party" \/ (j.target.t = "provider" /\ j.target.route # 0)
TheRoute(j) == Route(j.target.provider, j.target.route)

ObjectFields(j) ==
    AttrNames(j) \union
    (IF Some(j.title) /\ j.title[1].conf = "object" THEN {"title"} ELSE {}) \union
    (IF Some(j.image) /\ j.image[1].conf = "object" THEN {"image"} ELSE {})

\* Job::meets_required(image_downloaded)
JobMeetsRequired(j, imageDownloaded) ==
    /\ HasRoute(j)
    /\ MeetsRequired(TheRoute(j).kind,
                     IF imageDownloaded /\ ~ j.imageOk THEN ObjectFields(j) \ {"image"}
                                                       ELSE ObjectFields(j))

CanBeStructured(j) ==
    /\ j.target.t = "provider" /\ j.target.route # 0
    /\ Providers[j.target.provider].tier # "brand"
    /\ IsStructured(j.target.provider, j.target.route)

-----------------------------------------------------------------------------
(***************************************************************************)
(* Planning: Registry::begin.                                              *)
(***************************************************************************)
SwitchToGeneric(j, url) ==
    [j EXCEPT !.target = Generic(url, << >>), !.queue = <<GenericPage>>]

SwitchToClaimed(j, url) ==
    [j EXCEPT !.target = Generic(url, <<j.target>>), !.queue = <<GenericPage>>]

SetProviderTarget(j, p, url) ==
    LET m == MatchUrl(p, url)
        r == m.route
        k == [j EXCEPT !.target = Provider(p, r, <<m.canonical>>, ~ url.https)]
    IN  IF r = 0 THEN k
        ELSE LET a == OfferAttrs(k, Route(p, r).attrs, "registry")
             IN  IF Providers[p].tier # "brand" /\ IsStructured(p, r)
                 THEN [a EXCEPT !.queue = @ \o PlanSteps(p, r)]
                 ELSE a

BeginFirstParty(j) ==
    LET m == MatchUrl(TELLOMI, j.url)
        r == m.route
        k == [j EXCEPT !.target = FirstParty(m)]
        route == Route(TELLOMI, r)
    IN  CASE r = 0                      -> j
          [] r # 0 /\ route.degraded    -> j
          [] r # 0 /\ ~ route.degraded /\ route.kind = "tellomi.user" ->
                OfferTitle(k, Title("object", "url", TRUE))
          [] r # 0 /\ ~ route.degraded /\ route.kind = "tellomi.official" ->
                [k EXCEPT !.queue = PlanSteps(TELLOMI, r)]
          [] OTHER ->
                IF \E i \in DOMAIN route.plan : route.plan[i].type = "first-party"
                THEN [k EXCEPT !.queue = <<AskClient>>]
                ELSE j

Begin(url, ctx) ==
    LET j == NewJob(url, ctx)
        p == ProviderForHost(url.host)
        away == UnreachableFrom(p, ctx.region)
    IN  IF ~ url.https \/ Role(url.host) = "lookalike" THEN j
        ELSE IF IsFirstPartyUrl(url) THEN BeginFirstParty(j)
        ELSE IF p = NoProvider THEN SwitchToGeneric(j, url)
        ELSE IF Role(url.host) = "short"
             THEN [j EXCEPT !.target = Provider(p, 0, << >>, FALSE),
                            !.queue  = IF ctx.expand THEN <<Expand>> ELSE << >>]
        ELSE IF Providers[p].tier = "claimed"
             THEN LET k == SetProviderTarget(j, p, url)
                  IN  IF away THEN k ELSE SwitchToClaimed(k, url)
        ELSE IF MatchUrl(p, url).route = 0 /\ Providers[p].fallback /\ ~ away
             THEN SwitchToGeneric(j, url)
        ELSE SetProviderTarget(j, p, url)

-----------------------------------------------------------------------------
(***************************************************************************)
(* Asking: next_request.                                                   *)
(***************************************************************************)

CanFetch(j, host) == host \notin j.unreachable /\ j.metadata < MAX_METADATA_REQUESTS

Ask(j, kind, plan, host) ==
    [j EXCEPT !.nextId  = @ + 1,
              !.pending = <<[id |-> j.nextId, kind |-> kind, plan |-> plan, host |-> host]>>]

\* Faulty variant: a short-link expansion does not count.
FetchUncounted(j, kind, plan, host) ==
    IF ~ CanFetch(j, host) THEN j
    ELSE IF kind = "expand" THEN Ask(j, kind, plan, host)
    ELSE [Ask(j, kind, plan, host) EXCEPT !.metadata = @ + 1]

\* A request that counts against MAX_METADATA_REQUESTS.
Fetch(j, kind, plan, host) ==
    IF CanFetch(j, host) THEN [Ask(j, kind, plan, host) EXCEPT !.metadata = @ + 1] ELSE j

AskFirstParty(j) == IF HasRoute(j) THEN Ask(j, "first-party", 0, "client") ELSE j

IssuePlan(j, i) ==
    LET step == TheRoute(j).plan[i]
        host == IF step.type = "og+jsonld" THEN j.target.canonical[1].host ELSE step.host
        skip == \/ JobMeetsRequired(j, FALSE) /\ j.target.t # "first-party"
                \/ j.target.viaHttp
                \/ UnreachableFrom(j.target.provider, j.ctx.region)
    IN  CASE ~ HasRoute(j)              -> j
          [] step.type = "none"         -> [j EXCEPT !.queue = << >>]
          [] step.type = "url-only"     -> OfferObject(j, step.gives, "url", TRUE)
          [] step.type = "first-party"  -> AskFirstParty(j)
          [] OTHER -> IF skip THEN j
                      ELSE Fetch(j, IF step.type = "og+jsonld" THEN "page" ELSE "json", i, host)

Issue(j, step) ==
    CASE step.s = "expand" ->
            IF UnreachableFrom(j.target.provider, j.ctx.region) THEN j
            ELSE Fetch(j, "expand", 0, j.url.host)
      [] step.s = "page" ->
            IF j.target.t = "generic" THEN Fetch(j, "page", 0, j.target.fetch.host) ELSE j
      [] step.s = "first-party" -> AskFirstParty(j)
      [] step.s = "plan" -> IssuePlan(j, step.i)

\* One turn of the loop that pops the queue until a step has issued a request.
PopStep(j, _step) ==
    IF Some(j.pending) \/ j.queue = << >> THEN j
    ELSE Issue([j EXCEPT !.queue = Tail(@)], Head(j.queue))

ImageWanted(j) ==
    CASE j.target.t = "generic"     -> Some(j.target.claimed) => Some(j.title)
      [] j.target.t = "first-party" -> TheRoute(j).kind = "tellomi.official"
      [] j.target.t = "provider"    -> CanBeStructured(j) /\ JobMeetsRequired(j, FALSE)
      [] j.target.t = "plain"       -> FALSE

ImageRequest(j) ==
    IF j.imageDecided THEN j
    ELSE LET d == [j EXCEPT !.imageDecided = TRUE]
         IN  IF ImageWanted(d) /\ Some(d.image) THEN Ask(d, "image", 0, d.image[1].src) ELSE d

AfterNextRequest(j) ==
    LET popped == FoldLeft(PopStep, j, j.queue)
    IN  IF Some(popped.pending) THEN popped ELSE ImageRequest(popped)

Fetches == {"expand", "page", "json"}

Counted(j) ==
    IF ~ Some(j.pending) THEN seen
    ELSE [seen EXCEPT !.fetches = IF j.pending[1].kind \in Fetches THEN @ + 1 ELSE @,
                      !.images  = IF j.pending[1].kind = "image" THEN @ + 1 ELSE @]

\* next_request; it returns None and changes nothing while a request is
\* unanswered or once the job is finished.
NextRequest ==
    /\ ~ job.finished /\ ~ Some(job.pending)
    /\ job' = AfterNextRequest(job)
    /\ seen' = Counted(job')
    /\ UNCHANGED outcome

-----------------------------------------------------------------------------
(***************************************************************************)
(* Answers.  Each handler takes the pending request out first, if the id   *)
(* is its own; an answer to any other request changes nothing.             *)
(***************************************************************************)

TakePending(j, id) ==
    IF Some(j.pending) /\ j.pending[1].id = id THEN j.pending ELSE << >>

Answered(id) ==
    /\ id \in 1 .. job.nextId - 1
    /\ UNCHANGED <<outcome, seen>>

\* The handlers act on the job with nothing pending.
Rest == [job EXCEPT !.pending = << >>]

OnNetworkError(id) ==
    LET taken == TakePending(job, id)
        kind  == taken[1].kind
        host  == taken[1].host
    IN  /\ Answered(id)
        /\ job' = IF ~ Some(taken) THEN job
                  ELSE IF kind = "first-party" THEN [Rest EXCEPT !.firstPartyFailed = TRUE]
                  ELSE IF kind = "image" THEN Rest
                  ELSE [Rest EXCEPT !.unreachable    = @ \union {host},
                                    !.newUnreachable = @ \union ({host} \ job.unreachable)]

OnFailure(id) ==
    LET taken == TakePending(job, id)
    IN  /\ Answered(id)
        /\ job' = IF ~ Some(taken) THEN job
                  ELSE IF taken[1].kind = "first-party"
                  THEN [Rest EXCEPT !.firstPartyFailed = TRUE]
                  ELSE Rest

OnFirstParty(id, ok, invalid, names, visible) ==
    LET taken == TakePending(job, id)
    IN  /\ Answered(id)
        /\ job' = IF ~ Some(taken) THEN job
                  ELSE IF taken[1].kind # "first-party" THEN Rest
                  ELSE IF ~ ok
                  THEN [Rest EXCEPT !.firstPartyFailed = TRUE,
                                    !.groupInvalid = invalid /\ TheRoute(job).kind = "tellomi.group"]
                  ELSE OfferObject(Rest, names, "client", visible)

OnImage(id, ok) ==
    LET taken == TakePending(job, id)
    IN  /\ Answered(id)
        /\ job' = IF ~ Some(taken) THEN job
                  ELSE IF taken[1].kind # "image" THEN Rest
                  ELSE [Rest EXCEPT !.imageOk = ok]

\* on_expanded: the Location must stay with the short link's own provider and
\* must not be a short link again.
OnExpanded(j, location) ==
    LET p    == j.target.provider
        next == location[1]
        away == UnreachableFrom(p, j.ctx.region)
    IN  IF ~ Some(location) THEN j
        ELSE IF ~ Owns(p, next.host) \/ Role(next.host) = "short" THEN j
        ELSE IF Providers[p].tier = "claimed"
             THEN LET k == SetProviderTarget(j, p, next)
                  IN  IF next.https /\ ~ away THEN SwitchToClaimed(k, next) ELSE k
        ELSE IF MatchUrl(p, next).route = 0 /\ Providers[p].fallback /\ next.https /\ ~ away
             THEN SwitchToGeneric(j, next)
        ELSE SetProviderTarget(j, p, next)

\* Faulty variant: a claimed page may end anywhere.
AllowedAnyClaimed(j, plan, host) ==
    CASE j.target.t = "generic"     -> plan = 0
      [] j.target.t = "first-party" -> plan # 0 /\ Role(host) = "official"
      [] j.target.t = "provider"    -> plan # 0 /\ InDomains(j.target.provider, host)
      [] j.target.t = "plain"       -> FALSE

AllowedFinalHost(j, plan, host) ==
    CASE j.target.t = "generic" ->
            plan = 0 /\ (Some(j.target.claimed) => InDomains(j.target.claimed[1].provider, host))
      [] j.target.t = "first-party" -> plan # 0 /\ Role(host) = "official"
      [] j.target.t = "provider"    -> plan # 0 /\ InDomains(j.target.provider, host)
      [] j.target.t = "plain"       -> FALSE

\* The page offers what it says of the object first and its <title> last; a
\* page without a usable og:image offers an icon, but only to an empty slot.
OnPage(j, plan, host, title, visible, ogImage, attrs) ==
    LET a == OfferAttrs(j, attrs, host)
        b == IF title = "none" THEN a ELSE OfferTitle(a, Title(title, host, visible))
    IN  IF ~ AllowedFinalHost(j, plan, host) THEN j
        ELSE IF ogImage THEN OfferImage(b, Image("object", host))
        ELSE IF ~ Some(b.image) THEN OfferImage(b, Image("low", host))
        ELSE b

OnJson(j, host, names, visible) ==
    IF ~ InApiHosts(j.target.provider, host) THEN j ELSE OfferObject(j, names, host, visible)

PlanGives(j, plan) == IF plan = 0 THEN {} ELSE TheRoute(j).plan[plan].gives

\* on_response.  An unusable response (status, content type, size, parse
\* error, a last hop that is not https) leaves the fields as they are.
OnResponse(id) ==
    LET taken == TakePending(job, id)
        kind  == taken[1].kind
        plan  == taken[1].plan
    IN  /\ Answered(id)
        /\ \/ ~ Some(taken) /\ UNCHANGED job
           \/ Some(taken) /\ kind \in Fetches /\ job' = Rest
           \/ /\ Some(taken) /\ kind = "expand"
              /\ \E location \in Locations : job' = OnExpanded(Rest, <<location>>)
           \/ /\ Some(taken) /\ kind = "page"
              /\ \E host \in DOMAIN Hosts, title \in {"none", "low", "object"}, visible \in BOOLEAN,
                    ogImage \in BOOLEAN,
                    attrs \in SUBSET (PlanGives(job, plan) \ {"title", "image"}) :
                    job' = OnPage(Rest, plan, host, title, visible, ogImage, attrs)
           \/ /\ Some(taken) /\ kind = "json"
              /\ \E host \in DOMAIN Hosts, names \in SUBSET PlanGives(job, plan),
                    visible \in BOOLEAN :
                    job' = OnJson(Rest, host, names, visible)
           \/ /\ Some(taken) /\ kind = "first-party"
              /\ job' = [Rest EXCEPT !.firstPartyFailed = TRUE]
           \/ /\ Some(taken) /\ kind = "image"
              /\ \E ok \in BOOLEAN : job' = [Rest EXCEPT !.imageOk = ok]

-----------------------------------------------------------------------------
(***************************************************************************)
(* Assembling: finish.  Levels are ordered as the ladder of card.rs.       *)
(***************************************************************************)
PlainLinkLevel  == 0
GenericLevel    == 1
BrandLevel      == 2
StructuredLevel == 3
FirstPartyLevel == 4

Outcome(level, provider, kind, preview) ==
    [level |-> level, provider |-> provider, kind |-> kind, preview |-> preview]

Rich(provider, kind, canonical, attrs, level) ==
    [ provider |-> provider, kind |-> kind, attrs |-> attrs, level |-> level,
      canonical |-> IF Some(canonical) /\ ~ canonical[1].long THEN canonical ELSE << >> ]

Preview(j, visible, image, rich) ==
    <<[url |-> j.url, title |-> visible, image |-> image, rich |-> rich]>>

\* A claimed page that gave no title becomes its provider's brand shell.
FallBack(j) ==
    IF ~ Some(j.title) /\ j.target.t = "generic" /\ Some(j.target.claimed)
    THEN [j EXCEPT !.target = j.target.claimed[1], !.imageOk = FALSE]
    ELSE j

FirstPartyOutcome(j) ==
    LET kind     == TheRoute(j).kind
        official == kind = "tellomi.official"
        \* official and call cards have a title of their own
        titled   == Some(j.title) \/ official
                        \/ (kind = "tellomi.call" /\ ~ j.firstPartyFailed)
        present  == AttrNames(j) \union (IF titled THEN {"title"} ELSE {})
        visible  == Some(j.title) => j.title[1].visible
        rich     == Rich(TELLOMI, kind, j.target.canonical, AttrNames(j), StructuredLevel)
    IN  IF (~ official /\ j.firstPartyFailed) \/ ~ MeetsRequired(kind, present) \/ ~ titled
        THEN Outcome(PlainLinkLevel, TELLOMI, kind, << >>)
        ELSE Outcome(FirstPartyLevel, TELLOMI, kind,
                     Preview(j, visible, official /\ j.imageOk, <<rich>>))

ProviderOutcome(j) ==
    LET p    == j.target.provider
        kind == KindOf(p, j.target.route)
        \* without a title of its own the card shows the platform's name
        visible(mayName) == Some(j.title) /\ mayName => j.title[1].visible
        rich(attrs, level) == Rich(p, kind, j.target.canonical, attrs, level)
    IN  IF CanBeStructured(j) /\ JobMeetsRequired(j, TRUE)
        THEN Outcome(StructuredLevel, p, kind,
                     Preview(j, visible(TRUE), j.imageOk,
                             <<rich(AttrNames(j), StructuredLevel)>>))
        ELSE Outcome(BrandLevel, p, kind,
                     Preview(j, visible(Providers[p].tier \notin {"brand", "claimed"}), FALSE,
                             <<rich({}, BrandLevel)>>))

Assemble(j) ==
    CASE j.target.t = "plain"       -> Outcome(PlainLinkLevel, NoProvider, "none", << >>)
      [] j.target.t = "generic"     ->
            IF Some(j.title)
            THEN Outcome(GenericLevel, NoProvider, "none",
                         Preview(j, j.title[1].visible, j.imageOk, << >>))
            ELSE Outcome(PlainLinkLevel, NoProvider, "none", << >>)
      [] j.target.t = "first-party" -> FirstPartyOutcome(j)
      [] j.target.t = "provider"    -> ProviderOutcome(j)

\* A lexicon hit in any text voids the card; the provider and kind stay.
Policy(out, hit) ==
    IF hit /\ Some(out.preview) THEN [out EXCEPT !.level = PlainLinkLevel, !.preview = << >>]
    ELSE out

\* finish: once, after next_request returned None or when the budget ran out.
Finish(hit) ==
    /\ ~ job.finished
    /\ job' = [FallBack(job) EXCEPT !.finished = TRUE, !.pending = << >>]
    /\ outcome' = <<Policy(Assemble(job'), hit)>>
    /\ UNCHANGED seen

-----------------------------------------------------------------------------
Init ==
    /\ \E url \in Links, ctx \in Contexts : job = Begin(url, ctx)
    /\ outcome = << >>
    /\ seen = [fetches |-> 0, images |-> 0]

Answer(id) ==
    \/ OnNetworkError(id)
    \/ OnFailure(id)
    \/ \E ok, invalid, visible \in BOOLEAN, names \in SUBSET {"title", "count"} :
          OnFirstParty(id, ok, invalid, names, visible)
    \/ \E ok \in BOOLEAN : OnImage(id, ok)
    \/ OnResponse(id)

Next ==
    \/ NextRequest
    \/ \E id \in 1 .. job.nextId - 1 : Answer(id)
    \/ \E hit \in BOOLEAN : Finish(hit)

Spec == Init /\ [][Next]_vars

-----------------------------------------------------------------------------

(***************************************************************************)
(* One link costs at most three metadata requests, short-link expansion    *)
(* included, and one image request, over every plan, redirect and failure  *)
(* (the budget of limits.rs).                                              *)
(***************************************************************************)
RequestBudget == seen.fetches <= MAX_METADATA_REQUESTS /\ seen.images <= 1

=============================================================================
