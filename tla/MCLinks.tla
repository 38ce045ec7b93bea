------------------------------ MODULE MCLinks ------------------------------
(***************************************************************************)
(* A small registry for model checking: one provider of every tier, with   *)
(* short domains, API hosts, every type of plan step and one plan that is  *)
(* longer than the request budget, and a provider ("mus") with hash        *)
(* routes, a tracking parameter and hosts that are rewritten twice, beside *)
(* a host nobody owns and a look-alike.                                    *)
(***************************************************************************)
EXTENDS LinksReceiver

MCHosts ==
    LET host(owner, role) == [owner |-> owner, role |-> role] IN
    [ tell    |-> host(TELLOMI, "domain"),  official |-> host(TELLOMI, "official"),
      vid     |-> host("vid", "domain"),    vidM     |-> host("vid", "domain"),
      vidShort |-> host("vid", "short"),    vidApi   |-> host("vid", "api"),
      brand   |-> host("brd", "domain"),    claim    |-> host("clm", "domain"),
      claimShort |-> host("clm", "short"),  musA     |-> host("mus", "domain"),
      musB    |-> host("mus", "domain"),    musC     |-> host("mus", "domain"),
      musShort |-> host("mus", "short"),
      web     |-> host(NoProvider, "other"), fake    |-> host(NoProvider, "lookalike") ]

MCDotPaths == [dotted |-> "song"]

MCProviders ==
    LET step(type, gives) == [type |-> type, host |-> "vidApi", gives |-> gives]
        none              == <<step("none", {})>>
        route(path, kind, plan) ==
            [ host |-> << >>, paths |-> {path}, query |-> {}, fragment |-> << >>,
              kind |-> kind, degraded |-> FALSE, attrs |-> {}, plan |-> plan ]
        provider(tier, fallback, away, routes) ==
            [ tier |-> tier, fallback |-> fallback, unreachableIn |-> away, hostRewrite |-> << >>,
              hashRoute |-> FALSE, strip |-> {}, routes |-> routes ]
    IN
    ( TELLOMI :> provider("first-party", FALSE, {},
          << route("name", "tellomi.user", <<step("first-party", {})>>),
             [route("g", "tellomi.group", <<step("first-party", {})>>)
                 EXCEPT !.fragment = <<{"group"}>>],
             [route("help", "tellomi.official", <<step("og+jsonld", {})>>)
                 EXCEPT !.host = <<"official">>],
             route("call", "tellomi.call", <<step("first-party", {})>>) >>) ) @@
    ( "vid" :> [provider("structured", TRUE, {"cn"},
          << [route("watch", "video", <<step("public-api", {"title", "image"}),
                                        step("og+jsonld", {"title", "image"})>>)
                 EXCEPT !.host = <<"vid">>],
             [route("place", "place", <<step("url-only", {"coordinates"}),
                                        step("og+jsonld", {"name"})>>)
                 EXCEPT !.attrs = {"address"}],
             route("repo", "repo", <<step("oembed", {"title"}), step("public-api", {"title"}),
                                     step("og+jsonld", {}), step("none", {}), step("oembed", {})>>),
             [route("old", "channel", none) EXCEPT !.degraded = TRUE],
             [route("watch", "channel", none) EXCEPT !.host = <<"vidM">>] >>)
          EXCEPT !.hostRewrite = [vidM |-> "vid"]] ) @@
    ( "mus" :> [provider("structured", FALSE, {},
          << [route("song", "music", <<step("og+jsonld", {"title"})>>) EXCEPT !.query = {"id"}],
             [route("album", "channel", <<step("og+jsonld", {"title"})>>)
                 EXCEPT !.host = <<"musB">>] >>)
          EXCEPT !.hostRewrite = [musA |-> "musB", musB |-> "musC"],
                 !.hashRoute = TRUE, !.strip = {"utm"}] ) @@
    ( "brd" :> provider("brand", FALSE, {}, <<route("item", "article", none)>>) ) @@
    ( "clm" :> provider("claimed", FALSE, {"cn"}, <<route("item", "product", none)>>) )

Url(host, path) ==
    [ host |-> host, path |-> path, query |-> {}, fragment |-> << >>, https |-> TRUE, long |-> FALSE ]
Hash(path, query)     == <<[slash |-> TRUE, path |-> path, query |-> query]>>
Song(host, query)     == [Url(host, "song") EXCEPT !.query = query]
HashSong(host, query) == [Url(host, "root") EXCEPT !.fragment = Hash("song", query)]
Dotted(host)          == [Url(host, "root") EXCEPT !.fragment = Hash("dotted", {"id"})]

MCLinkUrls ==
    { Url("tell", path) : path \in {"root", "name", "call", "g"} } \union
    { [Url("tell", "g") EXCEPT !.fragment = <<[slash |-> FALSE, path |-> "group", query |-> {}]>>],
      Url("official", "help"), Url("official", "name") } \union
    { Url("vid", path) : path \in {"root", "watch", "place", "repo", "old"} } \union
    { Url("vidM", "watch"), [Url("vid", "place") EXCEPT !.long = TRUE] } \union
    { Song("musC", {"id", "utm"}), HashSong("musC", {"id", "utm"}), HashSong("musB", {"utm"}),
      Url("musA", "album"), Url("musB", "album"), Dotted("musC"), Url("musShort", "root") } \union
    { Url("vidShort", "root"), Url("brand", "root"), Url("brand", "item"), Url("claim", "root"),
      Url("claim", "item"), Url("claimShort", "root"), Url("web", "root"), Url("fake", "root") } \union
    { [Url("vid", "watch") EXCEPT !.https = FALSE] }

\* A short link leads to its own provider, to a short link again, or elsewhere.
MCLocations ==
    { Url("vid", path) : path \in {"root", "watch", "place", "repo"} } \union
    { Url("vidM", "watch"), Url("claim", "root"), Url("claim", "item"), Url("vidShort", "root"),
      Url("web", "root"), HashSong("musC", {"id", "utm"}), Url("musA", "album") } \union
    { [Url("vid", "watch") EXCEPT !.https = FALSE], [Url("claim", "item") EXCEPT !.https = FALSE],
      [Url("vid", "place") EXCEPT !.long = TRUE] }

MCMemos == { {}, {"vidApi"}, {"vid"} }
=============================================================================
