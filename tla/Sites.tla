--------------------------------- MODULE Sites ---------------------------------
(***************************************************************************)
(* What the static sites answer: the Pages middlewares of the bridge, the  *)
(* explorer and the tour, and the tour's preview server.  A path is a      *)
(* network prefix (a lookalike such as /testnetwork counts as prefixed,    *)
(* see startsWith) and the place of its dots: in the extension of the last *)
(* segment, at the beginning of it, or in a directory.  What files a site  *)
(* has matters only for the path asked for and for the same path below the *)
(* network of the subdomain.                                               *)
(***************************************************************************)
EXTENDS Naturals, Sequences

VARIABLES req,     \* the request
          served,  \* the path asked from the assets, NoPath before
          status   \* of the answer, 0 before

Network == {"testnet", "signet"}
Prefix  == Network \cup {"none"}
Dots    == {"none", "extension", "hidden", "directory"}
NoPath  == <<>>

\* A path as the prefixes put before the rest; a request has one at most.
Path(prefix, dots, name) == [prefixes |-> IF prefix = "none" THEN <<>> ELSE <<prefix>>, dots |-> dots, name |-> name]

\* A request, whether the path it asks for is a file (here), whether that path below
\* the network of the subdomain is one (there), and whether its percent encoding is
\* malformed: nothing is found under such a name.
Request == {r \in [site : {"bridge", "explorer", "tour", "preview"}, host : Prefix, prefix : Prefix, dots : Dots,
                   here : BOOLEAN, there : BOOLEAN, malformed : BOOLEAN] :
              r.malformed => ~r.here /\ ~r.there}

TypeOK ==
  /\ req \in Request
  /\ status \in {0, 200, 404, 500}
  /\ served = NoPath \/ served.dots \in Dots

Init ==
  /\ req \in Request
  /\ served = NoPath /\ status = 0

Asked == Path(req.prefix, req.dots, "asked")
Index == Path("none", "extension", "index")

\* The prefix of the subdomain's network goes before a path that does not have it.
Rewrite(host, p) ==
  IF host = "none" \/ (p.prefixes # <<>> /\ p.prefixes[1] = host) THEN p
  ELSE [p EXCEPT !.prefixes = <<host>> \o @]

\* The files of the site: the tour has its index.html.
IsFile(p) == IF p = Index THEN TRUE ELSE IF p = Asked THEN req.here ELSE req.there

\* The asset lookup of Pages, for the path the middleware passes on.
Lookup(p) == IF IsFile(p) THEN 200 ELSE 404

Bridge ==
  /\ req.site = "bridge"
  /\ served' = Rewrite(req.host, Asked)
  /\ status' = Lookup(served')

\* Assets, by their dot, are not rewritten.
ExplorerPath == IF req.dots = "none" THEN Rewrite(req.host, Asked) ELSE Asked

Explorer ==
  /\ req.site = "explorer"
  /\ served' = ExplorerPath
  /\ status' = Lookup(served')

\* The middleware: a path without a dot that is not found is answered by index.html.
TourFallback(p) == IF p.dots = "none" /\ Lookup(p) = 404 THEN Index ELSE p

Tour ==
  /\ req.site = "tour"
  /\ served' = TourFallback(Asked)
  /\ status' = Lookup(served')

\* The preview server asks extname, which sees a dot only inside the last segment.
PreviewFallback(p) == IF p.dots # "extension" /\ ~IsFile(p) THEN Index ELSE p

\* It decodes the path first, and answers 500 if that throws.
Preview ==
  /\ req.site = "preview"
  /\ \/ /\ req.malformed
        /\ served' = NoPath /\ status' = 500
     \/ /\ ~req.malformed
        /\ served' = PreviewFallback(Asked)
        /\ status' = Lookup(served')

Next == status = 0 /\ UNCHANGED req /\ (Bridge \/ Explorer \/ Tour \/ Preview)

Spec == Init /\ [][Next]_<<req, served, status>>

-----------------------------------------------------------------------------
\* "to avoid loops": a rewritten path carries the prefix of the subdomain's network
\* once, also when the link already had it, and pages of a network come from it.
PrefixedOnce ==
  status # 0 /\ req.host # "none" /\ (req.site = "bridge" \/ (req.site = "explorer" /\ req.dots = "none")) =>
    /\ served.prefixes[1] = req.host
    /\ \A i \in 2 .. Len(served.prefixes) : served.prefixes[i] # req.host

\* The assets the explorer's pages name are shared by its networks: no subdomain
\* makes a link to them miss.
AssetsAreShared == status # 0 /\ req.site = "explorer" /\ req.dots # "none" => served = Asked

\* A refreshed or old deep link of the tour loads the tour, also one that cannot be
\* decoded; only the preview refuses the latter.
DeepLinkLoads ==
  /\ status # 0 /\ req.site = "tour" /\ req.dots = "none" => status = 200
  /\ status # 0 /\ req.site = "preview" /\ req.dots = "none" => status = IF req.malformed THEN 500 ELSE 200

\* The preview shows what the site shows of a path that can be decoded, the same file
\* or the same fallback.  The converse fails: nothing is found at a path with a dot in
\* a directory or at the beginning of the name, and the preview answers it by
\* index.html, the site by 404.
PreviewShowsWhatShips ==
  ~req.malformed /\ Lookup(TourFallback(Asked)) = 200 => PreviewFallback(Asked) = TourFallback(Asked)

-----------------------------------------------------------------------------
\* The inductive invariant: what is served follows from the request.
Served ==
  CASE req.site = "bridge"   -> Rewrite(req.host, Asked)
    [] req.site = "explorer" -> ExplorerPath
    [] req.site = "tour"     -> TourFallback(Asked)
    [] req.site = "preview"  -> PreviewFallback(Asked)

IInv ==
  /\ TypeOK
  /\ status # 0 => IF req.site = "preview" /\ req.malformed
                   THEN status = 500
                   ELSE served = Served /\ status = Lookup(Served)
=============================================================================
