---------------------------- MODULE ReleaseProxy ----------------------------
(***************************************************************************)
(* The download proxy of tars.meeet.world: onRequest and fetchAsset of     *)
(* experiments/neural-showcase-v3/functions/dl/[file].ts, over the GitHub  *)
(* releases it serves from and the edge cache of its two look-ups.         *)
(*                                                                         *)
(* A release is not there at once: the workflow creates it on its tag and  *)
(* uploads the assets, and requests come meanwhile. The model allows more  *)
(* than release-desktop-tagged.yml does: drafts, which a person may make,  *)
(* and any order and subset of the uploads, which its action decides.      *)
(***************************************************************************)
EXTENDS Naturals, Sequences, FiniteSetsExt

CONSTANTS
    Versions,    \* SUPPORTED_VERSIONS
    Latest,      \* the version of LATEST_TAG
    Aliased,     \* the version ROSETTA_ALIASES names
    Installers,  \* the platform artifacts considered, as [kind, version]
    PerPage,     \* releases in one listing
    MaxReleases  \* bound on the releases made

VARIABLES
    rels,   \* the releases of the repository, oldest first
    byTag,  \* version -> the cached answer of the by-tag look-up
    list,   \* the cached answer of the listing
    request \* the request being served, and its response

vars == <<rels, byTag, list, request>>

-----------------------------------------------------------------------------
(* Files, releases, types                                                  *)

Installer(kind, v) == [kind |-> kind, version |-> v]
Manifest == [kind |-> "latest.json", version |-> Latest]
Files == Installers \union {Manifest}

\* platformArtifactsForVersion makes all the installers of a supported version.
Bounds ==
    /\ MaxReleases \in Nat
    /\ Latest \in Versions
    /\ \A f \in Installers : f.version \in Versions
    /\ Installer("x64", Aliased) \in Installers => Installer("aarch64", Aliased) \in Installers

\* The most the workflow uploads to a release of v; the manifest only while the
\* signing keys are set.
FilesOf(v) == {f \in Installers : f.version = v} \union {Manifest}

Release == [version : Versions, tagged : BOOLEAN, assets : SUBSET Files]

Assets == (1..MaxReleases) \X Files
Answer == [cached : BOOLEAN, assets : SUBSET Assets]

\* refused: 404, 405, 502 or 503. from: the release a response was taken from, 0
\* for none.
Response == {"none", "served", "redirected", "refused"}
Request == [pc : {"idle", "byTag", "list"}, file : Files, want : Files,
            response : Response, from : 0..MaxReleases]

TypeOK ==
    /\ rels \in Seq(Release) /\ Len(rels) <= MaxReleases
    /\ byTag \in [Versions -> Answer]
    /\ list \in Answer
    /\ request \in Request

Tag(f) == f.version

AssetsOf(rs) == {a \in rs \X Files : a[2] \in rels[a[1]].assets}

\* What GitHub would answer now: drafts have no tag; the newest come first.
ByTagNow(v) == AssetsOf({r \in DOMAIN rels : rels[r].version = v /\ rels[r].tagged})
ListNow == AssetsOf({r \in DOMAIN rels : r + PerPage > Len(rels)})

Hits(assets, f) == {r \in 1..MaxReleases : <<r, f>> \in assets}

\* Mutant: the first release listed wins.
RankedByAge(hits, v) == Max(hits)

\* The first of the ranked releases: those of the tag first, newest first.
Ranked(hits, v) ==
    LET matching == {r \in hits : rels[r].version = v}
    IN  Max(IF matching # {} THEN matching ELSE hits)

Empty == [cached |-> FALSE, assets |-> {}]

-----------------------------------------------------------------------------
(* The repository and the edge                                             *)

\* releaseDraft is false in the workflow; a draft is made by hand.
CreateRelease(v) ==
    /\ Len(rels) < MaxReleases
    /\ \E tagged \in BOOLEAN :
         /\ tagged => \A r \in DOMAIN rels : ~(rels[r].version = v /\ rels[r].tagged)
         /\ rels' = Append(rels, [version |-> v, tagged |-> tagged, assets |-> {}])
    /\ UNCHANGED <<byTag, list, request>>

\* Nothing says that every file comes.
Upload(r, f) ==
    /\ f \in FilesOf(rels[r].version) \ rels[r].assets
    /\ rels' = [rels EXCEPT ![r].assets = @ \union {f}]
    /\ UNCHANGED <<byTag, list, request>>

\* PROXY_CACHE_SECONDS pass.
Expire ==
    /\ \/ \E v \in Versions :
            byTag[v].cached /\ byTag' = [byTag EXCEPT ![v] = Empty] /\ UNCHANGED list
       \/ list.cached /\ list' = Empty /\ UNCHANGED byTag
    /\ UNCHANGED <<rels, request>>

-----------------------------------------------------------------------------
(* onRequest                                                               *)

Respond(response, from) ==
    request' = [request EXCEPT !.pc = "idle", !.want = request.file, !.response = response,
                               !.from = from]

\* A request of an allowed file, refused if its method is another than GET and
\* HEAD, or while GITHUB_RELEASE_TOKEN is not set.
Ask(f) ==
    /\ request.pc = "idle"
    /\ \E refused \in BOOLEAN :
         request' = [pc |-> IF refused THEN "idle" ELSE "byTag", file |-> f, want |-> f,
                     response |-> IF refused THEN "refused" ELSE "none", from |-> 0]
    /\ UNCHANGED <<rels, byTag, list>>

\* The asset is release r's: redirect to an alias, or serve it, if GitHub does.
Found(r) ==
    IF request.want # request.file THEN Respond("redirected", 0)
    ELSE Respond("served", r) \/ Respond("refused", 0)

\* Look for the alias of a missing file, or give up.
NotFound ==
    IF request.want = Installer("x64", Aliased)
    THEN request' = [request EXCEPT !.pc = "byTag", !.want = Installer("aarch64", Aliased)]
    ELSE Respond("refused", 0)

\* An answer from the cache, or from GitHub, which may fail; it is cached.
Looked(cache, now) == IF cache.cached THEN {cache.assets} ELSE {now, {}}

LookByTag ==
    LET v == Tag(request.file)
    IN  /\ request.pc = "byTag"
        /\ \E assets \in Looked(byTag[v], ByTagNow(v)) :
             /\ byTag' = [byTag EXCEPT ![v] = [cached |-> TRUE, assets |-> assets]]
             /\ \/ \E r \in Hits(assets, request.want) : Found(r)
                \/ Hits(assets, request.want) = {} /\ request' = [request EXCEPT !.pc = "list"]
        /\ UNCHANGED <<rels, list>>

LookInList ==
    /\ request.pc = "list"
    /\ \E assets \in Looked(list, ListNow) :
         LET hits == Hits(assets, request.want)
         IN  /\ list' = [cached |-> TRUE, assets |-> assets]
             /\ IF hits # {} THEN Found(Ranked(hits, Tag(request.file))) ELSE NotFound
    /\ UNCHANGED <<rels, byTag>>

-----------------------------------------------------------------------------
Init ==
    /\ rels = <<>>
    /\ byTag = [v \in Versions |-> Empty]
    /\ list = Empty
    /\ request = [pc |-> "idle", file |-> Manifest, want |-> Manifest, response |-> "none",
                  from |-> 0]

Next ==
    \/ Expire \/ LookByTag \/ LookInList
    \/ \E v \in Versions : CreateRelease(v)
    \/ \E r \in DOMAIN rels, f \in Files : Upload(r, f)
    \/ \E f \in Files : Ask(f)

Spec == Init /\ [][Next]_vars

-----------------------------------------------------------------------------
(* Properties                                                              *)

\* "preferring ones whose name/tag matches the requested tag" ([file].ts:198):
\* whatever is stale, half-uploaded or on a draft, a file is served from another
\* version's release only if no release of its own, in the listing used, has it.
PrefersItsTag ==
    request.response = "served" /\ rels[request.from].version # Tag(request.file) =>
        \A r \in Hits(list.assets, request.file) : rels[r].version # Tag(request.file)
=============================================================================
