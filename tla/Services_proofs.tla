--------------------------- MODULE Services_proofs ---------------------------
(***************************************************************************)
(* Proofs about Services, for every value of its constants that meets      *)
(* ServicesBounds: one inductive invariant per service, shown of the steps *)
(* of the service and then, by the lemmas Alone, of all of them side by    *)
(* side.                                                                   *)
(*                                                                         *)
(* Release: by-tag answers hold assets of the tag's releases only, and the *)
(* listing assets of releases there are. Receipts: while no call was       *)
(* cancelled, a call that is not idle holds the lock and what it made      *)
(* links to the newest row. Roots: a job past its memo carries the root    *)
(* the memo carries. Events: what a POST was accepted for has arrived, and *)
(* a replay's queue holds only events there are. Cowork: a call between    *)
(* its two writes is the only winner of its handoff, which nobody revoked  *)
(* or moved. Cron: nothing between the first local time looked at and the  *)
(* one the walk has reached matches. Outreach: what was sent today and the *)
(* calls that may yet send are within the cap and the calls there are.     *)
(* Agents: while nothing failed, a running task has a run.                 *)
(***************************************************************************)
EXTENDS Services, FiniteSetTheorems, WellFoundedInduction, TLAPS

-----------------------------------------------------------------------------
(* Numbers                                                                 *)

\* A set of numbers up to n that is not empty has a largest member.
LEMMA LargestOf ==
    ASSUME NEW n \in Nat, NEW S, S \subseteq 1..n, S # {}
    PROVE  \E x \in S : \A z \in S : x >= z
<1> DEFINE T == {n - x : x \in S}
<1>1. T \subseteq Nat /\ T # {}
  <2>1. \A x \in S : n - x \in Nat
    OBVIOUS
  <2> QED
    BY <2>1
<1>2. PICK y \in T : \A z \in T : ~(<<z, y>> \in OpToRel(<, Nat))
  BY <1>1, NatLessThanWellFounded, WFMin
<1>3. PICK x \in S : y = n - x
  BY <1>2
<1>4. ASSUME NEW z \in S, ~(x >= z) PROVE FALSE
  <2>1. n - z \in Nat /\ y \in Nat /\ n - z < y /\ n - z \in T
    BY <1>1, <1>3, <1>4
  <2>2. <<n - z, y>> \in OpToRel(<, Nat)
    BY <2>1 DEF OpToRel
  <2> QED
    BY <1>2, <2>1, <2>2
<1> QED
  BY <1>4

\* A set of numbers that is not empty has a least member.
LEMMA LeastOf ==
    ASSUME NEW S, S \subseteq Nat, S # {}
    PROVE  \E x \in S : \A y \in S : x <= y
<1>1. PICK x \in S : \A y \in S : ~(<<y, x>> \in OpToRel(<, Nat))
  BY NatLessThanWellFounded, WFMin
<1>2. ASSUME NEW y \in S, ~(x <= y) PROVE FALSE
  <2>1. y \in Nat /\ x \in Nat /\ y < x
    BY <1>2
  <2>2. <<y, x>> \in OpToRel(<, Nat)
    BY <2>1 DEF OpToRel
  <2> QED
    BY <1>1, <2>2
<1> QED
  BY <1>2

LEMMA OldestIsMember ==
    ASSUME NEW S, S \subseteq Nat, S # {}
    PROVE  Events!Min(S) \in S
BY LeastOf DEF Events!Min

LEMMA LeastFacts ==
    ASSUME NEW S, S \subseteq Nat, S # {}
    PROVE  Cron!Least(S) \in S /\ \A y \in S : Cron!Least(S) <= y
BY LeastOf DEF Cron!Least

-----------------------------------------------------------------------------
(* The download proxy                                                      *)

\* The by-tag answer of a version has assets of releases of that version only.
ByTagIsOwn ==
    \A v \in Versions : \A a \in byTag[v].assets : a[1] \in DOMAIN rels /\ rels[a[1]].version = v

\* The listing has assets of releases there are.
ListIsKnown == \A a \in list.assets : a[1] \in DOMAIN rels

\* A file was served from a release there is.
ServedIsKnown == request.response = "served" => request.from \in DOMAIN rels

\* A request being served has no response.
PendingIsBlank == request.pc # "idle" => request.response = "none"

ReleaseInv ==
    Release!TypeOK /\ ByTagIsOwn /\ ListIsKnown /\ ServedIsKnown /\ PendingIsBlank
    /\ Release!PrefersItsTag

LEMMA LargestIsMember ==
    ASSUME NEW n \in Nat, NEW S, S \subseteq 1..n, S # {}
    PROVE  Release!Max(S) \in S
BY LargestOf DEF Release!Max

\* Files have versions, and a missing file's alias is a file.
LEMMA FileFacts ==
    ASSUME Release!Bounds
    PROVE  /\ MaxReleases \in Nat
           /\ Release!Manifest \in Release!Files
           /\ \A f \in Release!Files : Release!Tag(f) \in Versions
           /\ Release!Installer("x64", Aliased) \in Release!Files =>
                  Release!Installer("aarch64", Aliased) \in Release!Files
<1>1. Release!Installer("x64", Aliased) # Release!Manifest
  BY DEF Release!Installer, Release!Manifest
<1> QED
  BY <1>1 DEF Release!Bounds, Release!Files, Release!Manifest, Release!Tag

\* Fields of the state, by their types.
LEMMA RelsType ==
    ASSUME Release!Bounds, Release!TypeOK
    PROVE  /\ Len(rels) \in Nat /\ Len(rels) <= MaxReleases /\ DOMAIN rels = 1..Len(rels)
           /\ \A r \in DOMAIN rels : /\ r \in 1..MaxReleases
                                     /\ rels[r].version \in Versions
                                     /\ rels[r].assets \subseteq Release!Files
<1>1. /\ Len(rels) \in Nat /\ Len(rels) <= MaxReleases /\ DOMAIN rels = 1..Len(rels)
      /\ \A r \in DOMAIN rels : rels[r] \in Release!Release
  BY DEF Release!TypeOK
<1>2. \A r \in DOMAIN rels : r \in 1..MaxReleases
  BY <1>1 DEF Release!Bounds
<1>3. \A x \in Release!Release : x.version \in Versions /\ x.assets \subseteq Release!Files
  BY DEF Release!Release
<1> QED
  BY <1>1, <1>2, <1>3

\* An answer from now on has assets of releases there are, of the type it has.
LEMMA NowFacts ==
    ASSUME Release!Bounds, Release!TypeOK
    PROVE  /\ \A v : /\ Release!ByTagNow(v) \subseteq Release!Assets
                     /\ \A a \in Release!ByTagNow(v) : /\ a[1] \in DOMAIN rels
                                                       /\ rels[a[1]].version = v
           /\ Release!ListNow \subseteq Release!Assets
           /\ \A a \in Release!ListNow : a[1] \in DOMAIN rels
<1>1. ASSUME NEW rs \in SUBSET DOMAIN rels
      PROVE  /\ Release!AssetsOf(rs) \subseteq Release!Assets
             /\ \A a \in Release!AssetsOf(rs) : a[1] \in rs
  BY RelsType DEF Release!AssetsOf, Release!Assets
<1>2. ASSUME NEW v
      PROVE  /\ Release!ByTagNow(v) \subseteq Release!Assets
             /\ \A a \in Release!ByTagNow(v) : a[1] \in DOMAIN rels /\ rels[a[1]].version = v
  <2> DEFINE rs == {r \in DOMAIN rels : rels[r].version = v /\ rels[r].tagged}
  <2>1. rs \in SUBSET DOMAIN rels /\ \A r \in rs : rels[r].version = v
    OBVIOUS
  <2>2. Release!ByTagNow(v) = Release!AssetsOf(rs)
    BY DEF Release!ByTagNow
  <2> HIDE DEF rs
  <2> QED
    BY <1>1, <2>1, <2>2
<1>3. /\ Release!ListNow \subseteq Release!Assets
      /\ \A a \in Release!ListNow : a[1] \in DOMAIN rels
  <2> DEFINE rs == {r \in DOMAIN rels : r + PerPage > Len(rels)}
  <2>1. rs \in SUBSET DOMAIN rels
    OBVIOUS
  <2>2. Release!ListNow = Release!AssetsOf(rs)
    BY DEF Release!ListNow
  <2> HIDE DEF rs
  <2> QED
    BY <1>1, <2>1, <2>2
<1> QED
  BY <1>2, <1>3

\* What a response leaves: the file asked for, and its own fields.
LEMMA RespondFacts ==
    ASSUME Release!TypeOK, NEW response \in Release!Response, NEW from \in 0..MaxReleases,
           Release!Respond(response, from)
    PROVE  /\ request' \in Release!Request
           /\ request'.pc = "idle" /\ request'.file = request.file
           /\ request'.response = response /\ request'.from = from
BY DEF Release!TypeOK, Release!Request, Release!Respond

LEMMA FoundFacts ==
    ASSUME Release!Bounds, Release!TypeOK, NEW r \in 1..MaxReleases, Release!Found(r)
    PROVE  /\ request' \in Release!Request
           /\ request'.pc = "idle" /\ request'.file = request.file
           /\ request'.response = "served" => request'.from = r /\ request.want = request.file
<1>1. {"served", "redirected", "refused"} \subseteq Release!Response
  BY DEF Release!Response
<1>2. r \in 0..MaxReleases /\ 0 \in 0..MaxReleases
  BY FileFacts
<1>3. CASE request.want # request.file /\ Release!Respond("redirected", 0)
  BY <1>1, <1>2, <1>3, RespondFacts
<1>4. CASE request.want = request.file /\ Release!Respond("served", r)
  BY <1>1, <1>2, <1>4, RespondFacts
<1>5. CASE request.want = request.file /\ Release!Respond("refused", 0)
  BY <1>1, <1>2, <1>5, RespondFacts
<1> QED
  BY <1>3, <1>4, <1>5 DEF Release!Found

LEMMA NotFoundFacts ==
    ASSUME Release!Bounds, Release!TypeOK, Release!NotFound
    PROVE  /\ request' \in Release!Request
           /\ request'.file = request.file
           /\ \/ request'.pc = "byTag" /\ request'.response = request.response
              \/ request'.pc = "idle" /\ request'.response = "refused"
<1>1. CASE request' = [request EXCEPT !.pc = "byTag",
                                      !.want = Release!Installer("aarch64", Aliased)]
           /\ request.want = Release!Installer("x64", Aliased)
  BY <1>1, FileFacts DEF Release!TypeOK, Release!Request
<1>2. CASE Release!Respond("refused", 0)
  <2>1. "refused" \in Release!Response /\ 0 \in 0..MaxReleases
    BY FileFacts DEF Release!Response
  <2> QED
    BY <1>2, <2>1, RespondFacts
<1> QED
  BY <1>1, <1>2 DEF Release!NotFound

\* Where releases keep their versions and stay, and no request changes, what was
\* served stays well served.
LEMMA ReleaseFrame ==
    ASSUME Release!Bounds, ReleaseInv,
           \A r \in DOMAIN rels : r \in DOMAIN rels' /\ rels'[r].version = rels[r].version,
           \A v \in Versions : byTag'[v].assets \subseteq byTag[v].assets,
           list'.assets \subseteq list.assets,
           request' = request
    PROVE  ByTagIsOwn' /\ ListIsKnown' /\ ServedIsKnown' /\ PendingIsBlank'
           /\ Release!PrefersItsTag'
<1>1. ByTagIsOwn' /\ ListIsKnown' /\ ServedIsKnown' /\ PendingIsBlank'
  BY DEF ReleaseInv, ByTagIsOwn, ListIsKnown, ServedIsKnown, PendingIsBlank
<1>2. ASSUME request.response = "served",
             rels'[request.from].version # Release!Tag(request.file),
             NEW r \in 1..MaxReleases, <<r, request.file>> \in list'.assets
      PROVE  rels'[r].version # Release!Tag(request.file)
  <2>1. request.from \in DOMAIN rels /\ <<r, request.file>> \in list.assets
    BY <1>2 DEF ReleaseInv, ServedIsKnown
  <2>2. r \in DOMAIN rels /\ r \in Release!Hits(list.assets, request.file)
    BY <2>1 DEF ReleaseInv, ListIsKnown, Release!Hits
  <2> QED
    BY <1>2, <2>1, <2>2 DEF ReleaseInv, Release!PrefersItsTag
<1>3. Release!PrefersItsTag'
  BY <1>2 DEF Release!PrefersItsTag, Release!Hits, Release!Tag
<1> QED
  BY <1>1, <1>3

LEMMA CreateReleaseStep ==
    ASSUME Release!Bounds, ReleaseInv, NEW v \in Versions, Release!CreateRelease(v)
    PROVE  ReleaseInv'
<1>1. PICK tagged \in BOOLEAN :
          rels' = Append(rels, [version |-> v, tagged |-> tagged, assets |-> {}])
  BY DEF Release!CreateRelease
<1> DEFINE new == [version |-> v, tagged |-> tagged, assets |-> {}]
<1>2. new \in Release!Release
  BY DEF Release!Release
<1>3. /\ Len(rels) \in Nat /\ Len(rels) < MaxReleases /\ rels \in Seq(Release!Release)
      /\ rels' = Append(rels, new)
  BY <1>1 DEF Release!CreateRelease, ReleaseInv, Release!TypeOK
<1> HIDE DEF new
<1>4. /\ rels' \in Seq(Release!Release) /\ Len(rels') <= MaxReleases
      /\ \A r \in DOMAIN rels : r \in DOMAIN rels' /\ rels'[r] = rels[r]
  BY <1>2, <1>3 DEF Release!Bounds
<1>5. UNCHANGED <<byTag, list, request>>
  BY DEF Release!CreateRelease
<1>6. Release!TypeOK'
  BY <1>4, <1>5 DEF ReleaseInv, Release!TypeOK
<1> QED
  BY <1>4, <1>5, <1>6, ReleaseFrame DEF ReleaseInv

LEMMA UploadStep ==
    ASSUME Release!Bounds, ReleaseInv, NEW r \in DOMAIN rels, NEW f \in Release!Files,
           Release!Upload(r, f)
    PROVE  ReleaseInv'
<1>1. /\ rels \in Seq(Release!Release) /\ Len(rels) <= MaxReleases
      /\ rels' = [rels EXCEPT ![r].assets = @ \union {f}]
      /\ UNCHANGED <<byTag, list, request>>
  BY DEF Release!Upload, ReleaseInv, Release!TypeOK
<1>2. rels[r] \in Release!Release
  BY <1>1
<1>3. [rels[r] EXCEPT !.assets = @ \union {f}] \in Release!Release
  BY <1>2 DEF Release!Release
<1>4. /\ rels' \in Seq(Release!Release) /\ Len(rels') <= MaxReleases
      /\ DOMAIN rels' = DOMAIN rels
  BY <1>1, <1>3
<1>5. \A q \in DOMAIN rels : rels'[q].version = rels[q].version
  BY <1>1, <1>2 DEF Release!Release
<1>6. Release!TypeOK'
  BY <1>1, <1>4 DEF ReleaseInv, Release!TypeOK
<1> QED
  BY <1>1, <1>4, <1>5, <1>6, ReleaseFrame DEF ReleaseInv

LEMMA CacheExpireStep ==
    ASSUME Release!Bounds, ReleaseInv, Release!Expire PROVE ReleaseInv'
<1>1. Release!Empty \in Release!Answer /\ Release!Empty.assets = {}
  BY DEF Release!Empty, Release!Answer
<1>2. byTag \in [Versions -> Release!Answer] /\ UNCHANGED <<rels, request>>
  BY DEF ReleaseInv, Release!TypeOK, Release!Expire
<1>3. CASE list' = Release!Empty /\ UNCHANGED byTag
  <2>1. Release!TypeOK'
    BY <1>1, <1>2, <1>3 DEF ReleaseInv, Release!TypeOK
  <2> QED
    BY <1>1, <1>2, <1>3, <2>1, ReleaseFrame DEF ReleaseInv
<1>4. ASSUME NEW v \in Versions, byTag' = [byTag EXCEPT ![v] = Release!Empty], UNCHANGED list
      PROVE  ReleaseInv'
  <2>1. Release!TypeOK'
    BY <1>1, <1>2, <1>4 DEF ReleaseInv, Release!TypeOK
  <2>2. \A w \in Versions : byTag'[w].assets \subseteq byTag[w].assets
    BY <1>1, <1>2, <1>4
  <2> QED
    BY <1>2, <1>4, <2>1, <2>2, ReleaseFrame DEF ReleaseInv
<1> QED
  BY <1>3, <1>4 DEF Release!Expire

LEMMA AskStep ==
    ASSUME Release!Bounds, ReleaseInv, NEW f \in Release!Files, Release!Ask(f)
    PROVE  ReleaseInv'
<1>1. PICK refused \in BOOLEAN :
          request' = [pc |-> IF refused THEN "idle" ELSE "byTag", file |-> f, want |-> f,
                      response |-> IF refused THEN "refused" ELSE "none", from |-> 0]
  BY DEF Release!Ask
<1>2. /\ request' \in Release!Request
      /\ request'.response # "served"
      /\ request'.pc # "idle" => request'.response = "none"
  BY <1>1, FileFacts DEF Release!Request, Release!Response
<1>3. UNCHANGED <<rels, byTag, list>>
  BY DEF Release!Ask
<1>4. Release!TypeOK'
  BY <1>2, <1>3 DEF ReleaseInv, Release!TypeOK
<1> QED
  BY <1>2, <1>3, <1>4 DEF ReleaseInv, ByTagIsOwn, ListIsKnown, ServedIsKnown,
                          PendingIsBlank, Release!PrefersItsTag

LEMMA LookByTagStep ==
    ASSUME Release!Bounds, ReleaseInv, Release!LookByTag PROVE ReleaseInv'
<1> DEFINE v == Release!Tag(request.file)
<1>1. PICK assets \in Release!Looked(byTag[v], Release!ByTagNow(v)) :
          /\ byTag' = [byTag EXCEPT ![v] = [cached |-> TRUE, assets |-> assets]]
          /\ \/ \E r \in Release!Hits(assets, request.want) : Release!Found(r)
             \/ request' = [request EXCEPT !.pc = "list"]
  BY DEF Release!LookByTag
<1>2. /\ UNCHANGED <<rels, list>> /\ request.pc = "byTag" /\ request.response = "none"
      /\ request \in Release!Request /\ byTag \in [Versions -> Release!Answer]
  BY DEF Release!LookByTag, ReleaseInv, PendingIsBlank, Release!TypeOK
<1>3. v \in Versions
  BY <1>2, FileFacts DEF Release!Request
<1>4. assets \subseteq Release!Assets
      /\ \A a \in assets : a[1] \in DOMAIN rels /\ rels[a[1]].version = v
  <2>1. CASE assets = byTag[v].assets
    BY <1>2, <1>3, <2>1 DEF ReleaseInv, ByTagIsOwn, Release!Answer
  <2>2. CASE assets = Release!ByTagNow(v)
    BY <2>2, NowFacts DEF ReleaseInv
  <2> QED
    BY <1>1, <2>1, <2>2 DEF Release!Looked
<1> HIDE DEF v
<1>5. [cached |-> TRUE, assets |-> assets] \in Release!Answer
  BY <1>4 DEF Release!Answer
<1>6. byTag' \in [Versions -> Release!Answer] /\ ByTagIsOwn'
  <2>1. byTag' \in [Versions -> Release!Answer]
    BY <1>1, <1>2, <1>3, <1>5
  <2>2. \A w \in Versions : byTag'[w].assets = IF w = v THEN assets ELSE byTag[w].assets
    BY <1>1, <1>2, <1>3
  <2> QED
    BY <1>2, <1>4, <2>1, <2>2 DEF ReleaseInv, ByTagIsOwn
<1>7. ASSUME request' \in Release!Request
      PROVE  Release!TypeOK' /\ ByTagIsOwn' /\ ListIsKnown'
  BY <1>2, <1>6, <1>7 DEF ReleaseInv, Release!TypeOK, ListIsKnown
<1>8. ASSUME NEW r \in Release!Hits(assets, request.want), Release!Found(r)
      PROVE  ReleaseInv'
  <2>1. r \in 1..MaxReleases /\ <<r, request.want>> \in assets
    BY DEF Release!Hits
  <2>2. r \in DOMAIN rels /\ rels[r].version = v
    BY <1>4, <2>1
  <2>3. /\ request' \in Release!Request
        /\ request'.pc = "idle" /\ request'.file = request.file
        /\ request'.response = "served" => request'.from = r
    BY <1>8, <2>1, FoundFacts DEF ReleaseInv
  <2>4. Release!Tag(request'.file) = v
    BY <2>3 DEF v
  <2> QED
    BY <1>2, <1>7, <2>2, <2>3, <2>4 DEF ReleaseInv, ServedIsKnown, PendingIsBlank,
                                        Release!PrefersItsTag, Release!Tag
<1>9. CASE request' = [request EXCEPT !.pc = "list"]
  <2>1. request' \in Release!Request /\ request'.response = "none"
    BY <1>2, <1>9 DEF Release!Request
  <2> QED
    BY <1>7, <2>1 DEF ReleaseInv, ServedIsKnown, PendingIsBlank, Release!PrefersItsTag
<1> QED
  BY <1>1, <1>8, <1>9

LEMMA LookInListStep ==
    ASSUME Release!Bounds, ReleaseInv, Release!LookInList PROVE ReleaseInv'
<1> DEFINE v == Release!Tag(request.file)
<1>1. PICK assets \in Release!Looked(list, Release!ListNow) :
          LET hits == Release!Hits(assets, request.want)
          IN  /\ list' = [cached |-> TRUE, assets |-> assets]
              /\ IF hits # {} THEN Release!Found(Release!Ranked(hits, v)) ELSE Release!NotFound
  BY DEF Release!LookInList
<1>2. /\ UNCHANGED <<rels, byTag>> /\ request.pc = "list" /\ request.response = "none"
  BY DEF Release!LookInList, ReleaseInv, PendingIsBlank, Release!TypeOK
<1>3. assets \subseteq Release!Assets /\ \A a \in assets : a[1] \in DOMAIN rels
  <2>1. CASE assets = list.assets
    BY <2>1 DEF ReleaseInv, ListIsKnown, Release!TypeOK, Release!Answer
  <2>2. CASE assets = Release!ListNow
    BY <2>2, NowFacts DEF ReleaseInv
  <2> QED
    BY <1>1, <2>1, <2>2 DEF Release!Looked
<1>4. list' \in Release!Answer /\ list'.assets = assets
  BY <1>1, <1>3 DEF Release!Answer
<1>5. ASSUME request' \in Release!Request
      PROVE  Release!TypeOK' /\ ByTagIsOwn' /\ ListIsKnown'
  BY <1>2, <1>3, <1>4, <1>5 DEF ReleaseInv, Release!TypeOK, ByTagIsOwn, ListIsKnown
<1> DEFINE hits == Release!Hits(assets, request.want)
<1>6. hits \subseteq 1..MaxReleases /\ \A r \in hits : r \in DOMAIN rels
  BY <1>3 DEF Release!Hits
<1>7. CASE hits # {} /\ Release!Found(Release!Ranked(hits, v))
  <2> DEFINE matching == {r \in hits : rels[r].version = v}
             best == Release!Ranked(hits, v)
  <2>1. best = Release!Max(IF matching # {} THEN matching ELSE hits)
    BY DEF Release!Ranked
  <2>2. MaxReleases \in Nat
    BY FileFacts
  <2> HIDE DEF hits, best
  <2>3. best \in hits /\ (rels[best].version # v => \A r \in hits : rels[r].version # v)
    <3>1. CASE matching # {}
      <4>1. best \in matching
        BY <1>6, <2>1, <2>2, <3>1, LargestIsMember
      <4> QED
        BY <4>1
    <3>2. CASE matching = {}
      BY <1>6, <1>7, <2>1, <2>2, <3>2, LargestIsMember
    <3> QED
      BY <3>1, <3>2
  <2>4. Release!Found(best) /\ best \in 1..MaxReleases /\ best \in DOMAIN rels
    BY <1>6, <1>7, <2>3 DEF best
  <2>5. /\ request' \in Release!Request
        /\ request'.pc = "idle" /\ request'.file = request.file
        /\ request'.response = "served" => request'.from = best /\ request.want = request.file
    BY <2>4, FoundFacts DEF ReleaseInv
  <2>6. Release!Tag(request'.file) = v
    BY <2>5
  <2>7. request'.response = "served" => Release!Hits(list'.assets, request'.file) = hits
    BY <1>4, <2>5 DEF hits
  <2>8. Release!PrefersItsTag'
    <3>1. Release!PrefersItsTag' <=>
             (request'.response = "served" /\ rels'[request'.from].version # Release!Tag(request'.file) =>
                \A r \in Release!Hits(list'.assets, request'.file) :
                    rels'[r].version # Release!Tag(request'.file))
      BY DEF Release!PrefersItsTag, Release!Hits, Release!Tag
    <3> QED
      BY <1>2, <2>3, <2>5, <2>6, <2>7, <3>1
  <2> QED
    BY <1>2, <1>5, <2>4, <2>5, <2>8 DEF ReleaseInv, ServedIsKnown, PendingIsBlank
<1>8. CASE Release!NotFound
  <2>1. /\ request' \in Release!Request /\ request'.response # "served"
        /\ request'.pc # "idle" => request'.response = "none"
    BY <1>2, <1>8, NotFoundFacts DEF ReleaseInv
  <2> QED
    BY <1>5, <2>1 DEF ReleaseInv, ServedIsKnown, PendingIsBlank, Release!PrefersItsTag
<1> QED
  BY <1>1, <1>7, <1>8

LEMMA ReleaseInvInit == ASSUME Release!Bounds, Release!Init PROVE ReleaseInv
<1>1. rels \in Seq(Release!Release) /\ Len(rels) = 0
  BY DEF Release!Init
<1>2. Release!Empty \in Release!Answer /\ Release!Empty.assets = {}
  BY DEF Release!Empty, Release!Answer
<1>3. /\ byTag \in [Versions -> Release!Answer] /\ \A v \in Versions : byTag[v].assets = {}
      /\ list \in Release!Answer /\ list.assets = {}
  BY <1>2 DEF Release!Init
<1>4. request \in Release!Request /\ request.response = "none"
  BY FileFacts DEF Release!Init, Release!Request, Release!Response
<1>5. Release!TypeOK
  BY <1>1, <1>3, <1>4, FileFacts DEF Release!TypeOK
<1> QED
  BY <1>3, <1>4, <1>5 DEF ReleaseInv, ByTagIsOwn, ListIsKnown, ServedIsKnown, PendingIsBlank,
                          Release!PrefersItsTag

LEMMA ReleaseInvStep ==
    ASSUME Release!Bounds, ReleaseInv, [Release!Next]_(Release!vars) PROVE ReleaseInv'
<1>1. CASE UNCHANGED Release!vars
  <2>1. UNCHANGED <<rels, byTag, list, request>>
    BY <1>1 DEF Release!vars
  <2>2. Release!TypeOK'
    BY <2>1 DEF ReleaseInv, Release!TypeOK
  <2> QED
    BY <2>1, <2>2, ReleaseFrame DEF ReleaseInv
<1> QED
  BY <1>1, CreateReleaseStep, UploadStep, CacheExpireStep, AskStep, LookByTagStep,
     LookInListStep DEF Release!Next

\* A behaviour of the services is one of the proxy.
LEMMA ReleaseAlone == ServicesSpec => Release!Spec
<1>1. ServicesInit => Release!Init
  BY DEF ServicesInit
<1>2. [ServicesNext]_serviceVars => [Release!Next]_(Release!vars)
  BY DEF ServicesNext, serviceVars, ReleaseStep, ReceiptStep, RootStep, EventStep, HandoffStep,
         CronStep, OutreachStep, TaskStep, releaseVars, Release!vars
<1> QED
  BY <1>1, <1>2, PTL DEF ServicesSpec, Release!Spec

\* "preferring ones whose name/tag matches the requested tag" ([file].ts:198): a
\* file comes from another version's release only if no release of its own, in the
\* listing used, has it, whatever was created, uploaded, cached or failed meanwhile.
THEOREM DownloadsPreferTheirTag == ServicesSpec => []PrefersItsTag
<1>1. Release!Init => ReleaseInv
  BY ServicesBounds, ReleaseInvInit
<1>2. ReleaseInv /\ [Release!Next]_(Release!vars) => ReleaseInv'
  BY ServicesBounds, ReleaseInvStep
<1>3. ReleaseInv => PrefersItsTag
  BY DEF ReleaseInv, PrefersItsTag
<1> QED
  BY <1>1, <1>2, <1>3, ReleaseAlone, PTL DEF Release!Spec

-----------------------------------------------------------------------------
(* The ledger                                                              *)

\* p is the newest row, 0 if there is none.
Newest(p) == IF rows = {} THEN p = 0 ELSE p \in rows /\ \A j \in rows : j <= p

\* Line i carries the hash of the newest row before it.
Linked(i) ==
    \/ lines[i].prev = 0 /\ \A j \in rows : ~(j < i)
    \/ /\ lines[i].prev \in rows /\ lines[i].prev < i
       /\ \A j \in rows : j < i => j <= lines[i].prev

Steadied == Receipts!Steady /\ strayed = FALSE

\* Of the rows one is the latest.
RowsEnd == rows # {} => \E m \in rows : \A j \in rows : Receipts!Before(lines[j], lines[m])

RowsOfLines == \A c \in Callers : append[c].pc = "row" => append[c].at \in DOMAIN lines

\* A call that was not cancelled holds the lock, and its line is the newest.
Serial ==
    strayed = FALSE =>
        \A c \in Callers : /\ append[c].pc # "idle" => lock = c
                           /\ append[c].pc = "row" => append[c].at = Len(lines)

\* Of a receipt not yet written, the previous one is the newest row.
MadeGood(c) == append[c].pc = "line" => Newest(append[c].made.prev)
MadeOfNewest == Steadied => \A c \in Callers : MadeGood(c)

AllLinked == Steadied => \A i \in DOMAIN lines : Linked(i)

ReceiptsInv == Receipts!TypeOK /\ RowsEnd /\ RowsOfLines /\ Serial /\ MadeOfNewest /\ AllLinked

-----------------------------------------------------------------------------
(* Facts                                                                   *)

LEMMA LineType ==
    ASSUME Receipts!Bounds, Receipts!TypeOK
    PROVE  /\ Len(lines) \in Nat
           /\ \A i \in DOMAIN lines : i \in Nat /\ 1 <= i /\ i <= Len(lines)
           /\ \A i \in DOMAIN lines : i \in 1..MaxLines
           /\ \A i \in DOMAIN lines : lines[i] \in Receipts!Receipt /\ lines[i].ts \in Nat
           /\ \A j \in rows : j \in DOMAIN lines
<1>1. Len(lines) \in Nat /\ Len(lines) <= MaxLines /\ MaxLines \in Nat
  BY DEF Receipts!Bounds, Receipts!TypeOK
<1>2. \A i \in DOMAIN lines : i \in Nat /\ 1 <= i /\ i <= Len(lines)
  BY DEF Receipts!TypeOK
<1>3. \A i \in DOMAIN lines : lines[i] \in Receipts!Receipt
  BY DEF Receipts!TypeOK
<1>4. \A r \in Receipts!Receipt : r.ts \in Nat
  BY DEF Receipts!Bounds, Receipts!Receipt
<1> QED
  BY <1>1, <1>2, <1>3, <1>4 DEF Receipts!TypeOK

LEMMA ReceiptsIdleType ==
    ASSUME Receipts!Bounds
    PROVE  Receipts!Idle \in Receipts!Call /\ Receipts!Idle.pc = "idle"
BY DEF Receipts!Bounds, Receipts!Idle, Receipts!Call, Receipts!Receipt

\* The row that the store reads is a row, the latest.
LEMMA LastRowIsLatest ==
    ASSUME RowsEnd
    PROVE  IF rows = {} THEN Receipts!LastRow = 0
           ELSE /\ Receipts!LastRow \in rows
                /\ \A j \in rows : Receipts!Before(lines[j], lines[Receipts!LastRow])
BY DEF RowsEnd, Receipts!LastRow

\* With a steady clock the latest row is the newest.
LEMMA LastRowIsNewest ==
    ASSUME Receipts!Bounds, Receipts!TypeOK, RowsEnd, Receipts!Steady
    PROVE  Newest(Receipts!LastRow)
<1>1. CASE rows = {}
  BY <1>1, LastRowIsLatest DEF Newest
<1>2. CASE rows # {}
  <2> SUFFICES ASSUME NEW j \in rows PROVE Receipts!LastRow \in rows /\ j <= Receipts!LastRow
    BY <1>2 DEF Newest
  <2>1. Receipts!LastRow \in rows /\ Receipts!Before(lines[j], lines[Receipts!LastRow])
    BY <1>2, LastRowIsLatest
  <2> HIDE DEF Receipts!LastRow
  <2>2. /\ j \in Nat /\ Receipts!LastRow \in Nat
        /\ j \in DOMAIN lines /\ Receipts!LastRow \in DOMAIN lines
        /\ lines[j].ts \in Nat /\ lines[Receipts!LastRow].ts \in Nat
    BY <2>1, LineType
  <2>3. lines[j].ts <= lines[Receipts!LastRow].ts
    BY <2>1, <2>2 DEF Receipts!Before
  <2>4. Receipts!LastRow < j => lines[Receipts!LastRow].ts < lines[j].ts
    BY <2>2 DEF Receipts!Steady
  <2> QED
    BY <2>1, <2>2, <2>3, <2>4
<1> QED
  BY <1>1, <1>2

\* While nothing is written and no one strays, the newest row and links stay.
LEMMA ReceiptsFrame ==
    ASSUME ReceiptsInv, Receipts!TypeOK', UNCHANGED <<lines, rows>>,
           strayed' = strayed \/ strayed' = TRUE,
           \A c \in Callers : \/ append'[c].pc = "idle"
                              \/ /\ append'[c] = append[c]
                                 /\ strayed' = FALSE /\ lock = c => lock' = lock
    PROVE  ReceiptsInv'
<1>1. strayed' = FALSE => strayed = FALSE
  OBVIOUS
<1>2. RowsEnd'
  BY DEF ReceiptsInv, RowsEnd, Receipts!Before
<1>3. RowsOfLines'
  BY DEF ReceiptsInv, RowsOfLines
<1>4. Serial'
  BY <1>1 DEF ReceiptsInv, Serial
<1>5. Steadied' => Steadied
  BY <1>1 DEF Steadied, Receipts!Steady
<1>6. MadeOfNewest'
  BY <1>5 DEF ReceiptsInv, MadeOfNewest, MadeGood, Newest
<1>7. AllLinked'
  BY <1>5 DEF ReceiptsInv, AllLinked, Linked
<1> QED
  BY <1>2, <1>3, <1>4, <1>6, <1>7 DEF ReceiptsInv

-----------------------------------------------------------------------------
(* The steps                                                               *)

LEMMA BeginStep ==
    ASSUME Receipts!Bounds, ReceiptsInv, NEW c \in Callers, Receipts!BeginAppend(c)
    PROVE  ReceiptsInv'
<1>0. Receipts!TypeOK
  BY DEF ReceiptsInv
<1>1. PICK id \in 1..MaxLines :
        append' = [append EXCEPT ![c] = [pc |-> "line", at |-> 0,
                                     made |-> [ts |-> now, id |-> id, prev |-> Receipts!LastRow]]]
  BY DEF Receipts!BeginAppend
<1>2. UNCHANGED <<now, lines, rows, strayed, upsets>> /\ lock = NoOne /\ lock' = c
  BY DEF Receipts!BeginAppend
<1>3. Receipts!LastRow \in 0..MaxLines
  BY <1>0, LastRowIsLatest, LineType DEF ReceiptsInv, Receipts!Bounds
<1> HIDE DEF Receipts!LastRow
<1>4. [pc |-> "line", at |-> 0, made |-> [ts |-> now, id |-> id, prev |-> Receipts!LastRow]]
        \in Receipts!Call
  BY <1>0, <1>3 DEF Receipts!TypeOK, Receipts!Call, Receipts!Receipt, Receipts!Bounds
<1>5. /\ append' \in [Callers -> Receipts!Call]
      /\ append'[c].pc = "line" /\ append'[c].made.prev = Receipts!LastRow
      /\ \A e \in Callers : e # c => append'[e] = append[e]
  BY <1>0, <1>1, <1>4 DEF Receipts!TypeOK
<1>6. Receipts!TypeOK'
  BY <1>0, <1>2, <1>5 DEF Receipts!TypeOK
<1>7. RowsEnd'
  BY <1>2 DEF ReceiptsInv, RowsEnd, Receipts!Before
<1>8. RowsOfLines'
  BY <1>2, <1>5 DEF ReceiptsInv, RowsOfLines
<1>9. strayed = FALSE => \A e \in Callers : append[e].pc = "idle"
  BY <1>2 DEF ReceiptsInv, Serial, Receipts!Bounds
<1>10. Serial'
  BY <1>2, <1>5, <1>9 DEF Serial
<1>11. MadeOfNewest'
  <2> SUFFICES ASSUME Steadied', NEW e \in Callers, append'[e].pc = "line" PROVE MadeGood(e)'
    BY DEF MadeOfNewest, MadeGood
  <2>1. Receipts!Steady /\ strayed = FALSE
    BY <1>2 DEF Steadied, Receipts!Steady
  <2>2. e = c
    BY <1>5, <1>9, <2>1
  <2>3. Newest(Receipts!LastRow)
    BY <1>0, <2>1, LastRowIsNewest DEF ReceiptsInv
  <2> QED
    BY <1>2, <1>5, <2>2, <2>3 DEF MadeGood, Newest
<1>12. AllLinked'
  <2>1. Steadied' => Steadied
    BY <1>2 DEF Steadied, Receipts!Steady
  <2> QED
    BY <1>2, <2>1 DEF ReceiptsInv, AllLinked, Linked
<1> QED
  BY <1>6, <1>7, <1>8, <1>10, <1>11, <1>12 DEF ReceiptsInv

\* The new line carries the hash of the newest row; those before keep their links.
LEMMA WriteStep ==
    ASSUME Receipts!Bounds, ReceiptsInv, NEW c \in Callers, Receipts!WriteLine(c)
    PROVE  ReceiptsInv'
<1> DEFINE k == Len(lines) + 1
<1>0. /\ Receipts!TypeOK /\ append[c] \in Receipts!Call
      /\ append[c].made \in Receipts!Receipt /\ Len(lines) \in Nat
  BY LineType DEF ReceiptsInv, Receipts!TypeOK, Receipts!Call
<1>1. /\ lines' = Append(lines, append[c].made) /\ Len(lines) < MaxLines
      /\ append' = [append EXCEPT ![c].pc = "row", ![c].at = k]
      /\ UNCHANGED <<now, rows, lock, strayed, upsets>>
      /\ append[c].pc = "line"
  BY DEF Receipts!WriteLine
<1>2. /\ lines' \in Seq(Receipts!Receipt) /\ Len(lines') = k
      /\ \A i \in DOMAIN lines : i \in DOMAIN lines' /\ lines'[i] = lines[i]
      /\ \A i \in DOMAIN lines' : i \in DOMAIN lines \/ i = k
      /\ lines'[k] = append[c].made /\ k \in DOMAIN lines' /\ k \in 1..MaxLines
  BY <1>0, <1>1 DEF Receipts!TypeOK, Receipts!Bounds
<1> HIDE DEF k
<1>3. /\ append' \in [Callers -> Receipts!Call]
      /\ append'[c].pc = "row" /\ append'[c].at = k
      /\ \A e \in Callers : e # c => append'[e] = append[e]
  <2> DEFINE r == [append[c] EXCEPT !.pc = "row", !.at = k]
  <2>1. k \in 0..MaxLines
    BY <1>2
  <2>2. r \in Receipts!Call /\ r.pc = "row" /\ r.at = k
    BY <1>0, <2>1 DEF Receipts!Call
  <2>3. append' = [append EXCEPT ![c] = r]
    BY <1>1
  <2> HIDE DEF r
  <2> QED
    BY <1>0, <2>2, <2>3 DEF Receipts!TypeOK
<1>4. rows' \subseteq DOMAIN lines'
  BY <1>0, <1>1, <1>2 DEF Receipts!TypeOK
<1>5. Receipts!TypeOK'
  BY <1>0, <1>1, <1>2, <1>3, <1>4 DEF Receipts!TypeOK
<1>6. RowsEnd'
  <2>1. \A j \in rows : lines'[j] = lines[j]
    BY <1>0, <1>2, LineType
  <2> SUFFICES ASSUME rows # {} PROVE RowsEnd'
    BY <1>1 DEF RowsEnd
  <2>2. PICK m \in rows : \A j \in rows : Receipts!Before(lines[j], lines[m])
    BY DEF ReceiptsInv, RowsEnd
  <2>3. \A j \in rows : Receipts!Before(lines'[j], lines'[m])
    BY <2>1, <2>2 DEF Receipts!Before
  <2> QED
    BY <1>1, <2>3 DEF RowsEnd, Receipts!Before
<1>7. RowsOfLines'
  BY <1>2, <1>3 DEF ReceiptsInv, RowsOfLines
<1>8. strayed = FALSE => lock = c /\ \A e \in Callers : e # c => append[e].pc = "idle"
  BY <1>1 DEF ReceiptsInv, Serial
<1>9. Serial'
  BY <1>1, <1>2, <1>3, <1>8 DEF Serial
<1>10. Steadied' => Steadied
  BY <1>1, <1>2 DEF Steadied, Receipts!Steady
<1>11. MadeOfNewest'
  BY <1>1, <1>3, <1>8 DEF MadeOfNewest, MadeGood, Steadied
<1>12. AllLinked'
  <2> SUFFICES ASSUME Steadied', NEW i \in DOMAIN lines' PROVE Linked(i)'
    BY DEF AllLinked
  <2>1. CASE i \in DOMAIN lines
    <3>1. Linked(i)
      BY <1>10, <2>1 DEF ReceiptsInv, AllLinked
    <3> QED
      BY <1>1, <1>2, <2>1, <3>1 DEF Linked
  <2>2. CASE i = k
    <3>1. Newest(append[c].made.prev)
      BY <1>1, <1>10 DEF ReceiptsInv, MadeOfNewest, MadeGood
    <3>2. \A j \in rows : j < k
      BY <1>0, LineType DEF k
    <3>3. lines'[i].prev = append[c].made.prev
      BY <1>2, <2>2
    <3> QED
      BY <1>1, <2>2, <3>1, <3>2, <3>3 DEF Linked, Newest
  <2> QED
    BY <1>2, <2>1, <2>2
<1> QED
  BY <1>5, <1>6, <1>7, <1>9, <1>11, <1>12 DEF ReceiptsInv

\* The row is of the newest line, so it comes before no line.
LEMMA ReceiptsInsertStep ==
    ASSUME Receipts!Bounds, ReceiptsInv, NEW c \in Callers, Receipts!InsertRow(c)
    PROVE  ReceiptsInv'
<1> DEFINE k == append[c].at
<1>0. Receipts!TypeOK /\ k \in DOMAIN lines
  BY DEF ReceiptsInv, RowsOfLines, Receipts!InsertRow
<1>1. /\ rows' = rows \union {k} /\ append' = [append EXCEPT ![c] = Receipts!Idle]
      /\ Receipts!Release(c)
      /\ UNCHANGED <<now, lines, strayed, upsets>> /\ append[c].pc = "row"
  BY DEF Receipts!InsertRow
<1>2. /\ append' \in [Callers -> Receipts!Call] /\ append'[c].pc = "idle"
      /\ \A e \in Callers : e # c => append'[e] = append[e]
  BY <1>0, <1>1, ReceiptsIdleType DEF Receipts!TypeOK
<1>3. lock' \in Callers \union {NoOne}
  BY <1>0, <1>1 DEF Receipts!Release, Receipts!TypeOK
<1>4. Receipts!TypeOK'
  BY <1>0, <1>1, <1>2, <1>3 DEF Receipts!TypeOK
<1>5. RowsEnd'
  <2>1. \A j \in rows' : lines[j].ts \in Nat /\ lines[j].id \in Nat
    <3>1. \A r \in Receipts!Receipt : r.ts \in Nat /\ r.id \in Nat
      BY DEF Receipts!Receipt
    <3> QED
      BY <1>0, <1>1, <3>1, LineType
  <2>2. CASE rows = {}
    BY <1>1, <2>1, <2>2 DEF RowsEnd, Receipts!Before
  <2>3. CASE rows # {}
    <3>1. PICK m \in rows : \A j \in rows : Receipts!Before(lines[j], lines[m])
      BY <2>3 DEF ReceiptsInv, RowsEnd
    <3>2. CASE Receipts!Before(lines[k], lines[m])
      BY <1>1, <3>1, <3>2 DEF RowsEnd, Receipts!Before
    <3>3. CASE ~Receipts!Before(lines[k], lines[m])
      <4>1. \A j \in rows' : Receipts!Before(lines[j], lines[k])
        BY <1>1, <2>1, <3>1, <3>3 DEF Receipts!Before
      <4> QED
        BY <1>1, <4>1 DEF RowsEnd, Receipts!Before
    <3> QED
      BY <3>2, <3>3
  <2> QED
    BY <2>2, <2>3
<1>6. RowsOfLines'
  BY <1>1, <1>2 DEF ReceiptsInv, RowsOfLines
<1>7. strayed = FALSE => k = Len(lines) /\ \A e \in Callers : e # c => append[e].pc = "idle"
  BY <1>1 DEF ReceiptsInv, Serial
<1>8. Serial'
  BY <1>1, <1>2, <1>7 DEF Serial
<1>9. Steadied' => Steadied
  BY <1>1 DEF Steadied, Receipts!Steady
<1>10. MadeOfNewest'
  BY <1>1, <1>2, <1>7, <1>9 DEF MadeOfNewest, MadeGood, Steadied
<1>11. AllLinked'
  <2> SUFFICES ASSUME Steadied', NEW i \in DOMAIN lines' PROVE Linked(i)'
    BY DEF AllLinked
  <2>1. Linked(i) /\ k = Len(lines)
    BY <1>1, <1>7, <1>9 DEF ReceiptsInv, AllLinked, Steadied
  <2>2. i \in Nat /\ i <= Len(lines) /\ Len(lines) \in Nat
    BY <1>0, <1>1, LineType
  <2>3. ~(k < i)
    BY <2>1, <2>2
  <2> HIDE DEF k
  <2> QED
    BY <1>1, <2>1, <2>3 DEF Linked
<1> QED
  BY <1>4, <1>5, <1>6, <1>8, <1>10, <1>11 DEF ReceiptsInv

\* The other steps write nothing.
LEMMA ReceiptsInvStep ==
    ASSUME Receipts!Bounds, ReceiptsInv, [Receipts!Next]_(Receipts!vars)
    PROVE  ReceiptsInv'
<1>0. Receipts!TypeOK
  BY DEF ReceiptsInv
<1>1. CASE Receipts!TimePasses
  <2>1. Receipts!TypeOK'
    BY <1>0, <1>1 DEF Receipts!TimePasses, Receipts!TypeOK, Receipts!Bounds
  <2> QED
    BY <1>1, <2>1, ReceiptsFrame DEF Receipts!TimePasses
<1>2. CASE Receipts!ClockStepsBack
  <2>1. Receipts!TypeOK'
    BY <1>0, <1>2
       DEF Receipts!ClockStepsBack, Receipts!Fault, Receipts!TypeOK, Receipts!Bounds
  <2> QED
    BY <1>2, <2>1, ReceiptsFrame DEF Receipts!ClockStepsBack
<1>3. CASE Receipts!Stop
  <2>1. append' \in [Callers -> Receipts!Call] /\ \A c \in Callers : append'[c].pc = "idle"
    BY <1>3, ReceiptsIdleType DEF Receipts!Stop
  <2>2. Receipts!TypeOK'
    BY <1>0, <1>3, <2>1 DEF Receipts!Stop, Receipts!Fault, Receipts!TypeOK, Receipts!Bounds
  <2> QED
    BY <1>3, <2>1, <2>2, ReceiptsFrame DEF Receipts!Stop
<1>4. ASSUME NEW c \in Callers, Receipts!AppendRaises(c) PROVE ReceiptsInv'
  <2>1. /\ append' \in [Callers -> Receipts!Call] /\ append'[c].pc = "idle"
        /\ \A e \in Callers : e # c => append'[e] = append[e]
    BY <1>0, <1>4, ReceiptsIdleType DEF Receipts!AppendRaises, Receipts!TypeOK
  <2>2. lock' \in Callers \union {NoOne} /\ (lock # c => lock' = lock)
    BY <1>0, <1>4 DEF Receipts!AppendRaises, Receipts!Release, Receipts!TypeOK
  <2>3. Receipts!TypeOK'
    BY <1>0, <1>4, <2>1, <2>2
       DEF Receipts!AppendRaises, Receipts!Fault, Receipts!TypeOK, Receipts!Bounds
  <2> QED
    BY <1>4, <2>1, <2>2, <2>3, ReceiptsFrame DEF Receipts!AppendRaises
<1>5. ASSUME NEW c \in Callers, Receipts!Cancel(c) PROVE ReceiptsInv'
  <2>1. strayed' = TRUE /\ strayed' # FALSE /\ strayed' \in BOOLEAN
    BY <1>5 DEF Receipts!Cancel
  <2>2. Receipts!TypeOK'
    BY <1>0, <1>5, <2>1 DEF Receipts!Cancel, Receipts!Fault, Receipts!TypeOK, Receipts!Bounds
  <2> QED
    BY <1>5, <2>1, <2>2, ReceiptsFrame DEF Receipts!Cancel
<1>6. CASE UNCHANGED Receipts!vars
  <2>1. Receipts!TypeOK'
    BY <1>0, <1>6 DEF Receipts!vars, Receipts!TypeOK
  <2> QED
    BY <1>6, <2>1, ReceiptsFrame DEF Receipts!vars
<1> QED
  BY <1>1, <1>2, <1>3, <1>4, <1>5, <1>6, BeginStep, WriteStep, ReceiptsInsertStep
     DEF Receipts!Next

-----------------------------------------------------------------------------
(* The invariant                                                           *)

LEMMA ReceiptsInvInit == ASSUME Receipts!Bounds, Receipts!Init PROVE ReceiptsInv
<1>1. /\ lines \in Seq(Receipts!Receipt) /\ Len(lines) = 0 /\ DOMAIN lines = {} /\ rows = {}
      /\ append \in [Callers -> Receipts!Call] /\ \A c \in Callers : append[c].pc = "idle"
  BY ReceiptsIdleType DEF Receipts!Init
<1>2. Receipts!TypeOK
  <2>1. strayed \in BOOLEAN /\ lock \in Callers \union {NoOne}
    BY DEF Receipts!Init
  <2>2. now \in 0..MaxTime /\ upsets \in 0..MaxUpsets /\ Len(lines) <= MaxLines
    BY <1>1 DEF Receipts!Init, Receipts!Bounds
  <2> QED
    BY <1>1, <2>1, <2>2 DEF Receipts!TypeOK
<1> QED
  BY <1>1, <1>2
     DEF ReceiptsInv, RowsEnd, RowsOfLines, Serial, MadeOfNewest, MadeGood, AllLinked

\* A link to the newest row before a line, said with the set of those rows.
LEMMA LinkedIsChained ==
    ASSUME Receipts!Bounds, Receipts!TypeOK, AllLinked
    PROVE  Receipts!OneChain
<1> SUFFICES ASSUME Receipts!Steady, strayed = FALSE, NEW i \in DOMAIN lines
             PROVE  LET earlier == {j \in rows : j < i}
                    IN  IF earlier = {} THEN lines[i].prev = 0
                        ELSE /\ lines[i].prev \in earlier
                             /\ \A j \in earlier : j <= lines[i].prev
  BY DEF Receipts!OneChain, Receipts!TypeOK
<1>1. Linked(i)
  BY DEF AllLinked, Steadied
<1> QED
  BY <1>1 DEF Linked
\* A behaviour of the services is one of the ledger.
LEMMA ReceiptsAlone == ServicesSpec => Receipts!Spec
<1>1. ServicesInit => Receipts!Init
  BY DEF ServicesInit
<1>2. [ServicesNext]_serviceVars => [Receipts!Next]_(Receipts!vars)
  BY DEF ServicesNext, serviceVars, ReleaseStep, ReceiptStep, RootStep, EventStep, HandoffStep,
         CronStep, OutreachStep, TaskStep, receiptVars, Receipts!vars
<1> QED
  BY <1>1, <1>2, PTL DEF ServicesSpec, Receipts!Spec

\* "concurrent appends from the same process serialise" (receipts/store.py:222):
\* with a steady clock and no cancelled call each receipt links to the row before
\* it, however many tasks append, and whatever failed or was stopped between a
\* line and its row.
THEOREM ReceiptsFormOneChain == ServicesSpec => []OneChain
<1>1. Receipts!Init => ReceiptsInv
  BY ServicesBounds, ReceiptsInvInit
<1>2. ReceiptsInv /\ [Receipts!Next]_(Receipts!vars) => ReceiptsInv'
  BY ServicesBounds, ReceiptsInvStep
<1>3. ReceiptsInv => OneChain
  BY ServicesBounds, LinkedIsChained DEF ReceiptsInv, OneChain
<1> QED
  BY <1>1, <1>2, <1>3, ReceiptsAlone, PTL DEF Receipts!Spec

-----------------------------------------------------------------------------
(* The roots                                                               *)

\* The memo of transaction sig carries the root of day d.
Carries(sig, d, root) == sig \in DOMAIN memos /\ memos[sig] = [day |-> d, root |-> root]

RowGood(d) == merkle[d].sig # 0 => Carries(merkle[d].sig, d, merkle[d].root)

JobGood(a) ==
    job[a].pc \in {"cached", "record"} => Carries(job[a].sig, job[a].day, job[a].root)

RootsInv ==
    /\ Roots!TypeOK
    /\ \A d \in Roots!Days : RowGood(d)
    /\ \A a \in Roots!Actors : JobGood(a)

-----------------------------------------------------------------------------
(* Types                                                                   *)

LEMMA RootsIdleType ==
    ASSUME Roots!Bounds
    PROVE  Roots!Idle \in Roots!Job /\ Roots!Idle.pc = "idle"
BY DEF Roots!Bounds, Roots!Idle, Roots!Job, Roots!Days

LEMMA JobType == ASSUME Roots!TypeOK PROVE \A a \in Roots!Actors : job[a] \in Roots!Job
BY DEF Roots!TypeOK

LEMMA StartType ==
    ASSUME Roots!Bounds, Roots!TypeOK, NEW a \in Roots!Actors, NEW d \in Roots!Days,
           NEW kind \in {"get", "anchor", "loop"}, Roots!Start(a, "replay", kind, d)
    PROVE  /\ job' \in [Roots!Actors -> Roots!Job]
           /\ job'[a].pc = "replay"
           /\ \A b \in Roots!Actors : b # a => job'[b] = job[b]
<1> DEFINE j == [pc |-> "replay", kind |-> kind, day |-> d, root |-> 0, leaves |-> 0, sig |-> 0]
<1>1. job' = [job EXCEPT ![a] = j]
  BY DEF Roots!Start
<1>2. j \in Roots!Job /\ j.pc = "replay"
  BY DEF Roots!Job, Roots!Bounds
<1> HIDE DEF j
<1> QED
  BY <1>1, <1>2 DEF Roots!TypeOK

LEMMA DoneType ==
    ASSUME Roots!Bounds, Roots!TypeOK, NEW a \in Roots!Actors, Roots!Done(a)
    PROVE  /\ job' \in [Roots!Actors -> Roots!Job]
           /\ \A b \in Roots!Actors : job'[b] = job[b] \/ job'[b].pc = "idle"
BY RootsIdleType DEF Roots!TypeOK, Roots!Done

LEMMA UpsertType ==
    ASSUME Roots!Bounds, Roots!TypeOK, NEW d \in Roots!Days, NEW root \in 0..MaxFiled,
           NEW leaves \in 0..MaxFiled, NEW sig \in 0..MaxMemos, Roots!Upsert(d, root, leaves, sig)
    PROVE  /\ merkle' \in [Roots!Days -> Roots!Row]
           /\ merkle'[d].root = root /\ merkle'[d].sig = sig
           /\ \A e \in Roots!Days : e # d => merkle'[e] = merkle[e]
BY DEF Roots!TypeOK, Roots!Upsert, Roots!Row

-----------------------------------------------------------------------------
\* A memo stays as it was submitted; rows and jobs may change for good ones.
LEMMA RootsFrame ==
    ASSUME RootsInv, Roots!TypeOK',
           \A s \in DOMAIN memos : s \in DOMAIN memos' /\ memos'[s] = memos[s],
           \A d \in Roots!Days : merkle'[d] = merkle[d] \/ RowGood(d)',
           \A a \in Roots!Actors : job'[a] = job[a] \/ JobGood(a)'
    PROVE  RootsInv'
<1>1. ASSUME NEW d \in Roots!Days PROVE RowGood(d)'
  BY DEF RootsInv, RowGood, Carries
<1>2. ASSUME NEW a \in Roots!Actors PROVE JobGood(a)'
  BY DEF RootsInv, JobGood, Carries
<1> QED
  BY <1>1, <1>2 DEF RootsInv

\* A step that leaves rows and memos alone, and whose jobs have no signature yet.
LEMMA JobFrame ==
    ASSUME RootsInv, UNCHANGED <<merkle, memos>>, Roots!TypeOK',
           \A a \in Roots!Actors : job'[a] = job[a] \/ job'[a].pc \notin {"cached", "record"}
    PROVE  RootsInv'
BY RootsFrame DEF JobGood

-----------------------------------------------------------------------------
(* The steps                                                               *)

LEMMA StartStep ==
    ASSUME Roots!Bounds, RootsInv, NEW a \in Roots!Actors, NEW d \in Roots!Days,
           NEW kind \in {"get", "anchor", "loop"}, Roots!Start(a, "replay", kind, d),
           UNCHANGED <<today, filed, merkle, memos>>
    PROVE  RootsInv'
<1>1. Roots!TypeOK
  BY DEF RootsInv
<1>2. Roots!TypeOK'
  BY <1>1, StartType DEF Roots!TypeOK
<1> QED
  BY <1>1, <1>2, StartType, JobFrame

LEMMA LoopStep == ASSUME Roots!Bounds, RootsInv, Roots!LoopTick PROVE RootsInv'
<1> DEFINE d == today - 1
<1>1. Roots!TypeOK /\ Loop \in Roots!Actors /\ d \in Roots!Days
  BY DEF RootsInv, Roots!TypeOK, Roots!LoopTick, Roots!Actors, Roots!Days, Roots!Bounds
<1>2. CASE merkle[d].there
  <2> DEFINE j == [pc |-> "submit", kind |-> "loop", day |-> d, root |-> merkle[d].root,
                   leaves |-> 0, sig |-> 0]
  <2>1. job' = [job EXCEPT ![Loop] = j]
    BY <1>2 DEF Roots!LoopTick, Roots!Idle
  <2>2. merkle[d].root \in 0..MaxFiled
    BY <1>1 DEF Roots!TypeOK, Roots!Row
  <2>3. j \in Roots!Job /\ j.pc = "submit"
    BY <1>1, <2>2 DEF Roots!Job, Roots!Bounds
  <2> HIDE DEF j
  <2>4. job' \in [Roots!Actors -> Roots!Job]
    BY <1>1, <2>1, <2>3 DEF Roots!TypeOK
  <2>5. Roots!TypeOK'
    BY <1>1, <2>4 DEF Roots!LoopTick, Roots!TypeOK
  <2>6. \A a \in Roots!Actors : job'[a] = job[a] \/ job'[a].pc = "submit"
    BY <1>1, <2>1, <2>3 DEF Roots!TypeOK
  <2> QED
    BY <2>5, <2>6, JobFrame DEF Roots!LoopTick
<1>3. CASE ~merkle[d].there
  BY <1>1, <1>3, StartStep DEF Roots!LoopTick
<1> QED
  BY <1>2, <1>3

LEMMA ReplayStep ==
    ASSUME Roots!Bounds, RootsInv, NEW a \in Roots!Actors, Roots!Replay(a)
    PROVE  RootsInv'
<1> DEFINE n == filed[job[a].day]
<1>1. Roots!TypeOK /\ job[a] \in Roots!Job /\ n \in 0..MaxFiled
  BY DEF RootsInv, Roots!TypeOK, Roots!Job
<1>2. CASE job[a].kind = "anchor" /\ n = 0
  <2>1. Roots!Done(a)
    BY <1>2 DEF Roots!Replay
  <2>2. Roots!TypeOK'
    BY <1>1, <2>1, DoneType DEF Roots!Replay, Roots!TypeOK
  <2> QED
    BY <1>1, <2>1, <2>2, DoneType, JobFrame DEF Roots!Replay
<1>3. CASE ~(job[a].kind = "anchor" /\ n = 0)
  <2>1. job' = [job EXCEPT ![a].pc = "upsert", ![a].root = n, ![a].leaves = n]
    BY <1>3 DEF Roots!Replay
  <2> HIDE DEF n
  <2>2. /\ job' \in [Roots!Actors -> Roots!Job]
        /\ \A b \in Roots!Actors : job'[b] = job[b] \/ job'[b].pc = "upsert"
    BY <1>1, <2>1 DEF Roots!TypeOK, Roots!Job
  <2>3. Roots!TypeOK'
    BY <1>1, <2>2 DEF Roots!Replay, Roots!TypeOK
  <2> QED
    BY <2>2, <2>3, JobFrame DEF Roots!Replay
<1> QED
  BY <1>2, <1>3

\* A root without a signature replaces the row.
LEMMA UpsertStep ==
    ASSUME Roots!Bounds, RootsInv, NEW a \in Roots!Actors, Roots!UpsertRoot(a)
    PROVE  RootsInv'
<1>1. /\ Roots!TypeOK /\ job[a] \in Roots!Job /\ 0 \in 0..MaxMemos
      /\ job[a].day \in Roots!Days /\ job[a].root \in 0..MaxFiled /\ job[a].leaves \in 0..MaxFiled
  BY DEF RootsInv, Roots!TypeOK, Roots!Job, Roots!Bounds
<1>2. /\ merkle' \in [Roots!Days -> Roots!Row]
      /\ \A d \in Roots!Days : merkle'[d] = merkle[d] \/ merkle'[d].sig = 0
  BY <1>1, UpsertType DEF Roots!UpsertRoot
<1>3. /\ job' \in [Roots!Actors -> Roots!Job]
      /\ \A b \in Roots!Actors : job'[b] = job[b] \/ job'[b].pc \notin {"cached", "record"}
  <2>1. CASE Roots!Done(a)
    BY <1>1, <2>1, DoneType
  <2>2. CASE Roots!Goto(a, "submit")
    BY <1>1, <2>2 DEF Roots!Goto, Roots!TypeOK, Roots!Job
  <2> QED
    BY <2>1, <2>2 DEF Roots!UpsertRoot
<1>4. Roots!TypeOK'
  BY <1>1, <1>2, <1>3 DEF Roots!UpsertRoot, Roots!TypeOK
<1> QED
  BY <1>2, <1>3, <1>4, RootsFrame DEF Roots!UpsertRoot, RowGood, JobGood

\* The transaction's answer brings the signature of the memo just submitted.
LEMMA SubmitStep ==
    ASSUME Roots!Bounds, RootsInv, NEW a \in Roots!Actors, Roots!Submit(a)
    PROVE  RootsInv'
<1> DEFINE memo == [day |-> job[a].day, root |-> job[a].root]
<1> DEFINE sig == Len(memos) + 1
<1>1. Roots!TypeOK /\ job[a] \in Roots!Job /\ memo \in Roots!Memo
  BY DEF RootsInv, Roots!TypeOK, Roots!Job, Roots!Memo
<1>2. CASE Roots!Done(a) /\ UNCHANGED memos
  <2>1. Roots!TypeOK'
    BY <1>1, <1>2, DoneType DEF Roots!Submit, Roots!TypeOK
  <2> QED
    BY <1>1, <1>2, <2>1, DoneType, JobFrame DEF Roots!Submit
<1>3. CASE Len(memos) < MaxMemos /\ memos' = Append(memos, memo)
  <2> HIDE DEF memo
  <2>1. /\ memos' \in Seq(Roots!Memo) /\ Len(memos') <= MaxMemos
        /\ \A s \in DOMAIN memos : s \in DOMAIN memos' /\ memos'[s] = memos[s]
        /\ sig \in DOMAIN memos' /\ memos'[sig] = memo /\ sig \in 0..MaxMemos
    BY <1>1, <1>3 DEF Roots!TypeOK, Roots!Bounds
  <2>2. CASE Roots!Done(a)
    <3>1. Roots!TypeOK'
      BY <1>1, <2>1, <2>2, DoneType DEF Roots!Submit, Roots!TypeOK
    <3>2. \A b \in Roots!Actors : job'[b] = job[b] \/ job'[b].pc = "idle"
      BY <1>1, <2>2, DoneType
    <3> QED
      BY <2>1, <3>1, <3>2, RootsFrame DEF Roots!Submit, JobGood
  <2>3. CASE job' = [job EXCEPT ![a].pc = "cached", ![a].sig = Len(memos) + 1]
    <3>1. /\ job' \in [Roots!Actors -> Roots!Job]
          /\ \A b \in Roots!Actors : b # a => job'[b] = job[b]
          /\ job'[a].sig = sig /\ job'[a].day = job[a].day /\ job'[a].root = job[a].root
      BY <1>1, <2>1, <2>3 DEF Roots!TypeOK, Roots!Job
    <3>2. Roots!TypeOK'
      BY <1>1, <2>1, <3>1 DEF Roots!Submit, Roots!TypeOK
    <3>3. JobGood(a)'
      BY <2>1, <3>1 DEF JobGood, Carries, memo
    <3> QED
      BY <2>1, <3>1, <3>2, <3>3, RootsFrame DEF Roots!Submit
  <2> QED
    BY <1>3, <2>2, <2>3 DEF Roots!Submit
<1> QED
  BY <1>2, <1>3 DEF Roots!Submit

LEMMA ReadStep ==
    ASSUME Roots!Bounds, RootsInv, NEW a \in Roots!Actors, Roots!ReadCached(a)
    PROVE  RootsInv'
<1>1. Roots!TypeOK /\ job[a] \in Roots!Job /\ merkle[job[a].day].leaves \in 0..MaxFiled
  BY DEF RootsInv, Roots!TypeOK, Roots!Job, Roots!Row
<1>2. /\ job' \in [Roots!Actors -> Roots!Job]
      /\ \A b \in Roots!Actors : b # a => job'[b] = job[b]
      /\ job'[a].sig = job[a].sig /\ job'[a].day = job[a].day /\ job'[a].root = job[a].root
  BY <1>1 DEF Roots!ReadCached, Roots!TypeOK, Roots!Job
<1>3. Roots!TypeOK' /\ merkle' = merkle /\ memos' = memos
  BY <1>1, <1>2 DEF Roots!ReadCached, Roots!TypeOK
<1>4. JobGood(a)'
  BY <1>2, <1>3 DEF Roots!ReadCached, RootsInv, JobGood, Carries
<1> QED
  BY <1>2, <1>3, <1>4, RootsFrame

\* The row is written with the root and the signature of one memo.
LEMMA RecordStep ==
    ASSUME Roots!Bounds, RootsInv, NEW a \in Roots!Actors, Roots!RecordAnchor(a)
    PROVE  RootsInv'
<1>1. /\ Roots!TypeOK /\ job[a].day \in Roots!Days /\ job[a].root \in 0..MaxFiled
      /\ job[a].leaves \in 0..MaxFiled /\ job[a].sig \in 0..MaxMemos
  BY JobType DEF RootsInv, Roots!Job
<1>2. /\ merkle' \in [Roots!Days -> Roots!Row]
      /\ merkle'[job[a].day].root = job[a].root /\ merkle'[job[a].day].sig = job[a].sig
      /\ \A d \in Roots!Days : d # job[a].day => merkle'[d] = merkle[d]
  BY <1>1, UpsertType DEF Roots!RecordAnchor
<1>3. /\ job' \in [Roots!Actors -> Roots!Job]
      /\ \A b \in Roots!Actors : job'[b] = job[b] \/ job'[b].pc = "idle"
  BY <1>1, DoneType DEF Roots!RecordAnchor
<1>4. Roots!TypeOK' /\ memos' = memos
  BY <1>1, <1>2, <1>3 DEF Roots!RecordAnchor, Roots!TypeOK
<1>5. ASSUME NEW d \in Roots!Days, d = job[a].day PROVE RowGood(d)'
  BY <1>1, <1>2, <1>4, <1>5 DEF Roots!RecordAnchor, RootsInv, JobGood, RowGood, Carries
<1> QED
  BY <1>2, <1>3, <1>4, <1>5, RootsFrame DEF JobGood

-----------------------------------------------------------------------------
(* The invariant                                                           *)

LEMMA RootsInvInit == ASSUME Roots!Bounds, Roots!Init PROVE RootsInv
<1>1. Roots!NoRow \in Roots!Row /\ Roots!NoRow.sig = 0
  BY DEF Roots!NoRow, Roots!Row, Roots!Bounds
<1>2. /\ filed \in [Roots!Days -> 0..MaxFiled] /\ merkle \in [Roots!Days -> Roots!Row]
      /\ job \in [Roots!Actors -> Roots!Job]
  <2>1. 0 \in 0..MaxFiled
    BY DEF Roots!Bounds
  <2> QED
    BY <1>1, <2>1, RootsIdleType DEF Roots!Init
<1>3. memos \in Seq(Roots!Memo) /\ Len(memos) = 0 /\ 0 \in Roots!Days
  BY DEF Roots!Init, Roots!Days, Roots!Bounds
<1>4. Roots!TypeOK
  BY <1>2, <1>3 DEF Roots!Init, Roots!TypeOK, Roots!Bounds
<1> QED
  BY <1>1, <1>4, RootsIdleType DEF RootsInv, Roots!Init, RowGood, JobGood

LEMMA RootsInvStep ==
    ASSUME Roots!Bounds, RootsInv, [Roots!Next]_(Roots!vars)
    PROVE  RootsInv'
<1>0. Roots!TypeOK
  BY DEF RootsInv
<1>1. CASE Roots!File
  <2>1. Roots!TypeOK'
    <3>1. filed' \in [Roots!Days -> 0..MaxFiled]
      BY <1>0, <1>1 DEF Roots!File, Roots!TypeOK, Roots!Bounds
    <3> QED
      BY <1>0, <1>1, <3>1 DEF Roots!File, Roots!TypeOK
  <2> QED
    BY <1>1, <2>1, JobFrame DEF Roots!File
<1>2. CASE Roots!Midnight
  <2>1. Roots!TypeOK'
    BY <1>0, <1>2 DEF Roots!Midnight, Roots!TypeOK, Roots!Days, Roots!Bounds
  <2> QED
    BY <1>2, <2>1, JobFrame DEF Roots!Midnight
<1>3. CASE Roots!Stop
  <2>1. job' \in [Roots!Actors -> Roots!Job] /\ \A a \in Roots!Actors : job'[a].pc = "idle"
    BY <1>3, RootsIdleType DEF Roots!Stop
  <2>2. Roots!TypeOK'
    BY <1>0, <1>3, <2>1 DEF Roots!Stop, Roots!TypeOK
  <2> QED
    BY <1>3, <2>1, <2>2, JobFrame DEF Roots!Stop
<1>4. ASSUME NEW c \in Clerks, NEW d \in Roots!Days,
             Roots!GetRoot(c, d) \/ Roots!AnchorDay(c, d)
      PROVE  RootsInv'
  BY <1>4, StartStep DEF Roots!GetRoot, Roots!AnchorDay, Roots!Actors
<1>5. CASE UNCHANGED Roots!vars
  <2>1. Roots!TypeOK'
    BY <1>0, <1>5 DEF Roots!vars, Roots!TypeOK
  <2> QED
    BY <1>5, <2>1, JobFrame DEF Roots!vars
<1> QED
  BY <1>1, <1>2, <1>3, <1>4, <1>5, LoopStep, ReplayStep, UpsertStep, SubmitStep, ReadStep,
     RecordStep DEF Roots!Next, Roots!Step
\* A behaviour of the services is one of the roots.
LEMMA RootsAlone == ServicesSpec => Roots!Spec
<1>1. ServicesInit => Roots!Init
  BY DEF ServicesInit
<1>2. [ServicesNext]_serviceVars => [Roots!Next]_(Roots!vars)
  BY DEF ServicesNext, serviceVars, ReleaseStep, ReceiptStep, RootStep, EventStep, HandoffStep,
         CronStep, OutreachStep, TaskStep, rootVars, Roots!vars
<1> QED
  BY <1>1, <1>2, PTL DEF ServicesSpec, Roots!Spec

\* "the memo body must equal ..." (RECEIPTS.md:99): the memo an anchored row names
\* carries the row's root, however many requests and the loop race over the day,
\* whatever transactions fail or lose their answers, and wherever the server stops.
THEOREM AnchorsMatchRoots == ServicesSpec => []AnchorMatchesRoot
<1>1. Roots!Init => RootsInv
  BY ServicesBounds, RootsInvInit
<1>2. RootsInv /\ [Roots!Next]_(Roots!vars) => RootsInv'
  BY ServicesBounds, RootsInvStep
<1>3. RootsInv => AnchorMatchesRoot
  BY DEF RootsInv, RowGood, Carries, AnchorMatchesRoot, Roots!AnchorMatchesRoot
<1> QED
  BY <1>1, <1>2, <1>3, RootsAlone, PTL DEF Roots!Spec

-----------------------------------------------------------------------------
(* The event buffer                                                        *)

\* What a replay has yet to post was emitted, and it goes on to some event.
QueuesKnown ==
    \A s \in Events!Senders : /\ sender[s].queue \subseteq DOMAIN event
                              /\ sender[s].pc # "idle" => sender[s].queue # {}

\* What the service refuses each time has not arrived.
RefusedStayOut == \A e \in DOMAIN event : e \in Refused => ~event[e].arrived

\* An event whose POST went through, of its emit or of a replay, has arrived.
AcceptedArrived ==
    /\ \A e \in DOMAIN event : event[e].pc = "posted" /\ event[e].ok => event[e].arrived
    /\ \A s \in Events!Senders :
         sender[s].pc = "mark" /\ sender[s].ok => event[Events!Min(sender[s].queue)].arrived

\* An event marked as pushed has arrived.
PushedArrived == \A e \in DOMAIN event : event[e].row = "pushed" => event[e].arrived

EventsInv ==
    Events!TypeOK /\ QueuesKnown /\ RefusedStayOut /\ AcceptedArrived /\ PushedArrived

LEMMA EventType ==
    ASSUME Events!Bounds, Events!TypeOK
    PROVE  /\ Len(event) \in Nat /\ Len(event) <= MaxEvents /\ DOMAIN event = 1..Len(event)
           /\ DOMAIN event \subseteq Events!Id /\ DOMAIN event \subseteq Nat
           /\ event \in [DOMAIN event -> Events!Event]
           /\ outages \in Nat /\ outages <= MaxOutages /\ MaxOutages \in Nat
<1>1. event \in Seq(Events!Event) /\ Len(event) <= MaxEvents /\ outages \in 0..MaxOutages
  BY DEF Events!TypeOK
<1> QED
  BY <1>1 DEF Events!Bounds, Events!Id

LEMMA FaultType == ASSUME Events!Bounds, Events!TypeOK, Events!Fault \/ UNCHANGED outages
                   PROVE  outages' \in 0..MaxOutages
BY EventType DEF Events!Fault

\* An event of the type, over the ids there are, makes a buffer of the type.
LEMMA BufferType ==
    ASSUME Events!Bounds, Events!TypeOK, event' \in [DOMAIN event -> Events!Event]
    PROVE  event' \in Seq(Events!Event) /\ Len(event') <= MaxEvents
           /\ DOMAIN event' = DOMAIN event
BY EventType

\* Where events stay, and what arrived has arrived, the replays are as they were.
LEMMA EventsFrame ==
    ASSUME Events!Bounds, EventsInv,
           \A e \in DOMAIN event : e \in DOMAIN event' /\ (event[e].arrived => event'[e].arrived),
           NEW s \in Events!Senders, sender'[s] = sender[s]
    PROVE  /\ sender'[s].queue \subseteq DOMAIN event'
           /\ sender'[s].pc # "idle" => sender'[s].queue # {}
           /\ sender'[s].pc = "mark" /\ sender'[s].ok =>
                  event'[Events!Min(sender'[s].queue)].arrived
<1>1. /\ sender[s].queue \subseteq DOMAIN event
      /\ sender[s].pc # "idle" => sender[s].queue # {}
      /\ sender[s].pc = "mark" /\ sender[s].ok => event[Events!Min(sender[s].queue)].arrived
  BY DEF EventsInv, QueuesKnown, AcceptedArrived
<1>2. sender[s].pc # "idle" => Events!Min(sender[s].queue) \in DOMAIN event
  BY <1>1, EventType, OldestIsMember DEF EventsInv
<1> QED
  BY <1>1, <1>2

\* What a POST leads to.
LEMMA PostedFacts ==
    ASSUME Events!Bounds, EventsInv, NEW e \in DOMAIN event, NEW ok \in BOOLEAN,
           NEW arrived \in BOOLEAN, Events!Posted(e, ok, arrived)
    PROVE  /\ ok => arrived
           /\ event[e].arrived => arrived
           /\ e \in Refused => ~arrived
           /\ outages' \in 0..MaxOutages
<1>1. e \in Refused => ~event[e].arrived
  BY DEF EventsInv, RefusedStayOut
<1>2. outages' \in 0..MaxOutages
  BY FaultType DEF Events!Posted, EventsInv
<1>3. event[e].arrived \in BOOLEAN
  BY EventType DEF EventsInv, Events!Event
<1> QED
  BY <1>1, <1>2, <1>3 DEF Events!Posted

LEMMA EmitStep ==
    ASSUME Events!Bounds, EventsInv, Events!Emit PROVE EventsInv'
<1>1. PICK row \in {"open", "none"} :
          /\ event' = Append(event, [row |-> row, pc |-> "inserted", ok |-> FALSE,
                                     arrived |-> FALSE, held |-> FALSE])
          /\ IF row = "none" THEN Events!Fault ELSE UNCHANGED outages
  BY DEF Events!Emit
<1> DEFINE new == [row |-> row, pc |-> "inserted", ok |-> FALSE, arrived |-> FALSE,
                   held |-> FALSE]
<1>2. /\ new \in Events!Event /\ ~new.arrived /\ new.pc = "inserted" /\ new.row # "pushed"
  BY DEF Events!Event
<1>3. event' = Append(event, new) /\ Len(event) < MaxEvents /\ UNCHANGED <<sender, strict>>
  BY <1>1 DEF Events!Emit
<1>4. outages' \in 0..MaxOutages
  BY <1>1, FaultType DEF EventsInv
<1> HIDE DEF new
<1>5. /\ event' \in Seq(Events!Event) /\ Len(event') <= MaxEvents
      /\ DOMAIN event' = 1..(Len(event) + 1)
      /\ \A e \in DOMAIN event : e \in DOMAIN event' /\ event'[e] = event[e]
      /\ \A e \in DOMAIN event' : e \in DOMAIN event \/ event'[e] = new
  <2>1. event \in Seq(Events!Event) /\ Len(event) \in Nat /\ MaxEvents \in Nat
    BY DEF EventsInv, Events!TypeOK, Events!Bounds
  <2> QED
    BY <1>2, <1>3, <2>1
<1>6. Events!TypeOK'
  BY <1>3, <1>4, <1>5 DEF EventsInv, Events!TypeOK
<1>7. \A s \in Events!Senders : sender'[s] = sender[s]
  BY <1>3
<1> QED
  BY <1>2, <1>5, <1>6, <1>7, EventsFrame
     DEF EventsInv, QueuesKnown, RefusedStayOut, AcceptedArrived, PushedArrived

\* A step that changes one event, and no replay.
LEMMA OneEventStep ==
    ASSUME Events!Bounds, EventsInv, NEW e \in DOMAIN event, NEW x \in Events!Event,
           event' = [event EXCEPT ![e] = x], UNCHANGED <<sender, strict>>,
           outages' \in 0..MaxOutages,
           event[e].arrived => x.arrived,
           e \in Refused => ~x.arrived,
           x.pc = "posted" /\ x.ok => x.arrived,
           x.row = "pushed" => x.arrived
    PROVE  EventsInv'
<1>1. /\ event' \in [DOMAIN event -> Events!Event]
      /\ \A f \in DOMAIN event : event'[f] = IF f = e THEN x ELSE event[f]
  BY EventType DEF EventsInv
<1>2. DOMAIN event' = DOMAIN event /\ Events!TypeOK'
  BY <1>1, BufferType DEF EventsInv, Events!TypeOK
<1>3. \A s \in Events!Senders : sender'[s] = sender[s]
  OBVIOUS
<1> QED
  BY <1>1, <1>2, <1>3, EventsFrame
     DEF EventsInv, QueuesKnown, RefusedStayOut, AcceptedArrived, PushedArrived

LEMMA EmitPostStep ==
    ASSUME Events!Bounds, EventsInv, NEW e \in DOMAIN event, Events!EmitPost(e)
    PROVE  EventsInv'
<1>1. /\ event[e] \in Events!Event /\ event[e].pc = "inserted" /\ UNCHANGED <<sender, strict>>
      /\ e \in Refused => ~event[e].arrived
      /\ event[e].row = "pushed" => event[e].arrived
  BY EventType DEF Events!EmitPost, EventsInv, RefusedStayOut, PushedArrived
<1>2. CASE event' = [event EXCEPT ![e].pc = "done", ![e].held = TRUE] /\ UNCHANGED outages
  <2> DEFINE x == [event[e] EXCEPT !.pc = "done", !.held = TRUE]
  <2>1. /\ x \in Events!Event /\ x.pc = "done" /\ x.arrived = event[e].arrived
        /\ x.row = event[e].row
    BY <1>1 DEF Events!Event
  <2>2. event' = [event EXCEPT ![e] = x] /\ outages' \in 0..MaxOutages
    BY <1>2, FaultType DEF EventsInv
  <2> HIDE DEF x
  <2> QED
    BY <1>1, <2>1, <2>2, OneEventStep
<1>3. ASSUME NEW ok \in BOOLEAN, NEW arrived \in BOOLEAN, Events!Posted(e, ok, arrived),
             event' = [event EXCEPT ![e].pc = "posted", ![e].ok = ok, ![e].arrived = arrived]
      PROVE  EventsInv'
  <2> DEFINE x == [event[e] EXCEPT !.pc = "posted", !.ok = ok, !.arrived = arrived]
  <2>1. x \in Events!Event /\ x.ok = ok /\ x.arrived = arrived /\ x.row = event[e].row
    BY <1>1 DEF Events!Event
  <2>2. event' = [event EXCEPT ![e] = x]
    BY <1>3
  <2>3. /\ ok => arrived
        /\ event[e].arrived => arrived
        /\ e \in Refused => ~arrived
        /\ outages' \in 0..MaxOutages
    BY <1>3, PostedFacts
  <2> HIDE DEF x
  <2> QED
    BY <1>1, <2>1, <2>2, <2>3, OneEventStep
<1> QED
  BY <1>2, <1>3 DEF Events!EmitPost

LEMMA EmitMarkStep ==
    ASSUME Events!Bounds, EventsInv, NEW e \in DOMAIN event, Events!EmitMark(e)
    PROVE  EventsInv'
<1>1. /\ event[e] \in Events!Event /\ event[e].pc = "posted" /\ UNCHANGED <<sender, strict>>
      /\ e \in Refused => ~event[e].arrived
      /\ event[e].row = "pushed" \/ event[e].ok => event[e].arrived
  BY EventType DEF Events!EmitMark, EventsInv, RefusedStayOut, PushedArrived, AcceptedArrived
<1>2. PICK row \in {event[e].row, Events!Marked(event[e].row, event[e].ok)} :
          event' = [event EXCEPT ![e].pc = "done", ![e].row = row]
  <2>1. CASE event' = [event EXCEPT ![e].pc = "done",
                                    ![e].row = Events!Marked(@, event[e].ok)]
    BY <2>1
  <2>2. CASE event' = [event EXCEPT ![e].pc = "done"]
    <3>1. [event[e] EXCEPT !.pc = "done"]
            = [event[e] EXCEPT !.pc = "done", !.row = event[e].row]
      BY <1>1 DEF Events!Event
    <3> QED
      BY <2>2, <3>1
  <2> QED
    BY <2>1, <2>2 DEF Events!EmitMark
<1> DEFINE x == [event[e] EXCEPT !.pc = "done", !.row = row]
<1>3. /\ row \in {"none", "open", "pushed"}
      /\ row = "pushed" => event[e].row = "pushed" \/ event[e].ok
  BY <1>1 DEF Events!Event, Events!Marked
<1>4. /\ x \in Events!Event /\ x.pc = "done" /\ x.arrived = event[e].arrived /\ x.row = row
  BY <1>1, <1>3 DEF Events!Event
<1>5. event' = [event EXCEPT ![e] = x]
  BY <1>2
<1>6. outages' \in 0..MaxOutages
  BY FaultType DEF EventsInv, Events!EmitMark
<1> HIDE DEF x
<1> QED
  BY <1>1, <1>3, <1>4, <1>5, <1>6, OneEventStep

\* A replay at rest.
LEMMA SenderIdle ==
    /\ Events!Idle \in Events!Sender
    /\ Events!Idle.pc = "idle" /\ Events!Idle.queue = {} /\ Events!Idle.ok = FALSE
BY DEF Events!Idle, Events!Sender

\* The newest of some events are some of them.
LEMMA NewestFacts ==
    ASSUME Events!Bounds, NEW n \in Nat, NEW S, S \subseteq 1..n, S # {}
    PROVE  Events!Newest(S) \subseteq S /\ Events!Newest(S) # {}
<1>1. PICK m \in S : \A y \in S : m >= y
  BY LargestOf
<1>2. {f \in S : f > m} = {}
  <2>1. ASSUME NEW f \in S, f > m PROVE FALSE
    <3>1. f \in Int /\ m \in Int /\ m >= f
      BY <1>1
    <3> QED
      BY <2>1, <3>1
  <2> QED
    BY <2>1
<1>3. Events!Cardinality({f \in S : f > m}) = 0
  BY <1>2, FS_EmptySet DEF Events!Cardinality
<1>4. m \in Events!Newest(S)
  BY <1>3 DEF Events!Newest, Events!Bounds
<1> QED
  BY <1>4 DEF Events!Newest

\* A step of one replay, which may make one event arrive or change its row.
LEMMA OneSenderStep ==
    ASSUME Events!Bounds, EventsInv, NEW s \in Events!Senders, NEW y \in Events!Sender,
           sender' = [sender EXCEPT ![s] = y], UNCHANGED strict, outages' \in 0..MaxOutages,
           event' \in [DOMAIN event -> Events!Event],
           \A e \in DOMAIN event : /\ event[e].arrived => event'[e].arrived
                                   /\ e \in Refused => ~event'[e].arrived
                                   /\ event'[e].pc = event[e].pc
                                   /\ event'[e].ok = event[e].ok
                                   /\ event'[e].row = "pushed" => event'[e].arrived,
           y.queue \subseteq DOMAIN event, y.pc # "idle" => y.queue # {},
           y.pc = "mark" /\ y.ok => event'[Events!Min(y.queue)].arrived
    PROVE  EventsInv'
<1>1. DOMAIN event' = DOMAIN event /\ event' \in Seq(Events!Event) /\ Len(event') <= MaxEvents
  BY BufferType DEF EventsInv
<1>2. /\ sender' \in [Events!Senders -> Events!Sender]
      /\ \A t \in Events!Senders : sender'[t] = IF t = s THEN y ELSE sender[t]
  BY DEF EventsInv, Events!TypeOK
<1>3. Events!TypeOK'
  BY <1>1, <1>2 DEF EventsInv, Events!TypeOK
<1>4. RefusedStayOut' /\ PushedArrived'
  BY <1>1 DEF RefusedStayOut, PushedArrived
<1>5. \A e \in DOMAIN event' : event'[e].pc = "posted" /\ event'[e].ok => event'[e].arrived
  BY <1>1 DEF EventsInv, AcceptedArrived
<1>6. \A t \in Events!Senders : t # s => sender'[t] = sender[t]
  BY <1>2
<1>7. QueuesKnown' /\ AcceptedArrived'
  BY <1>1, <1>2, <1>5, <1>6, EventsFrame DEF QueuesKnown, AcceptedArrived
<1> QED
  BY <1>3, <1>4, <1>7 DEF EventsInv

\* Where no event changes, the events are as they were.
LEMMA EventsSame ==
    ASSUME Events!Bounds, EventsInv, UNCHANGED event
    PROVE  /\ event' \in [DOMAIN event -> Events!Event]
           /\ \A e \in DOMAIN event : /\ event[e].arrived => event'[e].arrived
                                      /\ e \in Refused => ~event'[e].arrived
                                      /\ event'[e].pc = event[e].pc
                                      /\ event'[e].ok = event[e].ok
                                      /\ event'[e].row = "pushed" => event'[e].arrived
BY EventType DEF EventsInv, RefusedStayOut, PushedArrived

LEMMA ReplayBeginStep ==
    ASSUME Events!Bounds, EventsInv, NEW s \in Events!Senders, NEW S,
           S \subseteq DOMAIN event, Events!Begin(s, S)
    PROVE  EventsInv'
<1> DEFINE y == [Events!Idle EXCEPT !.pc = "push", !.queue = Events!Newest(S)]
<1>1. /\ sender' = [sender EXCEPT ![s] = y] /\ S # {}
      /\ UNCHANGED event /\ UNCHANGED strict /\ UNCHANGED outages
  BY DEF Events!Begin
<1>2. Events!Newest(S) \subseteq DOMAIN event /\ Events!Newest(S) # {}
  BY <1>1, EventType, NewestFacts DEF EventsInv
<1>3. DOMAIN event \subseteq Events!Id
  BY EventType DEF EventsInv
<1>4. y \in Events!Sender /\ y.pc = "push" /\ y.queue = Events!Newest(S)
  BY <1>2, <1>3, SenderIdle DEF Events!Sender
<1>5. outages' \in 0..MaxOutages
  BY <1>1, FaultType DEF EventsInv
<1>6. /\ event' \in [DOMAIN event -> Events!Event]
      /\ \A e \in DOMAIN event : /\ event[e].arrived => event'[e].arrived
                                 /\ e \in Refused => ~event'[e].arrived
                                 /\ event'[e].pc = event[e].pc
                                 /\ event'[e].ok = event[e].ok
                                 /\ event'[e].row = "pushed" => event'[e].arrived
  BY <1>1, EventsSame
<1>7. y.queue \subseteq DOMAIN event /\ y.queue # {} /\ y.pc # "mark"
  BY <1>2, <1>4
<1> HIDE DEF y
<1> QED
  BY <1>1, <1>4, <1>5, <1>6, <1>7, OneSenderStep

LEMMA PushStep ==
    ASSUME Events!Bounds, EventsInv, NEW s \in Events!Senders, Events!Push(s)
    PROVE  EventsInv'
<1> DEFINE e == Events!Min(sender[s].queue)
<1>1. PICK ok \in BOOLEAN, arrived \in BOOLEAN :
          /\ Events!Posted(e, ok, arrived)
          /\ event' = [event EXCEPT ![e].arrived = arrived]
          /\ sender' = [sender EXCEPT ![s].pc = "mark", ![s].ok = ok]
  BY DEF Events!Push
<1>2. sender[s].pc = "push" /\ UNCHANGED strict /\ sender[s] \in Events!Sender
  BY DEF Events!Push, EventsInv, Events!TypeOK
<1>3. sender[s].queue \subseteq DOMAIN event /\ sender[s].queue # {}
  BY <1>2 DEF EventsInv, QueuesKnown
<1>4. e \in DOMAIN event /\ event[e] \in Events!Event
  BY <1>3, EventType, OldestIsMember DEF EventsInv
<1> HIDE DEF e
<1>5. /\ ok => arrived
      /\ event[e].arrived => arrived
      /\ e \in Refused => ~arrived
      /\ outages' \in 0..MaxOutages
  BY <1>1, <1>4, PostedFacts
<1> DEFINE y == [sender[s] EXCEPT !.pc = "mark", !.ok = ok]
           x == [event[e] EXCEPT !.arrived = arrived]
<1>6. y \in Events!Sender /\ y.queue = sender[s].queue /\ y.ok = ok
  BY <1>2 DEF Events!Sender
<1>7. /\ x \in Events!Event /\ x.arrived = arrived /\ x.pc = event[e].pc /\ x.ok = event[e].ok
      /\ x.row = event[e].row
  BY <1>4 DEF Events!Event
<1>8. event' = [event EXCEPT ![e] = x] /\ sender' = [sender EXCEPT ![s] = y]
  BY <1>1
<1> HIDE DEF x, y
<1>9. /\ event' \in [DOMAIN event -> Events!Event]
      /\ \A f \in DOMAIN event : event'[f] = IF f = e THEN x ELSE event[f]
  BY <1>4, <1>7, <1>8, EventType DEF EventsInv
<1>10. \A f \in DOMAIN event : /\ event[f].arrived => event'[f].arrived
                               /\ f \in Refused => ~event'[f].arrived
                               /\ event'[f].pc = event[f].pc
                               /\ event'[f].ok = event[f].ok
                               /\ event'[f].row = "pushed" => event'[f].arrived
  BY <1>5, <1>7, <1>9 DEF EventsInv, RefusedStayOut, PushedArrived
<1>11. y.ok => event'[Events!Min(y.queue)].arrived
  BY <1>4, <1>5, <1>6, <1>7, <1>9 DEF e
<1> QED
  BY <1>2, <1>3, <1>5, <1>6, <1>8, <1>9, <1>10, <1>11, OneSenderStep

LEMMA BufferMarkStep ==
    ASSUME Events!Bounds, EventsInv, NEW s \in Events!Senders, Events!Mark(s)
    PROVE  EventsInv'
<1> DEFINE e == Events!Min(sender[s].queue)
           left == sender[s].queue \ {e}
           row == Events!Marked(event[e].row, sender[s].ok)
           y == [Events!Idle EXCEPT !.queue = left, !.pc = IF left = {} THEN "idle" ELSE "push"]
           x == [event[e] EXCEPT !.row = row]
<1>1. /\ event' = [event EXCEPT ![e] = x] /\ sender' = [sender EXCEPT ![s] = y]
      /\ UNCHANGED strict /\ UNCHANGED outages /\ sender[s].pc = "mark"
  BY DEF Events!Mark
<1>2. sender[s].queue \subseteq DOMAIN event /\ sender[s].queue # {}
  BY <1>1 DEF EventsInv, QueuesKnown
<1>3. e \in DOMAIN event /\ event[e] \in Events!Event
  BY <1>2, EventType, OldestIsMember DEF EventsInv
<1>4. sender[s].ok => event[e].arrived
  BY <1>1 DEF EventsInv, AcceptedArrived
<1>5. DOMAIN event \subseteq Events!Id /\ left \subseteq DOMAIN event
  BY <1>2, EventType DEF EventsInv
<1>6. outages' \in 0..MaxOutages
  BY <1>1, FaultType DEF EventsInv
<1> HIDE DEF e, left
<1>7. y \in Events!Sender /\ y.queue = left /\ (y.pc # "idle" => left # {}) /\ y.pc # "mark"
  BY <1>5, SenderIdle DEF Events!Sender
<1>8. row \in {"none", "open", "pushed"}
      /\ (row = "pushed" => event[e].row = "pushed" \/ sender[s].ok)
  BY <1>3 DEF Events!Marked, Events!Event
<1> HIDE DEF row
<1>9. /\ x \in Events!Event /\ x.arrived = event[e].arrived /\ x.pc = event[e].pc
      /\ x.ok = event[e].ok /\ x.row = row
  BY <1>3, <1>8 DEF Events!Event
<1> HIDE DEF x, y
<1>10. /\ event' \in [DOMAIN event -> Events!Event]
       /\ \A f \in DOMAIN event : event'[f] = IF f = e THEN x ELSE event[f]
  BY <1>1, <1>3, <1>9, EventType DEF EventsInv
<1>11. \A f \in DOMAIN event : /\ event[f].arrived => event'[f].arrived
                               /\ f \in Refused => ~event'[f].arrived
                               /\ event'[f].pc = event[f].pc
                               /\ event'[f].ok = event[f].ok
                               /\ event'[f].row = "pushed" => event'[f].arrived
  BY <1>3, <1>4, <1>8, <1>9, <1>10 DEF EventsInv, RefusedStayOut, PushedArrived
<1> QED
  BY <1>1, <1>5, <1>6, <1>7, <1>10, <1>11, OneSenderStep

LEMMA MarkRaisesStep ==
    ASSUME Events!Bounds, EventsInv, NEW s \in Events!Senders, Events!MarkRaises(s)
    PROVE  EventsInv'
<1>1. /\ sender' = [sender EXCEPT ![s] = Events!Idle] /\ UNCHANGED strict /\ UNCHANGED event
      /\ Events!Fault
  BY DEF Events!MarkRaises
<1>2. outages' \in 0..MaxOutages
  BY <1>1, FaultType DEF EventsInv
<1>3. /\ event' \in [DOMAIN event -> Events!Event]
      /\ \A e \in DOMAIN event : /\ event[e].arrived => event'[e].arrived
                                 /\ e \in Refused => ~event'[e].arrived
                                 /\ event'[e].pc = event[e].pc
                                 /\ event'[e].ok = event[e].ok
                                 /\ event'[e].row = "pushed" => event'[e].arrived
  BY <1>1, EventsSame
<1> QED
  BY <1>1, <1>2, <1>3, SenderIdle, OneSenderStep

\* SetMode and Stop: every event keeps its row and whether it arrived.
LEMMA EveryEventStep ==
    ASSUME Events!Bounds, EventsInv,
           event' \in [DOMAIN event -> Events!Event],
           \A e \in DOMAIN event : /\ event'[e].arrived = event[e].arrived
                                   /\ event'[e].row = event[e].row
                                   /\ event'[e].pc = "done" \/ /\ event'[e].pc = event[e].pc
                                                               /\ event'[e].ok = event[e].ok,
           strict' \in BOOLEAN, outages' \in 0..MaxOutages,
           sender' \in [Events!Senders -> Events!Sender],
           \A s \in Events!Senders : sender'[s] = sender[s] \/ sender'[s] = Events!Idle
    PROVE  EventsInv'
<1>1. DOMAIN event' = DOMAIN event /\ event' \in Seq(Events!Event) /\ Len(event') <= MaxEvents
  BY BufferType DEF EventsInv
<1>2. Events!TypeOK'
  BY <1>1 DEF Events!TypeOK
<1>3. RefusedStayOut' /\ PushedArrived'
  BY <1>1 DEF EventsInv, RefusedStayOut, PushedArrived
<1>4. \A e \in DOMAIN event' : event'[e].pc = "posted" /\ event'[e].ok => event'[e].arrived
  BY <1>1 DEF EventsInv, AcceptedArrived
<1>5. QueuesKnown' /\ AcceptedArrived'
  BY <1>1, <1>4, EventsFrame, SenderIdle DEF QueuesKnown, AcceptedArrived
<1> QED
  BY <1>2, <1>3, <1>5 DEF EventsInv

LEMMA SetModeStep ==
    ASSUME Events!Bounds, EventsInv, Events!SetMode PROVE EventsInv'
<1>1. /\ event' = [e \in DOMAIN event |-> [event[e] EXCEPT !.held = FALSE]]
      /\ UNCHANGED sender /\ UNCHANGED outages
      /\ strict' = ~strict
  BY DEF Events!SetMode
<1>2. strict' \in BOOLEAN
  BY <1>1
<1>3. sender' \in [Events!Senders -> Events!Sender] /\ outages' \in 0..MaxOutages
  BY <1>1 DEF EventsInv, Events!TypeOK
<1>4. \A z \in Events!Event :
          LET x == [z EXCEPT !.held = FALSE]
          IN  /\ x \in Events!Event /\ x.arrived = z.arrived /\ x.row = z.row /\ x.pc = z.pc
              /\ x.ok = z.ok
  BY DEF Events!Event
<1>5. \A e \in DOMAIN event : event[e] \in Events!Event
  BY EventType DEF EventsInv
<1>6. /\ event' \in [DOMAIN event -> Events!Event]
      /\ \A e \in DOMAIN event : /\ event'[e].arrived = event[e].arrived
                                 /\ event'[e].row = event[e].row
                                 /\ event'[e].pc = event[e].pc
                                 /\ event'[e].ok = event[e].ok
  BY <1>1, <1>4, <1>5
<1> QED
  BY <1>1, <1>2, <1>3, <1>6, EveryEventStep

LEMMA BufferStopStep ==
    ASSUME Events!Bounds, EventsInv, Events!Stop PROVE EventsInv'
<1>1. /\ event' = [e \in DOMAIN event |-> [event[e] EXCEPT !.pc = "done"]]
      /\ sender' = [s \in Events!Senders |-> Events!Idle]
      /\ strict' \in BOOLEAN /\ outages' \in 0..MaxOutages
  BY FaultType DEF Events!Stop, EventsInv, Events!TypeOK
<1>2. \A z \in Events!Event :
          LET x == [z EXCEPT !.pc = "done"]
          IN  x \in Events!Event /\ x.arrived = z.arrived /\ x.row = z.row /\ x.pc = "done"
  BY DEF Events!Event
<1>3. \A e \in DOMAIN event : event[e] \in Events!Event
  BY EventType DEF EventsInv
<1>4. /\ event' \in [DOMAIN event -> Events!Event]
      /\ \A e \in DOMAIN event : /\ event'[e].arrived = event[e].arrived
                                 /\ event'[e].row = event[e].row
                                 /\ event'[e].pc = "done"
  BY <1>1, <1>2, <1>3
<1>5. /\ sender' \in [Events!Senders -> Events!Sender]
      /\ \A s \in Events!Senders : sender'[s] = Events!Idle
  BY <1>1, SenderIdle
<1> QED
  BY <1>1, <1>4, <1>5, EveryEventStep

LEMMA EventsInvInit == ASSUME Events!Bounds, Events!Init PROVE EventsInv
<1>1. event \in Seq(Events!Event) /\ Len(event) = 0 /\ DOMAIN event = {}
  BY DEF Events!Init
<1>2. /\ sender \in [Events!Senders -> Events!Sender]
      /\ \A s \in Events!Senders : sender[s] = Events!Idle
  BY SenderIdle DEF Events!Init
<1>3. strict \in BOOLEAN
  BY DEF Events!Init
<1>4. Events!TypeOK
  BY <1>1, <1>2, <1>3 DEF Events!Init, Events!TypeOK, Events!Bounds
<1> QED
  BY <1>1, <1>2, <1>4, SenderIdle
     DEF EventsInv, QueuesKnown, RefusedStayOut, AcceptedArrived, PushedArrived

LEMMA EventsInvStep ==
    ASSUME Events!Bounds, EventsInv, [Events!Next]_(Events!vars) PROVE EventsInv'
<1>1. CASE UNCHANGED Events!vars
  <2>1. UNCHANGED event /\ UNCHANGED sender /\ UNCHANGED strict /\ UNCHANGED outages
    BY <1>1 DEF Events!vars
  <2>2. strict' \in BOOLEAN /\ outages' \in 0..MaxOutages
        /\ sender' \in [Events!Senders -> Events!Sender]
    BY <2>1 DEF EventsInv, Events!TypeOK
  <2>3. event' \in [DOMAIN event -> Events!Event]
    BY <2>1, EventType DEF EventsInv
  <2> QED
    BY <2>1, <2>2, <2>3, EveryEventStep
<1>2. ASSUME NEW s \in Events!Senders, Events!Replay(s) PROVE EventsInv'
  <2>1. ASSUME Events!ReplayUnpushed(s) PROVE EventsInv'
    <3>1. Events!Open \subseteq DOMAIN event
      BY DEF Events!Open
    <3> QED
      BY <2>1, <3>1, ReplayBeginStep DEF Events!ReplayUnpushed
  <2> QED
    BY <1>2, <2>1, PushStep, BufferMarkStep DEF Events!Replay
<1>3. ASSUME NEW h \in Replays, Events!RepushTrace(h) PROVE EventsInv'
  <2>1. h \in Events!Senders
    BY DEF Events!Senders
  <2>2. PICK trace \in SUBSET {e \in DOMAIN event : event[e].row # "none"} :
            Events!Begin(h, trace)
    BY <1>3 DEF Events!RepushTrace
  <2> QED
    BY <2>1, <2>2, ReplayBeginStep
<1> QED
  BY <1>1, <1>2, <1>3, EmitStep, SetModeStep, BufferStopStep, EmitPostStep, EmitMarkStep,
     MarkRaisesStep DEF Events!Next

\* A behaviour of the services is one of the event buffer.
LEMMA EventsAlone == ServicesSpec => Events!Spec
<1>1. ServicesInit => Events!Init
  BY DEF ServicesInit
<1>2. [ServicesNext]_serviceVars => [Events!Next]_(Events!vars)
  BY DEF ServicesNext, serviceVars, ReleaseStep, ReceiptStep, RootStep, EventStep, HandoffStep,
         CronStep, OutreachStep, TaskStep, eventVars, Events!vars
<1> QED
  BY <1>1, <1>2, PTL DEF ServicesSpec, Events!Spec

\* The safety half of BufferedArrives: an event is marked pushed only once it has
\* arrived, whatever emits, replays and repushes race for it, stop, fail or lose
\* the answer.
THEOREM MarkedEventsArrived == ServicesSpec => []PushedArrived
<1>1. Events!Init => EventsInv
  BY ServicesBounds, EventsInvInit
<1>2. EventsInv /\ [Events!Next]_(Events!vars) => EventsInv'
  BY ServicesBounds, EventsInvStep
<1>3. EventsInv => PushedArrived
  BY DEF EventsInv
<1> QED
  BY <1>1, <1>2, <1>3, EventsAlone, PTL DEF Events!Spec

-----------------------------------------------------------------------------
(* The handoffs                                                            *)

InFlight == {"mark", "transfer", "revoke"}

Transferring(c) == call[c].pc = "transfer"

\* A call in flight has a row.
RowKnown == \A c \in HandoffCalls : call[c].pc \in InFlight => call[c].h \in DOMAIN handoff

\* What a call has won with the update of its accept.
Won(c) ==
    /\ handoff[call[c].h].by = call[c].user
    /\ ~handoff[call[c].h].revoked
    /\ \A i \in DOMAIN moves : moves[i].h # call[c].h

WinnersHold == \A c \in HandoffCalls : Transferring(c) => Won(c)

OneWinner ==
    \A c, e \in HandoffCalls : Transferring(c) /\ Transferring(e) /\ call[c].h = call[e].h => c = e

MovesKnown == \A i \in DOMAIN moves : moves[i].h \in DOMAIN handoff

CoworkInv ==
    /\ Cowork!TypeOK /\ RowKnown /\ WinnersHold /\ OneWinner /\ MovesKnown
    /\ Cowork!SingleUse

-----------------------------------------------------------------------------
(* Rows, calls and moves                                                   *)

LEMMA RowType ==
    ASSUME Cowork!Bounds, Cowork!TypeOK
    PROVE  \A h \in DOMAIN handoff : handoff[h] \in Cowork!Handoff /\ h \in 1..MaxHandoffs
BY DEF Cowork!Bounds, Cowork!TypeOK

LEMMA MoveType ==
    ASSUME Cowork!TypeOK
    PROVE  \A i \in DOMAIN moves : moves[i] \in Cowork!Move
BY DEF Cowork!TypeOK

LEMMA CoworkIdleType == ASSUME Cowork!Bounds PROVE Cowork!Idle \in Cowork!Call
BY DEF Cowork!Bounds, Cowork!Idle, Cowork!Call

\* The update of one row.
LEMMA RowWrite ==
    ASSUME Cowork!TypeOK, NEW h \in DOMAIN handoff, NEW r \in Cowork!Handoff,
           handoff' = [handoff EXCEPT ![h] = r]
    PROVE  /\ handoff' \in Seq(Cowork!Handoff) /\ Len(handoff') = Len(handoff)
           /\ DOMAIN handoff' = DOMAIN handoff
           /\ handoff'[h] = r
           /\ \A k \in DOMAIN handoff : k # h => handoff'[k] = handoff[k]
BY DEF Cowork!TypeOK

\* A row may change, unless it is a user who accepted or, once accepted, revoked.
RowKeeps(h) ==
    handoff[h].by # Cowork!NoUser =>
        handoff'[h].by = handoff[h].by /\ (handoff'[h].revoked <=> handoff[h].revoked)

-----------------------------------------------------------------------------
(* A step that makes no winner                                             *)

\* Whatever it does to rows not accepted, and to calls that do not transfer,
\* a step that moves nothing keeps the invariant.
LEMMA CoworkFrame ==
    ASSUME Cowork!Bounds, CoworkInv, Cowork!TypeOK', moves' = moves, RowKnown',
           \A h \in DOMAIN handoff : h \in DOMAIN handoff' /\ RowKeeps(h),
           \A c \in HandoffCalls : Transferring(c)' => Transferring(c) /\ call'[c] = call[c]
    PROVE  CoworkInv'
<1>1. \A h \in DOMAIN handoff : handoff[h].by \in Users => handoff'[h].by = handoff[h].by
  BY DEF Cowork!Bounds, RowKeeps
<1>2. \A h \in DOMAIN handoff :
        handoff[h].by \in Users /\ ~handoff[h].revoked => ~handoff'[h].revoked
  BY DEF Cowork!Bounds, RowKeeps
<1>3. \A c \in HandoffCalls : Transferring(c)' => Won(c)'
  <2> SUFFICES ASSUME NEW c \in HandoffCalls, Transferring(c)' PROVE Won(c)'
    OBVIOUS
  <2>1. call'[c] = call[c] /\ Won(c) /\ call[c].h \in DOMAIN handoff
    BY DEF CoworkInv, WinnersHold, RowKnown, Transferring, InFlight
  <2>2. handoff[call[c].h].by \in Users /\ ~handoff[call[c].h].revoked
    BY <2>1 DEF Won, CoworkInv, Cowork!TypeOK, Cowork!Call
  <2> QED
    BY <1>1, <1>2, <2>1, <2>2 DEF Won
<1>4. OneWinner'
  BY DEF CoworkInv, OneWinner, Transferring
<1>5. MovesKnown'
  BY DEF CoworkInv, MovesKnown
<1>6. Cowork!SingleUse'
  <2>1. \A i \in DOMAIN moves : /\ moves[i].h \in DOMAIN handoff
                               /\ handoff[moves[i].h].by = moves[i].to
                               /\ moves[i].to \in Users
                               /\ ~handoff[moves[i].h].revoked
    BY MoveType DEF CoworkInv, MovesKnown, Cowork!SingleUse, Cowork!Move
  <2>2. \A i \in DOMAIN moves' : LET h == handoff'[moves'[i].h]
                                IN  h.by = moves'[i].to /\ ~h.revoked
    BY <1>1, <1>2, <2>1
  <2> QED
    BY <2>2 DEF CoworkInv, Cowork!SingleUse
<1> QED
  BY <1>3, <1>4, <1>5, <1>6 DEF CoworkInv, WinnersHold

\* A call that ends, or waits, without a transfer.
LEMMA CallType ==
    ASSUME Cowork!Bounds, Cowork!TypeOK
    PROVE  \A c \in HandoffCalls : call[c] \in Cowork!Call /\ call[c].user \in Users
BY DEF Cowork!TypeOK, Cowork!Call

LEMMA EnterSteps ==
    ASSUME Cowork!Bounds, CoworkInv, NEW c \in HandoffCalls, NEW u \in Users, NEW h,
           NEW step \in {"insert", "mark", "revoke"}, Cowork!Enter(c, step, u, h),
           h \in DOMAIN handoff \/ (h = 0 /\ step = "insert"),
           UNCHANGED <<live, owner, handoff, moves>>
    PROVE  CoworkInv'
<1> Cowork!TypeOK
  BY DEF CoworkInv
<1>1. [pc |-> step, user |-> u, h |-> h] \in Cowork!Call
  BY RowType DEF Cowork!Call, Cowork!Bounds
<1>2. call' = [call EXCEPT ![c] = [pc |-> step, user |-> u, h |-> h]]
  BY DEF Cowork!Enter
<1>3. Cowork!TypeOK'
  BY <1>1, <1>2 DEF Cowork!TypeOK
<1>4. RowKnown'
  BY <1>2 DEF CoworkInv, Cowork!TypeOK, RowKnown, InFlight
<1>5. \A e \in HandoffCalls : Transferring(e)' => Transferring(e) /\ call'[e] = call[e]
  BY <1>2 DEF Cowork!TypeOK, Transferring
<1> QED
  BY <1>3, <1>4, <1>5, CoworkFrame DEF RowKeeps

\* A row changes by r, and the call that did it, if one did, ends.
LEMMA WriteSteps ==
    ASSUME Cowork!Bounds, CoworkInv, NEW h \in DOMAIN handoff, NEW r \in Cowork!Handoff,
           handoff' = [handoff EXCEPT ![h] = r], RowKeeps(h),
           UNCHANGED <<live, owner, moves>>,
           call' = call \/ \E c \in HandoffCalls : Cowork!Done(c)
    PROVE  CoworkInv'
<1> Cowork!TypeOK
  BY DEF CoworkInv
<1>1. /\ handoff' \in Seq(Cowork!Handoff) /\ Len(handoff') = Len(handoff)
      /\ DOMAIN handoff' = DOMAIN handoff
      /\ \A k \in DOMAIN handoff : k # h => handoff'[k] = handoff[k]
  BY RowWrite
<1>2. /\ call' \in [HandoffCalls -> Cowork!Call]
      /\ \A e \in HandoffCalls : call'[e] = call[e] \/ call'[e].pc = "idle"
  BY CoworkIdleType DEF Cowork!TypeOK, Cowork!Done, Cowork!Idle
<1>3. Cowork!TypeOK'
  BY <1>1, <1>2 DEF Cowork!TypeOK
<1>4. RowKnown'
  BY <1>1, <1>2 DEF CoworkInv, RowKnown, InFlight
<1>5. \A e \in HandoffCalls : Transferring(e)' => Transferring(e) /\ call'[e] = call[e]
  BY <1>2 DEF Transferring
<1>6. \A k \in DOMAIN handoff : k \in DOMAIN handoff' /\ RowKeeps(k)
  BY <1>1 DEF RowKeeps
<1> QED
  BY <1>3, <1>4, <1>5, <1>6, CoworkFrame

-----------------------------------------------------------------------------
(* The steps                                                               *)

LEMMA CoworkInsertStep ==
    ASSUME Cowork!Bounds, CoworkInv, NEW c \in HandoffCalls, Cowork!Insert(c)
    PROVE  CoworkInv'
<1> Cowork!TypeOK
  BY DEF CoworkInv
<1> DEFINE new == [from |-> call[c].user, past |-> FALSE, by |-> Cowork!NoUser, revoked |-> FALSE]
<1>1. new \in Cowork!Handoff
  BY CallType DEF Cowork!Handoff
<1>2. handoff' = Append(handoff, new) /\ Len(handoff) < MaxHandoffs
  BY DEF Cowork!Insert
<1> HIDE DEF new
<1>3. /\ handoff' \in Seq(Cowork!Handoff) /\ Len(handoff') <= MaxHandoffs
      /\ \A h \in DOMAIN handoff : h \in DOMAIN handoff' /\ handoff'[h] = handoff[h]
  BY <1>1, <1>2 DEF Cowork!TypeOK, Cowork!Bounds
<1>4. /\ call' \in [HandoffCalls -> Cowork!Call]
      /\ \A e \in HandoffCalls : call'[e] = call[e] \/ call'[e].pc = "idle"
  BY CoworkIdleType DEF Cowork!Insert, Cowork!TypeOK, Cowork!Done, Cowork!Idle
<1>5. Cowork!TypeOK' /\ moves' = moves
  BY <1>3, <1>4 DEF Cowork!Insert, Cowork!TypeOK
<1>6. RowKnown'
  BY <1>3, <1>4 DEF CoworkInv, RowKnown, InFlight
<1>7. \A e \in HandoffCalls : Transferring(e)' => Transferring(e) /\ call'[e] = call[e]
  BY <1>4 DEF Transferring
<1> QED
  BY <1>3, <1>5, <1>6, <1>7, CoworkFrame DEF RowKeeps

\* The accept whose update meets the row wins it: no other holds the handoff.
LEMMA MarkStep ==
    ASSUME Cowork!Bounds, CoworkInv, NEW c \in HandoffCalls, Cowork!Mark(c)
    PROVE  CoworkInv'
<1> Cowork!TypeOK
  BY DEF CoworkInv
<1> DEFINE h == call[c].h
<1> DEFINE r == [handoff[h] EXCEPT !.by = call[c].user]
<1>1. h \in DOMAIN handoff /\ handoff[h] \in Cowork!Handoff /\ call[c].user \in Users
  BY RowType, CallType DEF Cowork!Mark, CoworkInv, RowKnown, InFlight
<1>2. CASE Cowork!Acceptable(h)
  <2>1. handoff[h].by = Cowork!NoUser /\ ~handoff[h].revoked
    BY <1>2 DEF Cowork!Acceptable, Cowork!Pending
  <2>2. r \in Cowork!Handoff /\ r.by = call[c].user /\ (r.revoked <=> handoff[h].revoked)
    BY <1>1 DEF Cowork!Handoff
  <2>3. /\ handoff' = [handoff EXCEPT ![h] = r]
        /\ call' = [call EXCEPT ![c].pc = "transfer"]
        /\ UNCHANGED <<live, owner, moves>>
    BY <1>2 DEF Cowork!Mark
  <2> HIDE DEF r
  <2>4. /\ handoff' \in Seq(Cowork!Handoff) /\ Len(handoff') = Len(handoff)
        /\ DOMAIN handoff' = DOMAIN handoff
        /\ handoff'[h] = r
        /\ \A k \in DOMAIN handoff : k # h => handoff'[k] = handoff[k]
    BY <1>1, <2>2, <2>3, RowWrite
  <2>5. /\ call' \in [HandoffCalls -> Cowork!Call]
        /\ call'[c].h = h /\ call'[c].user = call[c].user
        /\ \A e \in HandoffCalls : e # c => call'[e] = call[e]
        /\ ~Transferring(c)
    BY <2>3 DEF Cowork!TypeOK, Cowork!Call, Cowork!Mark, Transferring
  <2>6. /\ \A e \in HandoffCalls : Transferring(e) => call[e].h # h
        /\ \A i \in DOMAIN moves : moves[i].h # h
    <3>1. \A e \in HandoffCalls : Transferring(e) => handoff[call[e].h].by \in Users
      BY CallType DEF CoworkInv, WinnersHold, Won
    <3>2. \A i \in DOMAIN moves : handoff[moves[i].h].by \in Users
      BY MoveType DEF CoworkInv, Cowork!SingleUse, Cowork!Move
    <3> QED
      BY <2>1, <3>1, <3>2 DEF Cowork!Bounds
  <2>7. Cowork!TypeOK'
    BY <2>3, <2>4, <2>5 DEF Cowork!TypeOK
  <2>8. RowKnown'
    BY <1>1, <2>4, <2>5 DEF CoworkInv, RowKnown, InFlight
  <2>9. WinnersHold'
    <3> SUFFICES ASSUME NEW e \in HandoffCalls, Transferring(e)' PROVE Won(e)'
      BY DEF WinnersHold
    <3>1. CASE e = c
      BY <2>1, <2>2, <2>3, <2>4, <2>5, <2>6, <3>1 DEF Won
    <3>2. CASE e # c
      <4>1. call'[e] = call[e] /\ Won(e) /\ call[e].h \in DOMAIN handoff /\ call[e].h # h
        BY <2>5, <2>6, <3>2 DEF CoworkInv, WinnersHold, RowKnown, InFlight, Transferring
      <4> QED
        BY <2>3, <2>4, <4>1 DEF Won
    <3> QED
      BY <3>1, <3>2
  <2>10. OneWinner'
    BY <2>5, <2>6 DEF CoworkInv, OneWinner, Transferring
  <2>11. MovesKnown'
    BY <2>3, <2>4 DEF CoworkInv, MovesKnown
  <2>12. Cowork!SingleUse'
    <3>1. \A i \in DOMAIN moves : handoff'[moves[i].h] = handoff[moves[i].h]
      BY <2>4, <2>6 DEF CoworkInv, MovesKnown
    <3> QED
      BY <2>3, <3>1 DEF CoworkInv, Cowork!SingleUse
  <2> QED
    BY <2>7, <2>8, <2>9, <2>10, <2>11, <2>12 DEF CoworkInv
<1>3. CASE ~Cowork!Acceptable(h)
  <2>1. handoff' = handoff /\ Cowork!Done(c) /\ UNCHANGED <<live, owner, moves>>
    BY <1>3 DEF Cowork!Mark
  <2>2. /\ call' \in [HandoffCalls -> Cowork!Call]
        /\ \A e \in HandoffCalls : call'[e] = call[e] \/ call'[e].pc = "idle"
    BY <2>1, CoworkIdleType DEF Cowork!TypeOK, Cowork!Done, Cowork!Idle
  <2>3. Cowork!TypeOK' /\ moves' = moves
    BY <2>1, <2>2 DEF Cowork!TypeOK
  <2>4. RowKnown'
    BY <2>1, <2>2 DEF CoworkInv, RowKnown, InFlight
  <2>5. \A e \in HandoffCalls : Transferring(e)' => Transferring(e) /\ call'[e] = call[e]
    BY <2>2 DEF Transferring
  <2> QED
    BY <2>1, <2>3, <2>4, <2>5, CoworkFrame DEF RowKeeps
<1> QED
  BY <1>2, <1>3

\* The move of a handoff that its call had won, and none had moved by.
LEMMA TransferStep ==
    ASSUME Cowork!Bounds, CoworkInv, NEW c \in HandoffCalls, Cowork!Transfer(c)
    PROVE  CoworkInv'
<1> Cowork!TypeOK
  BY DEF CoworkInv
<1> DEFINE move == [h |-> call[c].h, to |-> call[c].user]
<1>1. Transferring(c) /\ Won(c) /\ call[c].h \in DOMAIN handoff
  BY DEF Cowork!Transfer, Transferring, CoworkInv, WinnersHold, RowKnown, InFlight
<1>2. move \in Cowork!Move /\ call[c].user \in Users
  BY <1>1, RowType, CallType DEF Cowork!Move
<1>3. /\ moves' = Append(moves, move)
      /\ owner' = call[c].user /\ Cowork!Done(c) /\ UNCHANGED <<live, handoff>>
  BY DEF Cowork!Transfer
<1>4. move.h = call[c].h /\ move.to = call[c].user
  OBVIOUS
<1> HIDE DEF move
<1>5. /\ moves' \in Seq(Cowork!Move)
      /\ \A i \in DOMAIN moves' :
           \/ i \in DOMAIN moves /\ moves'[i] = moves[i]
           \/ i = Len(moves) + 1 /\ moves'[i] = move
  BY <1>2, <1>3 DEF Cowork!TypeOK
<1>6. /\ call' \in [HandoffCalls -> Cowork!Call]
      /\ \A e \in HandoffCalls : call'[e] = call[e] \/ call'[e].pc = "idle"
      /\ ~Transferring(c)'
  BY <1>3, CoworkIdleType DEF Cowork!TypeOK, Cowork!Done, Cowork!Idle, Transferring
<1>7. Cowork!TypeOK'
  BY <1>2, <1>3, <1>5, <1>6 DEF Cowork!TypeOK
<1>8. RowKnown'
  BY <1>3, <1>6 DEF CoworkInv, RowKnown, InFlight
<1>9. WinnersHold'
  <2> SUFFICES ASSUME NEW e \in HandoffCalls, Transferring(e)' PROVE Won(e)'
    BY DEF WinnersHold
  <2>1. e # c /\ call'[e] = call[e] /\ Transferring(e)
    BY <1>6 DEF Transferring
  <2>2. Won(e) /\ call[e].h # call[c].h
    BY <1>1, <2>1 DEF CoworkInv, WinnersHold, OneWinner
  <2> QED
    BY <1>3, <1>4, <1>5, <2>1, <2>2 DEF Won
<1>10. OneWinner'
  BY <1>6 DEF CoworkInv, OneWinner, Transferring
<1>11. MovesKnown'
  BY <1>1, <1>3, <1>4, <1>5 DEF CoworkInv, MovesKnown
<1>12. Cowork!SingleUse'
  <2>1. \A i \in DOMAIN moves : moves[i].h # move.h
    BY <1>1, <1>4 DEF Won
  <2>2. \A i, j \in DOMAIN moves' : moves'[i].h = moves'[j].h => i = j
    BY <1>5, <2>1 DEF CoworkInv, Cowork!SingleUse
  <2>3. \A i \in DOMAIN moves' : LET h == handoff'[moves'[i].h]
                                IN  h.by = moves'[i].to /\ ~h.revoked
    BY <1>1, <1>3, <1>4, <1>5 DEF CoworkInv, Cowork!SingleUse, Won
  <2> QED
    BY <2>2, <2>3 DEF Cowork!SingleUse
<1> QED
  BY <1>7, <1>8, <1>9, <1>10, <1>11, <1>12 DEF CoworkInv

LEMMA RevokeRowStep ==
    ASSUME Cowork!Bounds, CoworkInv, NEW c \in HandoffCalls, Cowork!RevokeRow(c)
    PROVE  CoworkInv'
<1> DEFINE h == call[c].h
<1> DEFINE r == IF Cowork!Revocable(h) THEN [handoff[h] EXCEPT !.revoked = TRUE] ELSE handoff[h]
<1>1. h \in DOMAIN handoff /\ handoff[h] \in Cowork!Handoff
  BY RowType DEF Cowork!RevokeRow, CoworkInv, RowKnown, InFlight
<1>2. handoff' = [handoff EXCEPT ![h] = r]
  <2>1. CASE Cowork!Revocable(h)
    BY <2>1 DEF Cowork!RevokeRow
  <2>2. CASE ~Cowork!Revocable(h)
    BY <1>1, <2>2 DEF Cowork!RevokeRow, CoworkInv, Cowork!TypeOK
  <2> QED
    BY <2>1, <2>2
<1>3. r \in Cowork!Handoff /\ (handoff[h].by # Cowork!NoUser => r = handoff[h])
  BY <1>1 DEF Cowork!Handoff, Cowork!Revocable
<1> HIDE DEF r
<1>4. RowKeeps(h)
  BY <1>1, <1>2, <1>3, RowWrite DEF CoworkInv, RowKeeps
<1> QED
  BY <1>1, <1>2, <1>3, <1>4, WriteSteps DEF Cowork!RevokeRow

LEMMA ExpireStep ==
    ASSUME Cowork!Bounds, CoworkInv, NEW h \in DOMAIN handoff, Cowork!Expire(h)
    PROVE  CoworkInv'
<1> DEFINE r == [handoff[h] EXCEPT !.past = TRUE]
<1>1. handoff[h] \in Cowork!Handoff
  BY RowType DEF CoworkInv
<1>2. handoff' = [handoff EXCEPT ![h] = r]
  BY DEF Cowork!Expire
<1>3. r \in Cowork!Handoff /\ r.by = handoff[h].by /\ r.revoked = handoff[h].revoked
  BY <1>1 DEF Cowork!Handoff
<1> HIDE DEF r
<1>4. RowKeeps(h)
  BY <1>2, <1>3, RowWrite DEF CoworkInv, RowKeeps
<1> QED
  BY <1>2, <1>3, <1>4, WriteSteps DEF Cowork!Expire

-----------------------------------------------------------------------------
(* The invariant                                                           *)

LEMMA CoworkInvInit == ASSUME Cowork!Bounds, Cowork!Init PROVE CoworkInv
<1>1. call \in [HandoffCalls -> Cowork!Call] /\ \A c \in HandoffCalls : call[c].pc = "idle"
  BY CoworkIdleType DEF Cowork!Init, Cowork!Idle
<1>2. Cowork!TypeOK
  BY <1>1 DEF Cowork!Init, Cowork!TypeOK, Cowork!Bounds
<1>3. DOMAIN moves = {}
  BY DEF Cowork!Init
<1> QED
  BY <1>1, <1>2, <1>3 DEF CoworkInv, RowKnown, InFlight, WinnersHold, OneWinner,
                          Transferring, MovesKnown, Cowork!SingleUse

LEMMA CoworkInvStep ==
    ASSUME Cowork!Bounds, CoworkInv, [Cowork!Next]_(Cowork!vars)
    PROVE  CoworkInv'
<1>1. ASSUME NEW c \in HandoffCalls, NEW u \in Users, Cowork!Create(c, u) PROVE CoworkInv'
  BY <1>1, EnterSteps DEF Cowork!Create
<1>2. ASSUME NEW c \in HandoffCalls, NEW u \in Users, NEW h \in DOMAIN handoff,
             Cowork!Accept(c, u, h) \/ Cowork!Revoke(c, u, h)
      PROVE  CoworkInv'
  BY <1>2, EnterSteps DEF Cowork!Accept, Cowork!Revoke
<1>3. CASE Cowork!EndSession
  <2>1. Cowork!TypeOK' /\ RowKnown'
    BY <1>3 DEF Cowork!EndSession, CoworkInv, Cowork!TypeOK, RowKnown
  <2> QED
    BY <1>3, <2>1, CoworkFrame DEF Cowork!EndSession, RowKeeps, Transferring
<1>4. CASE Cowork!Stop
  <2>1. call' \in [HandoffCalls -> Cowork!Call] /\ \A c \in HandoffCalls : call'[c].pc = "idle"
    BY <1>4, CoworkIdleType DEF Cowork!Stop, Cowork!Idle
  <2>2. Cowork!TypeOK' /\ RowKnown'
    BY <1>4, <2>1 DEF Cowork!Stop, CoworkInv, Cowork!TypeOK, RowKnown, InFlight
  <2> QED
    BY <1>4, <2>1, <2>2, CoworkFrame DEF Cowork!Stop, RowKeeps, Transferring
<1>5. CASE UNCHANGED Cowork!vars
  <2>1. Cowork!TypeOK' /\ RowKnown'
    BY <1>5 DEF Cowork!vars, CoworkInv, Cowork!TypeOK, RowKnown
  <2> QED
    BY <1>5, <2>1, CoworkFrame DEF Cowork!vars, RowKeeps, Transferring
<1> QED
  BY <1>1, <1>2, <1>3, <1>4, <1>5, CoworkInsertStep, MarkStep, TransferStep, RevokeRowStep,
     ExpireStep DEF Cowork!Next, Cowork!Step

\* A behaviour of the services is one of the handoffs.
LEMMA CoworkAlone == ServicesSpec => Cowork!Spec
<1>1. ServicesInit => Cowork!Init
  BY DEF ServicesInit
<1>2. [ServicesNext]_serviceVars => [Cowork!Next]_(Cowork!vars)
  BY DEF ServicesNext, serviceVars, ReleaseStep, ReceiptStep, RootStep, EventStep, HandoffStep,
         CronStep, OutreachStep, TaskStep, handoffVars, Cowork!vars
<1> QED
  BY <1>1, <1>2, PTL DEF ServicesSpec, Cowork!Spec

\* "A second accept on the same token loses the race" (handoff.py:13): a handoff
\* moves the session at most once, to whom its accept recorded, and never when it
\* was revoked, however the store's calls of any functions meet and wherever the
\* server stops.
THEOREM HandoffsAreSingleUse == ServicesSpec => []SingleUse
<1>1. Cowork!Init => CoworkInv
  BY ServicesBounds, CoworkInvInit
<1>2. CoworkInv /\ [Cowork!Next]_(Cowork!vars) => CoworkInv'
  BY ServicesBounds, CoworkInvStep
<1>3. CoworkInv => SingleUse
  BY DEF CoworkInv, SingleUse
<1> QED
  BY <1>1, <1>2, <1>3, CoworkAlone, PTL DEF Cowork!Spec

-----------------------------------------------------------------------------
(* The search for a next firing                                            *)

\* The order of local times by their fields.
DayBefore(d, e) ==
    \/ d.year < e.year
    \/ d.year = e.year /\ d.month < e.month
    \/ d.year = e.year /\ d.month = e.month /\ d.day < e.day

SameDay(d, e) == d.year = e.year /\ d.month = e.month /\ d.day = e.day

Before(d, e) ==
    \/ DayBefore(d, e)
    \/ SameDay(d, e) /\ (d.hour < e.hour \/ (d.hour = e.hour /\ d.minute < e.minute))

LEMMA DateFacts ==
    ASSUME Cron!Bounds, NEW d \in Cron!Dates
    PROVE  /\ d.year \in Years /\ d.year \in Nat
           /\ d.month \in 1..12 /\ d.day \in 1..31 /\ d.hour \in 0..23 /\ d.minute \in 0..59
           /\ DaysIn[d.year][d.month] \in 28..31 /\ First[d.year][d.month] \in Nat
           /\ d.day <= DaysIn[d.year][d.month]
           /\ d = [year |-> d.year, month |-> d.month, day |-> d.day, hour |-> d.hour,
                   minute |-> d.minute]
           /\ Cron!DayNumber(d) \in Nat /\ Cron!At(d) \in Nat
<1>1. d \in [year : Years, month : 1..12, day : 1..31, hour : 0..23, minute : 0..59]
      /\ d.day <= DaysIn[d.year][d.month]
  BY DEF Cron!Dates
<1>2. /\ d.year \in Years /\ d.year \in Nat
      /\ d.month \in 1..12 /\ d.day \in 1..31 /\ d.hour \in 0..23 /\ d.minute \in 0..59
      /\ DaysIn[d.year][d.month] \in 28..31 /\ First[d.year][d.month] \in Nat
  BY <1>1 DEF Cron!Bounds
<1>3. Cron!DayNumber(d) \in Nat
  BY <1>2 DEF Cron!DayNumber
<1>4. Cron!At(d) \in Nat
  BY <1>2, <1>3 DEF Cron!At
<1> QED
  BY <1>1, <1>2, <1>3, <1>4

LEMMA DateOf ==
    ASSUME Cron!Bounds, NEW y \in Years, NEW m \in 1..12, NEW n \in 1..DaysIn[y][m],
           NEW h \in 0..23, NEW k \in 0..59
    PROVE  [year |-> y, month |-> m, day |-> n, hour |-> h, minute |-> k] \in Cron!Dates
<1>1. DaysIn[y][m] \in 28..31
  BY DEF Cron!Bounds
<1>2. n \in 1..31
  BY <1>1
<1> QED
  BY <1>1, <1>2 DEF Cron!Dates

\* A later day has a larger number, whatever months are in between.
LEMMA DayOrder ==
    ASSUME Cron!Bounds, NEW d \in Cron!Dates, NEW e \in Cron!Dates, DayBefore(d, e)
    PROVE  Cron!DayNumber(d) < Cron!DayNumber(e)
<1>1. CASE d.year = e.year /\ d.month = e.month /\ d.day < e.day
  BY <1>1, DateFacts DEF Cron!DayNumber
<1>2. CASE d.year < e.year \/ (d.year = e.year /\ d.month < e.month)
  <2>1. First[d.year][d.month] + DaysIn[d.year][d.month] <= First[e.year][e.month]
    BY <1>2, DateFacts DEF Cron!Bounds
  <2> QED
    BY <2>1, DateFacts DEF Cron!DayNumber
<1> QED
  BY <1>1, <1>2 DEF DayBefore

\* datetime orders local times as their fields do.
LEMMA TimeOrder ==
    ASSUME Cron!Bounds, NEW d \in Cron!Dates, NEW e \in Cron!Dates
    PROVE  /\ Before(d, e) <=> Cron!At(d) < Cron!At(e)
           /\ Cron!At(d) = Cron!At(e) => d = e
<1>1. ASSUME NEW a \in Cron!Dates, NEW b \in Cron!Dates, Before(a, b)
      PROVE  Cron!At(a) < Cron!At(b)
  <2>0. /\ Cron!DayNumber(a) \in Nat /\ a.hour \in 0..23 /\ a.minute \in 0..59
        /\ Cron!DayNumber(b) \in Nat /\ b.hour \in 0..23 /\ b.minute \in 0..59
    BY DateFacts
  <2>1. \/ Cron!DayNumber(a) < Cron!DayNumber(b)
        \/ /\ Cron!DayNumber(a) = Cron!DayNumber(b)
           /\ a.hour < b.hour \/ (a.hour = b.hour /\ a.minute < b.minute)
    <3>1. DayBefore(a, b) => Cron!DayNumber(a) < Cron!DayNumber(b)
      BY DayOrder
    <3>2. SameDay(a, b) => Cron!DayNumber(a) = Cron!DayNumber(b)
      BY DEF SameDay, Cron!DayNumber
    <3> QED
      BY <1>1, <3>1, <3>2 DEF Before
  <2>2. 1440 * Cron!DayNumber(a) + 60 * a.hour + a.minute
          < 1440 * Cron!DayNumber(b) + 60 * b.hour + b.minute
    <3> DEFINE x == Cron!DayNumber(a)
               y == Cron!DayNumber(b)
               h == a.hour
               i == b.hour
               j == a.minute
               k == b.minute
    <3>1. /\ x \in Nat /\ y \in Nat /\ h \in 0..23 /\ i \in 0..23 /\ j \in 0..59 /\ k \in 0..59
          /\ x < y \/ (x = y /\ (h < i \/ (h = i /\ j < k)))
      BY <2>0, <2>1
    <3> HIDE DEF x, y, h, i, j, k
    <3>2. 1440 * x + 60 * h + j < 1440 * y + 60 * i + k
      BY <3>1
    <3> QED
      BY <3>2 DEF x, y, h, i, j, k
  <2> QED
    BY <2>2 DEF Cron!At
<1>2. Before(d, e) \/ Before(e, d) \/ d = e
  BY DateFacts DEF Before, DayBefore, SameDay
<1>3. Cron!At(d) \in Nat /\ Cron!At(e) \in Nat
  BY DateFacts
<1>4. Before(d, e) => Cron!At(d) < Cron!At(e)
  BY <1>1
<1>5. Before(e, d) => Cron!At(e) < Cron!At(d)
  BY <1>1
<1> QED
  BY <1>2, <1>3, <1>4, <1>5

\* Where a step of the walk may go: to a later time, past none that matches.
Onward(to) ==
    to.year \in Years =>
        /\ to \in Cron!Dates
        /\ Before(local, to)
        /\ \A e \in Cron!Dates : Before(e, to) /\ ~Before(e, local) => ~Cron!Matches(cron, e)

LEMMA NextDayFacts ==
    ASSUME Cron!Bounds, NEW d \in Cron!Dates, Cron!NextDay(d).year \in Years
    PROVE  /\ Cron!NextDay(d) \in Cron!Dates
           /\ Before(d, Cron!NextDay(d))
           /\ \A e \in Cron!Dates : Before(e, Cron!NextDay(d)) /\ ~Before(e, d) => SameDay(e, d)
<1> DEFINE t == Cron!NextDay(d)
<1>0. \A y \in Years, m \in 1..12 : DaysIn[y][m] \in 28..31
  BY DEF Cron!Bounds
<1>1. CASE d.day < DaysIn[d.year][d.month]
  <2>1. t = [year |-> d.year, month |-> d.month, day |-> d.day + 1, hour |-> 0, minute |-> 0]
    BY <1>1 DEF Cron!NextDay, Cron!Midnight
  <2> HIDE DEF t
  <2>2. t \in Cron!Dates
    <3>1. /\ d.day + 1 \in 1..DaysIn[d.year][d.month] /\ 0 \in 0..23 /\ 0 \in 0..59
          /\ d.year \in Years /\ d.month \in 1..12
      BY <1>1, DateFacts
    <3> QED
      BY <2>1, <3>1, DateOf
  <2> QED
    BY <2>1, <2>2, DateFacts DEF Before, DayBefore, SameDay, t
<1>2. CASE ~(d.day < DaysIn[d.year][d.month]) /\ d.month < 12
  <2>1. t = [year |-> d.year, month |-> d.month + 1, day |-> 1, hour |-> 0, minute |-> 0]
    BY <1>2 DEF Cron!NextDay, Cron!Midnight
  <2> HIDE DEF t
  <2>2. t \in Cron!Dates
    <3>1. d.month + 1 \in 1..12 /\ d.year \in Years
      BY <1>2, DateFacts
    <3>2. 1 \in 1..DaysIn[d.year][d.month + 1] /\ 0 \in 0..23 /\ 0 \in 0..59
      BY <1>0, <3>1
    <3> QED
      BY <2>1, <3>1, <3>2, DateOf
  <2>3. d.day = DaysIn[d.year][d.month]
    BY <1>2, DateFacts
  <2>4. \A e \in Cron!Dates : Before(e, t) /\ ~Before(e, d) => SameDay(e, d)
    BY <2>1, <2>3, DateFacts DEF Before, DayBefore, SameDay
  <2> QED
    BY <2>1, <2>2, <2>4, DateFacts DEF Before, DayBefore, t
<1>3. CASE ~(d.day < DaysIn[d.year][d.month]) /\ ~(d.month < 12)
  <2>1. t = [year |-> d.year + 1, month |-> 1, day |-> 1, hour |-> 0, minute |-> 0]
    BY <1>3 DEF Cron!NextDay, Cron!Midnight
  <2>2. d.year + 1 \in Years
    BY <2>1
  <2> HIDE DEF t
  <2>3. t \in Cron!Dates
    <3>1. 1 \in 1..DaysIn[d.year + 1][1] /\ 1 \in 1..12 /\ 0 \in 0..23 /\ 0 \in 0..59
      BY <1>0, <2>2
    <3> QED
      BY <2>1, <2>2, <3>1, DateOf
  <2>4. d.day = DaysIn[d.year][d.month] /\ d.month = 12
    BY <1>3, DateFacts
  <2>5. \A e \in Cron!Dates : Before(e, t) /\ ~Before(e, d) => SameDay(e, d)
    BY <2>1, <2>4, DateFacts DEF Before, DayBefore, SameDay
  <2> QED
    BY <2>1, <2>3, <2>5, DateFacts DEF Before, DayBefore, t
<1> QED
  BY <1>1, <1>2, <1>3

LEMMA NextMinuteFacts ==
    ASSUME Cron!Bounds, NEW d \in Cron!Dates, Cron!NextMinute(d).year \in Years
    PROVE  /\ Cron!NextMinute(d) \in Cron!Dates
           /\ Before(d, Cron!NextMinute(d))
           /\ \A e \in Cron!Dates : Before(e, Cron!NextMinute(d)) /\ ~Before(e, d) => e = d
<1> DEFINE t == Cron!NextMinute(d)
<1>1. CASE d.minute < 59
  <2>1. t = [year |-> d.year, month |-> d.month, day |-> d.day, hour |-> d.hour,
             minute |-> d.minute + 1]
    BY <1>1, DateFacts DEF Cron!NextMinute
  <2> HIDE DEF t
  <2>2. t \in Cron!Dates
    <3>1. d.minute + 1 \in 0..59 /\ d.day \in 1..DaysIn[d.year][d.month]
      BY <1>1, DateFacts
    <3> QED
      BY <2>1, <3>1, DateFacts, DateOf
  <2>3. \A e \in Cron!Dates : Before(e, t) /\ ~Before(e, d) => e = d
    BY <2>1, DateFacts DEF Before, DayBefore, SameDay
  <2> QED
    BY <2>1, <2>2, <2>3, DateFacts DEF Before, SameDay, t
<1>2. CASE ~(d.minute < 59) /\ d.hour < 23
  <2>1. t = [year |-> d.year, month |-> d.month, day |-> d.day, hour |-> d.hour + 1,
             minute |-> 0]
    <3>1. t = [d EXCEPT !.hour = @ + 1, !.minute = 0]
      BY <1>2 DEF Cron!NextMinute
    <3>2. d = [year |-> d.year, month |-> d.month, day |-> d.day, hour |-> d.hour,
               minute |-> d.minute]
      BY DateFacts
    <3> HIDE DEF t
    <3> QED
      BY <3>1, <3>2
  <2> HIDE DEF t
  <2>2. t \in Cron!Dates
    <3>1. d.hour + 1 \in 0..23 /\ 0 \in 0..59 /\ d.day \in 1..DaysIn[d.year][d.month]
      BY <1>2, DateFacts
    <3> QED
      BY <2>1, <3>1, DateFacts, DateOf
  <2>3. d.minute = 59
    BY <1>2, DateFacts
  <2>4. \A e \in Cron!Dates : Before(e, t) /\ ~Before(e, d) => e = d
    BY <2>1, <2>3, DateFacts DEF Before, DayBefore, SameDay
  <2> QED
    BY <2>1, <2>2, <2>4, DateFacts DEF Before, SameDay, t
<1>3. CASE ~(d.minute < 59) /\ ~(d.hour < 23)
  <2>1. t = Cron!NextDay(d) /\ d.minute = 59 /\ d.hour = 23
    BY <1>3, DateFacts DEF Cron!NextMinute
  <2>2. \A e \in Cron!Dates : SameDay(e, d) /\ ~Before(e, d) => e = d
    BY <2>1, DateFacts DEF Before, SameDay
  <2> QED
    BY <2>1, <2>2, NextDayFacts
<1> QED
  BY <1>1, <1>2, <1>3

\* The months and the hours that a step passes over are not those of the expression.
LEMMA MonthsOn ==
    ASSUME Cron!Bounds, NEW c \in Expressions, NEW d \in Cron!Dates, d.month \notin c.months,
           Cron!AdvanceMonth(d, c.months).year \in Years
    PROVE  /\ Cron!AdvanceMonth(d, c.months) \in Cron!Dates
           /\ Before(d, Cron!AdvanceMonth(d, c.months))
           /\ \A e \in Cron!Dates : /\ Before(e, Cron!AdvanceMonth(d, c.months))
                                   /\ ~Before(e, d)
                                   => e.month \notin c.months
<1> DEFINE t == Cron!AdvanceMonth(d, c.months)
           later == Cron!Later(c.months, d.month)
<1>1. c.months \subseteq 1..12 /\ c.months # {}
  BY DEF Cron!Bounds, Cron!Parsed
<1>2. \A y \in Years, m \in 1..12 : /\ 1 \in 1..DaysIn[y][m]
                                     /\ 0 \in 0..23 /\ 0 \in 0..59
  BY DEF Cron!Bounds
<1>3. CASE later # {}
  <2> DEFINE m == Cron!Least(later)
  <2>1. later \subseteq Nat
    BY <1>1 DEF Cron!Later
  <2>2. m \in later /\ \A n \in later : m <= n
    BY <1>3, <2>1, LeastFacts
  <2>3. m \in 1..12 /\ d.month < m /\ \A n \in c.months : ~(d.month < n /\ n < m)
    <3>1. \A n : n \in later <=> n \in c.months /\ n > d.month
      BY DEF Cron!Later
    <3> HIDE DEF m, later
    <3> QED
      BY <1>1, <2>2, <3>1, DateFacts
  <2>4. t = [year |-> d.year, month |-> m, day |-> 1, hour |-> 0, minute |-> 0]
    BY <1>3 DEF Cron!AdvanceMonth, Cron!Midnight
  <2> HIDE DEF m, t, later
  <2>5. t \in Cron!Dates
    BY <1>2, <2>3, <2>4, DateFacts, DateOf
  <2>6. Before(d, t)
    BY <2>3, <2>4 DEF Before, DayBefore
  <2>7. ASSUME NEW e \in Cron!Dates, Before(e, t), ~Before(e, d), e.month \in c.months
        PROVE  FALSE
    <3>1. e.year = d.year /\ d.month <= e.month /\ e.month < m
      BY <2>3, <2>4, <2>7, DateFacts DEF Before, DayBefore, SameDay
    <3> QED
      BY <2>3, <2>7, <3>1, DateFacts
  <2> QED
    BY <2>5, <2>6, <2>7 DEF t
<1>4. CASE later = {}
  <2> DEFINE m == Cron!Least(c.months)
  <2>1. c.months \subseteq Nat
    BY <1>1
  <2>2. m \in c.months /\ \A n \in c.months : m <= n
    BY <1>1, <2>1, LeastFacts
  <2>3. m \in 1..12 /\ \A n \in c.months : ~(d.month < n) /\ ~(n < m)
    BY <1>1, <1>4, <2>2, DateFacts DEF Cron!Later
  <2>4. t = [year |-> d.year + 1, month |-> m, day |-> 1, hour |-> 0, minute |-> 0]
    BY <1>4 DEF Cron!AdvanceMonth, Cron!Midnight
  <2>5. d.year + 1 \in Years
    BY <2>4
  <2> HIDE DEF m, t, later
  <2>6. t \in Cron!Dates
    BY <1>2, <2>3, <2>4, <2>5, DateOf
  <2>7. Before(d, t)
    BY <2>4, DateFacts DEF Before, DayBefore
  <2>8. ASSUME NEW e \in Cron!Dates, Before(e, t), ~Before(e, d), e.month \in c.months
        PROVE  FALSE
    <3>1. \/ e.year = d.year /\ d.month <= e.month
          \/ e.year = d.year + 1 /\ e.month < m
      BY <2>3, <2>4, <2>8, DateFacts DEF Before, DayBefore, SameDay
    <3> QED
      BY <2>3, <2>8, <3>1, DateFacts
  <2> QED
    BY <2>6, <2>7, <2>8 DEF t
<1> QED
  BY <1>3, <1>4

LEMMA HoursOn ==
    ASSUME Cron!Bounds, NEW c \in Expressions, NEW d \in Cron!Dates, d.hour \notin c.hours,
           Cron!AdvanceHour(d, c.hours).year \in Years
    PROVE  /\ Cron!AdvanceHour(d, c.hours) \in Cron!Dates
           /\ Before(d, Cron!AdvanceHour(d, c.hours))
           /\ \A e \in Cron!Dates : /\ Before(e, Cron!AdvanceHour(d, c.hours))
                                   /\ ~Before(e, d)
                                   => e.hour \notin c.hours
<1> DEFINE t == Cron!AdvanceHour(d, c.hours)
           later == Cron!Later(c.hours, d.hour)
<1>1. c.hours \subseteq 0..23
  BY DEF Cron!Bounds, Cron!Parsed
<1>2. CASE later # {}
  <2> DEFINE h == Cron!Least(later)
  <2>1. later \subseteq Nat
    BY <1>1 DEF Cron!Later
  <2>2. h \in later /\ \A n \in later : h <= n
    BY <1>2, <2>1, LeastFacts
  <2>3. h \in 0..23 /\ d.hour < h /\ \A n \in c.hours : ~(d.hour < n /\ n < h)
    <3>1. \A n : n \in later <=> n \in c.hours /\ n > d.hour
      BY DEF Cron!Later
    <3> HIDE DEF h, later
    <3> QED
      BY <1>1, <2>2, <3>1, DateFacts
  <2>4. t = [year |-> d.year, month |-> d.month, day |-> d.day, hour |-> h, minute |-> 0]
    <3>1. t = [d EXCEPT !.hour = h, !.minute = 0]
      BY <1>2 DEF Cron!AdvanceHour
    <3>2. d = [year |-> d.year, month |-> d.month, day |-> d.day, hour |-> d.hour,
               minute |-> d.minute]
      BY DateFacts
    <3> HIDE DEF t, h
    <3> QED
      BY <3>1, <3>2
  <2> HIDE DEF h, t, later
  <2>5. t \in Cron!Dates
    <3>1. 0 \in 0..59 /\ d.day \in 1..DaysIn[d.year][d.month]
      BY DateFacts
    <3> QED
      BY <2>3, <2>4, <3>1, DateFacts, DateOf
  <2>6. Before(d, t)
    BY <2>3, <2>4 DEF Before, SameDay
  <2>7. ASSUME NEW e \in Cron!Dates, Before(e, t), ~Before(e, d), e.hour \in c.hours
        PROVE  FALSE
    <3>1. d.hour <= e.hour /\ e.hour < h
      BY <2>3, <2>4, <2>7, DateFacts DEF Before, DayBefore, SameDay
    <3> QED
      BY <2>3, <2>7, <3>1, DateFacts
  <2> QED
    BY <2>5, <2>6, <2>7 DEF t
<1>3. CASE later = {}
  <2>1. t = Cron!NextDay(d)
    BY <1>3 DEF Cron!AdvanceHour
  <2>2. \A n \in c.hours : ~(d.hour < n)
    BY <1>3 DEF Cron!Later
  <2>3. ASSUME NEW e \in Cron!Dates, Before(e, t), ~Before(e, d), e.hour \in c.hours
        PROVE  FALSE
    <3>1. SameDay(e, d)
      BY <2>1, <2>3, NextDayFacts
    <3>2. d.hour <= e.hour
      BY <2>3, <3>1, DateFacts DEF Before
    <3> QED
      BY <2>2, <2>3, <3>2, DateFacts
  <2> QED
    BY <2>1, <2>3, NextDayFacts
<1> QED
  BY <1>2, <1>3

-----------------------------------------------------------------------------
(* The invariant of the search                                             *)

\* What the search was asked: a local time, and which of its instants.
Asked ==
    \E s \in Moments, fold \in {0, 1} :
        /\ began = Cron!Instant(zone, Cron!At(s), fold)
        /\ Cron!Wall(zone, began) = Cron!At(s)
        /\ since = Cron!NextMinute(s)

\* No local time from the first one on that the walk has left behind matches.
NothingPassed ==
    \A d \in Cron!Dates :
        Cron!At(since) <= Cron!At(d) /\ Cron!At(d) < Cron!At(local) => ~Cron!Matches(cron, d)

CronInv ==
    /\ Cron!TypeOK /\ Asked /\ NothingPassed
    /\ Cron!At(since) <= Cron!At(local)
    /\ pc = "found" => Cron!Matches(cron, local)

\* The start of a search, and the minute after it.
LEMMA StartFacts ==
    ASSUME Cron!Bounds, NEW s \in Moments
    PROVE  /\ s \in Cron!Dates /\ Cron!NextMinute(s) \in Cron!Dates
           /\ Before(s, Cron!NextMinute(s))
           /\ \A e \in Cron!Dates : Before(e, Cron!NextMinute(s)) /\ ~Before(e, s) => e = s
<1>1. s \in Cron!Dates /\ s.year + 1 \in Years
  BY DEF Cron!Bounds
<1>2. s = [year |-> s.year, month |-> s.month, day |-> s.day, hour |-> s.hour,
           minute |-> s.minute] /\ s.year \in Years
  BY <1>1, DateFacts
<1>3. Cron!NextDay(s).year \in Years
  BY <1>1, <1>2 DEF Cron!NextDay, Cron!Midnight
<1>4. [s EXCEPT !.minute = @ + 1].year = s.year
      /\ [s EXCEPT !.hour = @ + 1, !.minute = 0].year = s.year
  BY <1>2
<1>5. Cron!NextMinute(s).year \in Years
  BY <1>2, <1>3, <1>4 DEF Cron!NextMinute
<1> QED
  BY <1>1, <1>5, NextMinuteFacts

LEMMA InstantType ==
    ASSUME NEW z \in [change : Int, before : Int, after : Int], NEW w \in Int, NEW fold
    PROVE  Cron!Instant(z, w, fold) \in Int
BY DEF Cron!Instant

LEMMA CronInvInit == ASSUME Cron!Bounds, Cron!Init PROVE CronInv
<1>1. PICK s \in Moments, fold \in {0, 1} :
          /\ began = Cron!Instant(zone, Cron!At(s), fold)
          /\ Cron!Wall(zone, began) = Cron!At(s)
          /\ since = Cron!NextMinute(s)
  BY DEF Cron!Init
<1>2. zone \in [change : Int, before : Int, after : Int] /\ Cron!At(s) \in Int
  BY StartFacts, DateFacts DEF Cron!Init, Cron!Bounds
<1>3. began \in Int
  BY <1>1, <1>2, InstantType
<1>4. since \in Cron!Dates /\ local = since /\ pc = "walking"
  BY <1>1, StartFacts DEF Cron!Init
<1>5. Cron!At(since) \in Nat /\ Cron!At(local) = Cron!At(since)
  BY <1>4, DateFacts
<1>6. NothingPassed
  BY <1>5, DateFacts DEF NothingPassed
<1> QED
  BY <1>1, <1>3, <1>4, <1>5, <1>6 DEF CronInv, Cron!TypeOK, Asked, Cron!Init

\* A step of the walk past times that do not match, to a later one.
LEMMA WalkStep ==
    ASSUME Cron!Bounds, CronInv, pc = "walking", NEW to, Onward(to), Cron!WalkTo(to)
    PROVE  CronInv' /\ (pc' = "walking" => Cron!At(local) < Cron!At(local'))
<1>1. CASE to.year \in Years
  <2>1. local' = to /\ UNCHANGED <<cron, zone, began, since, pc>>
    BY <1>1 DEF Cron!WalkTo
  <2>2. local \in Cron!Dates /\ to \in Cron!Dates /\ since \in Cron!Dates
    BY <1>1 DEF Onward, CronInv, Cron!TypeOK
  <2>3. Cron!At(local) < Cron!At(to)
    BY <1>1, <2>2, TimeOrder DEF Onward
  <2>4. \A d \in Cron!Dates : Cron!At(d) \in Nat
    BY DateFacts
  <2>5. ASSUME NEW d \in Cron!Dates, Cron!At(since) <= Cron!At(d), Cron!At(d) < Cron!At(to)
        PROVE  ~Cron!Matches(cron, d)
    <3>1. CASE Cron!At(d) < Cron!At(local)
      BY <2>5, <3>1 DEF CronInv, NothingPassed
    <3>2. CASE ~(Cron!At(d) < Cron!At(local))
      <4>1. ~Before(d, local)
        BY <2>2, <3>2, TimeOrder
      <4>2. Before(d, to)
        BY <2>2, <2>5, TimeOrder
      <4> QED
        BY <1>1, <4>1, <4>2 DEF Onward
    <3> QED
      BY <3>1, <3>2
  <2>6. NothingPassed'
    BY <2>1, <2>5 DEF NothingPassed, Cron!At, Cron!DayNumber, Cron!Matches, Cron!DayMatches
  <2>7. Cron!At(since) <= Cron!At(to)
    BY <2>2, <2>3, <2>4 DEF CronInv
  <2>8. Cron!TypeOK' /\ Asked'
    BY <2>1, <2>2 DEF CronInv, Cron!TypeOK, Asked
  <2> QED
    BY <2>1, <2>3, <2>6, <2>7, <2>8 DEF CronInv
<1>2. CASE to.year \notin Years
  BY <1>2 DEF Cron!WalkTo, Cron!Stop, CronInv, Cron!TypeOK, Asked, NothingPassed
<1> QED
  BY <1>1, <1>2

LEMMA CronInvStep ==
    ASSUME Cron!Bounds, CronInv, [Cron!Next]_(Cron!vars)
    PROVE  CronInv' /\ (Cron!Next /\ pc' = "walking" => Cron!At(local) < Cron!At(local'))
<1>0. cron \in Expressions /\ local \in Cron!Dates /\ Cron!Parsed(cron)
  BY DEF CronInv, Cron!TypeOK, Cron!Bounds
<1>1. CASE Cron!SkipMonth
  <2>1. Onward(Cron!AdvanceMonth(local, cron.months))
    BY <1>0, <1>1, MonthsOn DEF Onward, Cron!SkipMonth, Cron!MonthRuledOut, Cron!Matches
  <2> QED
    BY <1>1, <2>1, WalkStep DEF Cron!SkipMonth, Cron!Walking
<1>2. CASE Cron!SkipDay
  <2>1. ASSUME NEW e \in Cron!Dates, SameDay(e, local) PROVE ~Cron!Matches(cron, e)
    BY <1>2, <2>1 DEF SameDay, Cron!SkipDay, Cron!DayRuledOut, Cron!Matches, Cron!DayMatches
  <2>2. Onward(Cron!NextDay(local))
    BY <1>0, <2>1, NextDayFacts DEF Onward
  <2> QED
    BY <1>2, <2>2, WalkStep DEF Cron!SkipDay, Cron!Walking
<1>3. CASE Cron!SkipHour
  <2>1. Onward(Cron!AdvanceHour(local, cron.hours))
    BY <1>0, <1>3, HoursOn DEF Onward, Cron!SkipHour, Cron!HourRuledOut, Cron!Matches
  <2> QED
    BY <1>3, <2>1, WalkStep DEF Cron!SkipHour, Cron!Walking
<1>4. CASE Cron!SkipMinute
  <2>1. Onward(Cron!NextMinute(local))
    BY <1>0, <1>4, NextMinuteFacts DEF Onward, Cron!SkipMinute
  <2> QED
    BY <1>4, <2>1, WalkStep DEF Cron!SkipMinute, Cron!Candidate, Cron!Walking
<1>5. CASE Cron!Found
  BY <1>5 DEF Cron!Found, Cron!Stop, CronInv, Cron!TypeOK, Asked, NothingPassed
<1>6. CASE Cron!GiveUp
  BY <1>6 DEF Cron!GiveUp, Cron!Stop, CronInv, Cron!TypeOK, Asked, NothingPassed
<1>7. CASE UNCHANGED Cron!vars
  <2>1. CronInv'
    BY <1>7 DEF Cron!vars, CronInv, Cron!TypeOK, Asked, NothingPassed
  <2>2. ASSUME Cron!Next, pc' = "walking" PROVE Cron!At(local) < Cron!At(local')
    <3>1. ~Cron!Found /\ ~Cron!GiveUp
      BY <2>2 DEF Cron!Found, Cron!GiveUp, Cron!Stop
    <3> QED
      BY <1>1, <1>2, <1>3, <1>4, <2>2, <3>1 DEF Cron!Next
  <2> QED
    BY <2>1, <2>2
<1> QED
  BY <1>1, <1>2, <1>3, <1>4, <1>5, <1>6, <1>7 DEF Cron!Next

-----------------------------------------------------------------------------
(* Instants                                                                *)

\* A shown time that is not shown again has one instant, and a later time, shown or
\* skipped, a later one.
LEMMA InstantFacts ==
    ASSUME NEW z \in [change : Int, before : Int, after : Int], NEW w \in Int,
           NEW fold \in {0, 1}, Cron!Wall(z, Cron!Instant(z, w, fold)) = w,
           ~Cron!SecondPass(z, Cron!Instant(z, w, fold))
    PROVE  /\ Cron!Instant(z, w, fold) = Cron!Instant(z, w, 0)
           /\ \A v \in Int : w < v => Cron!Instant(z, w, 0) < Cron!Instant(z, v, 0)
<1> DEFINE c == z.change b == z.before a == z.after
<1>1. c \in Int /\ b \in Int /\ a \in Int
  OBVIOUS
<1>2. \A v : Cron!Instant(z, v, 0) =
          IF b >= a THEN IF v < c + b THEN v - b ELSE v - a
          ELSE IF v < c + a THEN v - b ELSE v - a
  BY DEF Cron!Instant
<1>3. \A v : Cron!Instant(z, v, 1) =
          IF b >= a THEN IF v < c + a THEN v - b ELSE v - a
          ELSE IF v < c + b THEN v - b ELSE v - a
  BY DEF Cron!Instant
<1>4. \A i : /\ Cron!Wall(z, i) = i + (IF i < c THEN b ELSE a)
             /\ Cron!SecondPass(z, i) <=> c <= i /\ i + a < c + b
  BY DEF Cron!Wall, Cron!SecondPass
<1> HIDE DEF c, b, a
<1>5. CASE fold = 0
  BY <1>1, <1>2, <1>4, <1>5
<1>6. CASE fold = 1
  BY <1>1, <1>2, <1>3, <1>4, <1>6
<1> QED
  BY <1>5, <1>6

\* The first instant that shows a time shows it for the first time.
LEMMA FirstPass ==
    ASSUME NEW z \in [change : Int, before : Int, after : Int], NEW w \in Int,
           Cron!Wall(z, Cron!Instant(z, w, 0)) = w
    PROVE  ~Cron!SecondPass(z, Cron!Instant(z, w, 0))
<1> DEFINE c == z.change b == z.before a == z.after
<1>1. c \in Int /\ b \in Int /\ a \in Int
  OBVIOUS
<1>2. \A v : Cron!Instant(z, v, 0) =
          IF b >= a THEN IF v < c + b THEN v - b ELSE v - a
          ELSE IF v < c + a THEN v - b ELSE v - a
  BY DEF Cron!Instant
<1>3. \A i : /\ Cron!Wall(z, i) = i + (IF i < c THEN b ELSE a)
             /\ Cron!SecondPass(z, i) <=> c <= i /\ i + a < c + b
  BY DEF Cron!Wall, Cron!SecondPass
<1> HIDE DEF c, b, a
<1> QED
  BY <1>1, <1>2, <1>3

LEMMA EligibleFacts ==
    ASSUME NEW d \in Cron!Eligible
    PROVE  d \in Cron!Dates /\ Cron!Matches(cron, d)
BY DEF Cron!Eligible

LEMMA FirstMatchFollows == ASSUME Cron!Bounds, CronInv PROVE FirstMatch
BY EligibleFacts DEF CronInv, NothingPassed, FirstMatch, Cron!FirstMatch

LEMMA NextFiringFollows == ASSUME Cron!Bounds, CronInv PROVE NextFiring
<1> SUFFICES ASSUME ~Cron!SecondPass(zone, began)
             PROVE  /\ Cron!Result > began
                    /\ Cron!Wall(zone, Cron!Result) = Cron!At(local) =>
                         \A d \in Cron!Eligible, fold \in {0, 1} :
                           LET i == Cron!Instant(zone, Cron!At(d), fold)
                           IN  began < i /\ i < Cron!Result /\ Cron!Wall(zone, i) = Cron!At(d)
                               => Cron!SecondPass(zone, i)
  BY DEF NextFiring, Cron!NextFiring
<1>1. PICK s \in Moments, g \in {0, 1} :
          /\ began = Cron!Instant(zone, Cron!At(s), g)
          /\ Cron!Wall(zone, began) = Cron!At(s)
          /\ since = Cron!NextMinute(s)
  BY DEF CronInv, Asked
<1>2. /\ zone \in [change : Int, before : Int, after : Int]
      /\ s \in Cron!Dates /\ since \in Cron!Dates /\ local \in Cron!Dates
      /\ \A d \in Cron!Dates : Cron!At(d) \in Int
  BY <1>1, StartFacts, DateFacts DEF CronInv, Cron!TypeOK, Cron!Bounds
<1>3. Cron!At(s) < Cron!At(since) /\ Cron!At(since) <= Cron!At(local)
  BY <1>1, <1>2, StartFacts, TimeOrder DEF CronInv
<1>4. /\ began = Cron!Instant(zone, Cron!At(s), 0)
      /\ \A v \in Int : Cron!At(s) < v => began < Cron!Instant(zone, v, 0)
  BY <1>1, <1>2, InstantFacts
<1>5. began < Cron!Result
  BY <1>2, <1>3, <1>4 DEF Cron!Result
<1>6. \A d \in Cron!Dates, fold \in {0, 1} : Cron!Instant(zone, Cron!At(d), fold) \in Int
  BY <1>2, InstantType
<1>7. began \in Int /\ Cron!Result \in Int
  BY <1>1, <1>2, <1>6 DEF Cron!Result
<1>8. ASSUME Cron!Wall(zone, Cron!Result) = Cron!At(local),
             NEW d \in Cron!Eligible, NEW fold \in {0, 1},
             began < Cron!Instant(zone, Cron!At(d), fold),
             Cron!Instant(zone, Cron!At(d), fold) < Cron!Result,
             Cron!Wall(zone, Cron!Instant(zone, Cron!At(d), fold)) = Cron!At(d),
             ~Cron!SecondPass(zone, Cron!Instant(zone, Cron!At(d), fold))
      PROVE  FALSE
  <2> DEFINE i == Cron!Instant(zone, Cron!At(d), fold)
  <2>1. d \in Cron!Dates /\ Cron!Matches(cron, d)
    BY EligibleFacts
  <2>2. i \in Int
    BY <1>6, <2>1
  <2>3. /\ i = Cron!Instant(zone, Cron!At(d), 0)
        /\ \A v \in Int : Cron!At(d) < v => i < Cron!Instant(zone, v, 0)
    BY <1>2, <1>8, <2>1, InstantFacts
  <2>4. \A v \in Int : Cron!At(local) < v => Cron!Result < Cron!Instant(zone, v, 0)
    <3>1. ~Cron!SecondPass(zone, Cron!Result)
      BY <1>2, <1>8, FirstPass DEF Cron!Result
    <3> QED
      BY <1>2, <1>8, <3>1, InstantFacts DEF Cron!Result
  <2>5. Cron!At(d) \in Int /\ Cron!At(s) \in Int /\ Cron!At(local) \in Int
    BY <1>2, <2>1
  <2>6. Cron!At(s) < Cron!At(d)
    <3>1. Cron!At(d) # Cron!At(s)
      BY <1>4, <1>7, <1>8, <2>3
    <3>2. ~(Cron!At(d) < Cron!At(s))
      BY <1>4, <1>7, <1>8, <2>2, <2>3, <2>5
    <3> QED
      BY <2>5, <3>1, <3>2
  <2>7. Cron!At(d) < Cron!At(local)
    <3>1. Cron!At(d) # Cron!At(local)
      BY <1>7, <1>8, <2>3 DEF Cron!Result
    <3>2. ~(Cron!At(local) < Cron!At(d))
      BY <1>7, <1>8, <2>2, <2>3, <2>4, <2>5
    <3> QED
      BY <2>5, <3>1, <3>2
  <2>8. Cron!At(since) <= Cron!At(d)
    <3>1. CASE Before(d, since)
      <4>1. ~Before(d, s) /\ d # s
        BY <1>2, <2>1, <2>5, <2>6, TimeOrder
      <4> QED
        BY <1>1, <2>1, <3>1, <4>1, StartFacts
    <3>2. CASE ~Before(d, since)
      BY <1>2, <2>1, <3>2, TimeOrder
    <3> QED
      BY <3>1, <3>2
  <2> QED
    BY <2>1, <2>7, <2>8 DEF CronInv, NothingPassed
<1> QED
  BY <1>5, <1>7, <1>8

\* A behaviour of the services is one of the search.
LEMMA CronAlone == ServicesSpec => Cron!Spec
<1>1. ServicesInit => Cron!Init
  BY DEF ServicesInit
<1>2. [ServicesNext]_serviceVars => [Cron!Next]_(Cron!vars)
  BY DEF ServicesNext, serviceVars, ReleaseStep, ReceiptStep, RootStep, EventStep, HandoffStep,
         CronStep, OutreachStep, TaskStep, cronVars, Cron!vars
<1> QED
  BY <1>1, <1>2, PTL DEF ServicesSpec, Cron!Spec

\* However the loop skips months, days, hours and minutes (cron.py:314), it passes
\* over no local time that the expression matches, over month ends, leap days and
\* years, for any expression and any calendar whose months follow one another.
THEOREM SearchesFindTheFirst == ServicesSpec => []FirstMatch
<1>1. Cron!Init => CronInv
  BY ServicesBounds, CronInvInit
<1>2. CronInv /\ [Cron!Next]_(Cron!vars) => CronInv'
  BY ServicesBounds, CronInvStep
<1>3. CronInv => FirstMatch
  BY ServicesBounds, FirstMatchFollows
<1> QED
  BY <1>1, <1>2, <1>3, CronAlone, PTL DEF Cron!Spec

\* Outside the hours that a zone's clock shows twice or skips, next_after returns
\* the next firing, whatever the zone.
THEOREM SearchesFindTheNext == ServicesSpec => []NextFiring
<1>1. Cron!Init => CronInv
  BY ServicesBounds, CronInvInit
<1>2. CronInv /\ [Cron!Next]_(Cron!vars) => CronInv'
  BY ServicesBounds, CronInvStep
<1>3. CronInv => NextFiring
  BY ServicesBounds, NextFiringFollows
<1> QED
  BY <1>1, <1>2, <1>3, CronAlone, PTL DEF Cron!Spec

\* "The walk is bounded at four years ahead" (cron.py:299): every step that does not
\* end it is made within four years and goes forward.
THEOREM WalksAlwaysEnd == ServicesSpec => WalkEnds
<1>1. Cron!Init => CronInv
  BY ServicesBounds, CronInvInit
<1>2. CronInv /\ [Cron!Next]_(Cron!vars) => CronInv'
  BY ServicesBounds, CronInvStep
<1>3. CronInv /\ Cron!Next /\ pc' = "walking" =>
          /\ Cron!At(local) < Cron!At(local')
          /\ Cron!At(since) <= Cron!At(local) /\ Cron!At(local) <= Cron!At(since) + Cron!Horizon
  <2>1. ASSUME CronInv, Cron!Next, pc' = "walking" PROVE Cron!At(local) < Cron!At(local')
    BY <2>1, ServicesBounds, CronInvStep
  <2>2. ASSUME CronInv, Cron!Next, pc' = "walking"
        PROVE  /\ Cron!At(since) <= Cron!At(local)
               /\ Cron!At(local) <= Cron!At(since) + Cron!Horizon
    BY <2>2 DEF CronInv, Cron!Next, Cron!SkipMonth, Cron!SkipDay, Cron!SkipHour, Cron!Found,
                Cron!SkipMinute, Cron!GiveUp, Cron!Candidate, Cron!Walking, Cron!Stop
  <2> QED
    BY <2>1, <2>2
<1>4. Cron!Spec => [][pc' = "walking" => /\ Cron!At(local) < Cron!At(local')
                          /\ Cron!At(since) <= Cron!At(local)
                          /\ Cron!At(local) <= Cron!At(since) + Cron!Horizon]_(Cron!vars)
  BY <1>1, <1>2, <1>3, PTL DEF Cron!Spec
<1> QED
  BY <1>4, CronAlone, PTL DEF WalkEnds, Cron!WalkEnds

-----------------------------------------------------------------------------
(* Outreach                                                                *)

\* Calls that may yet write that their mail was sent.
Away == {s \in Mailers : send[s].pc \in {"post", "accepted"}}

OutreachInv ==
    /\ Outreach!TypeOK
    /\ IsFiniteSet(Outreach!SentToday)
    /\ Cardinality(Outreach!SentToday) + Cardinality(Away) + 1 <= Cap + Cardinality(Mailers)

\* The instance counts as the theorems about finite sets do.
LEMMA OutreachCounts ==
    \A S : /\ Outreach!IsFiniteSet(S) <=> IsFiniteSet(S)
           /\ Outreach!Cardinality(S) = Cardinality(S)
BY DEF Outreach!IsFiniteSet, IsFiniteSet, Outreach!Cardinality, Cardinality

LEMMA MailersAndCap ==
    ASSUME Outreach!Bounds
    PROVE  /\ IsFiniteSet(Mailers) /\ Cardinality(Mailers) \in Nat
           /\ Cap \in Nat \ {0}
<1>1. IsFiniteSet(Mailers) /\ Cap \in Nat \ {0}
  BY OutreachCounts DEF Outreach!Bounds
<1> QED
  BY <1>1, FS_CardinalityType

LEMMA OutreachIdleType == ASSUME Outreach!Bounds PROVE Outreach!Idle \in Outreach!Send
BY DEF Outreach!Bounds, Outreach!Idle, Outreach!Send, Outreach!SomeDraft

\* How many may be away, and what is known of the numbers that are compared.
LEMMA AwayFacts ==
    ASSUME Outreach!Bounds
    PROVE  /\ IsFiniteSet(Away) /\ Cardinality(Away) \in Nat
           /\ Cardinality(Away) <= Cardinality(Mailers)
           /\ Cardinality(Mailers) \in Nat
<1>1. Away \in SUBSET Mailers
  BY DEF Away
<1>2. IsFiniteSet(Away) /\ Cardinality(Away) <= Cardinality(Mailers)
  BY <1>1, MailersAndCap, FS_Subset
<1> QED
  BY <1>2, MailersAndCap, FS_CardinalityType

\* A step after which fewer were sent today and fewer are away.
LEMMA OutreachFewer ==
    ASSUME Outreach!Bounds, OutreachInv, Outreach!TypeOK',
           Outreach!SentToday' \subseteq Outreach!SentToday, Away' \subseteq Away
    PROVE  OutreachInv'
<1>1. /\ IsFiniteSet(Outreach!SentToday') /\ Cardinality(Outreach!SentToday') \in Nat
      /\ Cardinality(Outreach!SentToday') <= Cardinality(Outreach!SentToday)
      /\ Cardinality(Outreach!SentToday) \in Nat
  BY FS_Subset, FS_CardinalityType DEF OutreachInv
<1>2. /\ Cardinality(Away') \in Nat /\ Cardinality(Away) \in Nat
      /\ Cardinality(Away') <= Cardinality(Away) /\ Cardinality(Mailers) \in Nat
  BY AwayFacts, FS_Subset, FS_CardinalityType
<1>3. Cap \in Nat
  BY MailersAndCap
<1> QED
  BY <1>1, <1>2, <1>3 DEF OutreachInv

\* A call that has read a row, or returns.
LEMMA OutreachCallsType ==
    ASSUME Outreach!Bounds, Outreach!TypeOK, NEW s \in Mailers
    PROVE  /\ Outreach!Return(s) => send' \in [Mailers -> Outreach!Send]
                                    /\ Away' = Away \ {s}
           /\ \A to \in {"check", "post", "accepted", "refused"} :
                Outreach!Goto(s, to) => send' \in [Mailers -> Outreach!Send]
                                        /\ Away' = IF to \in {"post", "accepted"}
                                                   THEN Away \union {s} ELSE Away \ {s}
<1>1. send \in [Mailers -> Outreach!Send]
  BY DEF Outreach!TypeOK
<1>2. ASSUME Outreach!Return(s)
      PROVE  send' \in [Mailers -> Outreach!Send] /\ Away' = Away \ {s}
  <2>1. send' = [send EXCEPT ![s] = Outreach!Idle]
    BY <1>2 DEF Outreach!Return
  <2>2. send' \in [Mailers -> Outreach!Send]
    BY <1>1, <2>1, OutreachIdleType
  <2>3. \A r \in Mailers : send'[r].pc = IF r = s THEN "idle" ELSE send[r].pc
    BY <1>1, <2>1 DEF Outreach!Idle
  <2> QED
    BY <2>2, <2>3 DEF Away
<1>3. ASSUME NEW to \in {"check", "post", "accepted", "refused"}, Outreach!Goto(s, to)
      PROVE  /\ send' \in [Mailers -> Outreach!Send]
             /\ Away' = IF to \in {"post", "accepted"} THEN Away \union {s} ELSE Away \ {s}
  <2>1. send' = [send EXCEPT ![s] = [send[s] EXCEPT !.pc = to]]
    BY <1>3 DEF Outreach!Goto
  <2>2. send' \in [Mailers -> Outreach!Send]
    BY <1>1, <2>1 DEF Outreach!Send
  <2>3. \A r \in Mailers : send'[r].pc = IF r = s THEN to ELSE send[r].pc
    BY <1>1, <2>1 DEF Outreach!Send
  <2> QED
    BY <2>2, <2>3 DEF Away
<1> QED
  BY <1>2, <1>3

\* Steps of the operator, of time and of a stop: none adds to what was sent.
LEMMA OperatorSteps ==
    ASSUME Outreach!Bounds, OutreachInv,
           \/ Outreach!Stop
           \/ \E d \in Drafts :
                \/ Outreach!Generate(d) \/ Outreach!Delete(d) \/ Outreach!DayPasses(d)
                \/ \E status \in {"draft", "approved", "failed"} : Outreach!Patch(d, status)
    PROVE  OutreachInv'
<1> USE DEF OutreachInv, Outreach!TypeOK
<1>1. CASE Outreach!Stop
  <2>1. draft' = draft /\ send' = [s \in Mailers |-> Outreach!Idle]
    BY <1>1 DEF Outreach!Stop
  <2>2. send' \in [Mailers -> Outreach!Send]
    BY <2>1, OutreachIdleType
  <2>3. Away' = {}
    BY <2>1 DEF Away, Outreach!Idle
  <2>4. Outreach!SentToday' = Outreach!SentToday
    BY <2>1 DEF Outreach!SentToday
  <2> QED
    BY <2>1, <2>2, <2>3, <2>4, OutreachFewer
<1>2. ASSUME NEW d \in Drafts,
             \/ Outreach!Generate(d) \/ Outreach!Delete(d) \/ Outreach!DayPasses(d)
             \/ \E status \in {"draft", "approved", "failed"} : Outreach!Patch(d, status)
      PROVE  OutreachInv'
  <2>1. PICK v \in Outreach!Statuses \ {"sent"} :
             draft' = [draft EXCEPT ![d] = v] /\ send' = send
    BY <1>2 DEF Outreach!Generate, Outreach!Delete, Outreach!DayPasses, Outreach!Patch,
                Outreach!Statuses
  <2>2. draft' \in [Drafts -> Outreach!Statuses]
    BY <2>1
  <2>3. Outreach!SentToday' \subseteq Outreach!SentToday
    BY <2>1, <2>2 DEF Outreach!SentToday
  <2>4. Away' = Away
    BY <2>1 DEF Away
  <2> QED
    BY <2>1, <2>2, <2>3, <2>4, OutreachFewer
<1> QED
  BY <1>1, <1>2

\* The count is below the cap, and whoever else is away, there are no more than all.
LEMMA CheckStep ==
    ASSUME Outreach!Bounds, OutreachInv, NEW s \in Mailers, Outreach!Check(s)
    PROVE  OutreachInv'
<1>1. /\ Outreach!TypeOK /\ draft' = draft
      /\ Outreach!SentToday' = Outreach!SentToday
  BY DEF OutreachInv, Outreach!Check, Outreach!SentToday
<1>2. CASE Outreach!Return(s)
  <2>1. send' \in [Mailers -> Outreach!Send] /\ Away' = Away \ {s}
    BY <1>1, <1>2, OutreachCallsType
  <2> QED
    BY <1>1, <2>1, OutreachFewer DEF Outreach!TypeOK
<1>3. CASE Cardinality(Outreach!SentToday) < Cap /\ Outreach!Goto(s, "post")
  <2>1. send' \in [Mailers -> Outreach!Send] /\ Away' = Away \union {s}
    BY <1>1, <1>3, OutreachCallsType
  <2>2. Away' \in SUBSET Mailers
    BY <2>1 DEF Away
  <2>3. Cardinality(Away') <= Cardinality(Mailers) /\ Cardinality(Away') \in Nat
    BY <2>2, MailersAndCap, FS_Subset, FS_CardinalityType
  <2>4. /\ Cardinality(Outreach!SentToday) \in Nat /\ Cap \in Nat
        /\ Cardinality(Mailers) \in Nat
    BY MailersAndCap, FS_CardinalityType DEF OutreachInv
  <2>5. Cardinality(Outreach!SentToday') + Cardinality(Away') + 1
            <= Cap + Cardinality(Mailers)
    BY <1>1, <1>3, <2>3, <2>4
  <2> QED
    BY <1>1, <2>1, <2>5 DEF OutreachInv, Outreach!TypeOK
<1> QED
  BY <1>2, <1>3, OutreachCounts DEF Outreach!Check

\* A row that becomes sent has its call no longer away.
LEMMA MailedStep ==
    ASSUME Outreach!Bounds, OutreachInv, NEW s \in Mailers, Outreach!Write(s)
    PROVE  OutreachInv'
<1> DEFINE d == send[s].draft
<1>1. /\ Outreach!TypeOK /\ d \in Drafts
      /\ send' \in [Mailers -> Outreach!Send] /\ Away' = Away \ {s}
  <2>1. Outreach!TypeOK /\ d \in Drafts
    BY DEF OutreachInv, Outreach!TypeOK, Outreach!Send
  <2> QED
    BY <2>1, OutreachCallsType DEF Outreach!Write
<1>2. CASE draft' = draft \/ draft' = [draft EXCEPT ![d] = "failed"]
  <2>1. draft' \in [Drafts -> Outreach!Statuses]
    BY <1>1, <1>2 DEF Outreach!TypeOK, Outreach!Statuses
  <2>2. Outreach!SentToday' \subseteq Outreach!SentToday
    BY <1>1, <1>2 DEF Outreach!SentToday, Outreach!TypeOK
  <2> QED
    BY <1>1, <2>1, <2>2, OutreachFewer DEF Outreach!TypeOK
<1>3. CASE send[s].pc = "accepted" /\ draft' = [draft EXCEPT ![d] = "sent"]
  <2>1. draft' \in [Drafts -> Outreach!Statuses]
    BY <1>1, <1>3 DEF Outreach!TypeOK, Outreach!Statuses
  <2>2. Outreach!SentToday' = Outreach!SentToday \union {d}
    BY <1>1, <1>3 DEF Outreach!SentToday, Outreach!TypeOK
  <2>3. s \in Away
    BY <1>3 DEF Away
  <2>4. /\ IsFiniteSet(Outreach!SentToday')
        /\ Cardinality(Outreach!SentToday') <= Cardinality(Outreach!SentToday) + 1
        /\ Cardinality(Outreach!SentToday) \in Nat /\ Cardinality(Outreach!SentToday') \in Nat
    <3>1. /\ IsFiniteSet(Outreach!SentToday')
          /\ Cardinality(Outreach!SentToday') = Cardinality(Outreach!SentToday)
                \/ Cardinality(Outreach!SentToday') = Cardinality(Outreach!SentToday) + 1
      BY <2>2, FS_AddElement DEF OutreachInv
    <3>2. Cardinality(Outreach!SentToday) \in Nat
      BY FS_CardinalityType DEF OutreachInv
    <3> QED
      BY <3>1, <3>2
  <2>5. Cardinality(Away') = Cardinality(Away) - 1
    BY <1>1, <2>3, AwayFacts, FS_RemoveElement
  <2>6. Cardinality(Outreach!SentToday') + Cardinality(Away') + 1
            <= Cap + Cardinality(Mailers)
    BY <2>4, <2>5, AwayFacts, MailersAndCap DEF OutreachInv
  <2> QED
    BY <1>1, <2>1, <2>4, <2>6 DEF OutreachInv, Outreach!TypeOK
<1> QED
  BY <1>2, <1>3 DEF Outreach!Write

\* A call reads its draft, posts its mail, or fails to write: no more are away than
\* before.
LEMMA ReadOrPostStep ==
    ASSUME Outreach!Bounds, OutreachInv, NEW s \in Mailers,
           \/ Outreach!Post(s) \/ Outreach!WriteRaises(s)
           \/ \E d \in Drafts : Outreach!Read(s, d)
    PROVE  OutreachInv'
<1>1. /\ Outreach!TypeOK /\ draft' = draft
      /\ Outreach!SentToday' = Outreach!SentToday
  BY DEF OutreachInv, Outreach!Read, Outreach!Post, Outreach!WriteRaises,
         Outreach!SentToday
<1>2. CASE Outreach!Post(s)
  <2>1. s \in Away
    BY <1>2 DEF Outreach!Post, Away
  <2>2. send' \in [Mailers -> Outreach!Send] /\ Away' \subseteq Away
    BY <1>1, <1>2, <2>1, OutreachCallsType DEF Outreach!Post
  <2> QED
    BY <1>1, <2>2, OutreachFewer DEF Outreach!TypeOK
<1>3. ASSUME NEW d \in Drafts, Outreach!Read(s, d) PROVE OutreachInv'
  <2>1. send' = [send EXCEPT ![s] = [pc |-> "check", draft |-> d]]
    BY <1>3 DEF Outreach!Read
  <2>2. send' \in [Mailers -> Outreach!Send]
    BY <1>1, <2>1 DEF Outreach!TypeOK, Outreach!Send
  <2>3. Away' \subseteq Away
    BY <1>1, <2>1 DEF Away, Outreach!TypeOK, Outreach!Send
  <2> QED
    BY <1>1, <2>2, <2>3, OutreachFewer DEF Outreach!TypeOK
<1>4. CASE Outreach!WriteRaises(s)
  <2>1. send' \in [Mailers -> Outreach!Send] /\ Away' \subseteq Away
    BY <1>1, <1>4, OutreachCallsType DEF Outreach!WriteRaises
  <2> QED
    BY <1>1, <2>1, OutreachFewer DEF Outreach!TypeOK
<1> QED
  BY <1>2, <1>3, <1>4

LEMMA OutreachInvInit == ASSUME Outreach!Bounds, Outreach!Init PROVE OutreachInv
<1>1. Outreach!TypeOK
  BY OutreachIdleType DEF Outreach!Init, Outreach!TypeOK, Outreach!Statuses
<1>2. Outreach!SentToday = {} /\ Away = {}
  BY DEF Outreach!Init, Outreach!SentToday, Away, Outreach!Idle
<1>3. Cardinality(Mailers) \in Nat /\ Cap \in Nat \ {0}
  BY MailersAndCap
<1> QED
  BY <1>1, <1>2, <1>3, FS_EmptySet DEF OutreachInv

LEMMA OutreachInvStep ==
    ASSUME Outreach!Bounds, OutreachInv, [Outreach!Next]_(Outreach!vars)
    PROVE  OutreachInv'
<1>1. CASE UNCHANGED Outreach!vars
  BY <1>1 DEF Outreach!vars, OutreachInv, Outreach!TypeOK, Outreach!SentToday, Away
<1>2. CASE Outreach!Next
  BY <1>2, OperatorSteps, CheckStep, MailedStep, ReadOrPostStep DEF Outreach!Next
<1> QED
  BY <1>1, <1>2

LEMMA OutreachAlone == ServicesSpec => Outreach!Spec
<1>1. ServicesInit => Outreach!Init
  BY DEF ServicesInit
<1>2. [ServicesNext]_serviceVars => [Outreach!Next]_(Outreach!vars)
  BY DEF ServicesNext, serviceVars, ReleaseStep, ReceiptStep, RootStep, EventStep, HandoffStep,
         CronStep, OutreachStep, TaskStep, outreachVars, Outreach!vars
<1> QED
  BY <1>1, <1>2, PTL DEF ServicesSpec, Outreach!Spec

\* "Daily send-cap not exceeded" (safety.py:8): of calls that count the rows before
\* the others have written theirs, as many as there are less one go beyond the cap
\* and no more, whatever is patched, deleted, refused or sent again, and wherever the
\* server stops.
THEOREM CapsAreNearlyKept == ServicesSpec => []CapNearlyKept
<1>1. Outreach!Init => OutreachInv
  BY ServicesBounds, OutreachInvInit
<1>2. OutreachInv /\ [Outreach!Next]_(Outreach!vars) => OutreachInv'
  BY ServicesBounds, OutreachInvStep
<1>3. OutreachInv => CapNearlyKept
  <2>1. ASSUME OutreachInv PROVE CapNearlyKept
    <3>1. /\ Cardinality(Away) \in Nat /\ Cardinality(Mailers) \in Nat
          /\ Cardinality(Outreach!SentToday) \in Nat
      BY <2>1, ServicesBounds, AwayFacts, FS_CardinalityType DEF OutreachInv
    <3>2. Cap \in Nat
      BY ServicesBounds, MailersAndCap
    <3> QED
      BY <2>1, <3>1, <3>2, OutreachCounts
      DEF OutreachInv, CapNearlyKept, Outreach!CapNearlyKept
  <2> QED
    BY <2>1
<1> QED
  BY <1>1, <1>2, <1>3, OutreachAlone, PTL DEF Outreach!Spec

-----------------------------------------------------------------------------
(* The tasks of agents                                                     *)

AgentsInv == Agents!TypeOK /\ Agents!RunningIsRun

LEMMA AgentsIdleType == ASSUME Agents!Bounds PROVE Agents!Idle \in Agents!Caller
BY DEF Agents!Bounds, Agents!Idle, Agents!Caller, Agents!SomeTask

\* Where a call goes on to, and that it keeps its type.
LEMMA RunnerSteps ==
    ASSUME Agents!Bounds, Agents!TypeOK, NEW c \in TaskCalls
    PROVE  /\ Agents!Return(c) =>
                /\ runner' \in [TaskCalls -> Agents!Caller]
                /\ runner'[c] = Agents!Idle
                /\ \A k \in TaskCalls \ {c} : runner'[k] = runner[k]
           /\ \A to \in {"done", "failed"} : Agents!PatchTask(c, to) =>
                /\ runner' \in [TaskCalls -> Agents!Caller]
                /\ runner'[c] = [pc |-> "select", task |-> runner[c].task, to |-> to]
                /\ \A k \in TaskCalls \ {c} : runner'[k] = runner[k]
<1>1. runner \in [TaskCalls -> Agents!Caller]
  BY DEF Agents!TypeOK
<1>2. ASSUME Agents!Return(c)
      PROVE  /\ runner' \in [TaskCalls -> Agents!Caller]
             /\ runner'[c] = Agents!Idle
             /\ \A k \in TaskCalls \ {c} : runner'[k] = runner[k]
  BY <1>1, <1>2, AgentsIdleType DEF Agents!Return
<1>3. ASSUME NEW to \in {"done", "failed"}, Agents!PatchTask(c, to)
      PROVE  /\ runner' \in [TaskCalls -> Agents!Caller]
             /\ runner'[c] = [pc |-> "select", task |-> runner[c].task, to |-> to]
             /\ \A k \in TaskCalls \ {c} : runner'[k] = runner[k]
  <2>1. runner' = [runner EXCEPT ![c] = [[runner[c] EXCEPT !.pc = "select"] EXCEPT !.to = to]]
    BY <1>1, <1>3 DEF Agents!PatchTask
  <2>2. [[runner[c] EXCEPT !.pc = "select"] EXCEPT !.to = to]
            = [pc |-> "select", task |-> runner[c].task, to |-> to]
    <3>1. ASSUME NEW r \in Agents!Caller
          PROVE  [[r EXCEPT !.pc = "select"] EXCEPT !.to = to]
                    = [pc |-> "select", task |-> r.task, to |-> to]
      <4>1. [r EXCEPT !.pc = "select"] = [pc |-> "select", task |-> r.task, to |-> r.to]
        BY DEF Agents!Caller
      <4>2. [[pc |-> "select", task |-> r.task, to |-> r.to] EXCEPT !.to = to]
                = [pc |-> "select", task |-> r.task, to |-> to]
        OBVIOUS
      <4> QED
        BY <4>1, <4>2
    <3> QED
      BY <1>1, <3>1
  <2> QED
    BY <1>1, <2>1, <2>2 DEF Agents!Caller
<1> QED
  BY <1>2, <1>3

\* A step of one call that leaves the tasks alone, and does not end a run of a task
\* that reads running.
LEMMA AgentsFrame ==
    ASSUME AgentsInv, NEW c \in TaskCalls, todo' = todo, mishaps' = mishaps,
           runner' \in [TaskCalls -> Agents!Caller],
           \A k \in TaskCalls \ {c} : runner'[k] = runner[k],
           \A t \in Tasks : todo[t] = "running" /\ Agents!RunsTask(c, t)
                                => Agents!RunsTask(c, t)'
    PROVE  AgentsInv'
<1>1. Agents!TypeOK'
  BY DEF AgentsInv, Agents!TypeOK
<1>2. ASSUME mishaps' = 0, NEW t \in Tasks, todo'[t] = "running"
      PROVE  \E k \in TaskCalls : Agents!RunsTask(k, t)'
  <2>1. PICK k \in TaskCalls : Agents!RunsTask(k, t)
    BY <1>2 DEF AgentsInv, Agents!RunningIsRun
  <2>2. CASE k = c
    BY <1>2, <2>1, <2>2
  <2>3. CASE k # c
    <3>1. runner'[k] = runner[k]
      BY <2>3
    <3> QED
      BY <2>1, <3>1 DEF Agents!RunsTask
  <2> QED
    BY <2>2, <2>3
<1>3. Agents!RunningIsRun'
  BY <1>2 DEF Agents!RunningIsRun
<1> QED
  BY <1>1, <1>3 DEF AgentsInv

\* A call begins.
LEMMA TaskEnterStep ==
    ASSUME Agents!Bounds, AgentsInv, NEW c \in TaskCalls, NEW t \in Tasks,
           Agents!Run(c, t) \/ Agents!Cancel(c, t)
    PROVE  AgentsInv'
<1>1. PICK to \in {"running", "cancelled"} :
          Agents!Enter(c, t, to) /\ todo' = todo /\ mishaps' = mishaps
  BY DEF Agents!Run, Agents!Cancel
<1>2. runner \in [TaskCalls -> Agents!Caller]
  BY DEF AgentsInv, Agents!TypeOK
<1>3. /\ runner' \in [TaskCalls -> Agents!Caller]
      /\ \A k \in TaskCalls \ {c} : runner'[k] = runner[k]
  BY <1>1, <1>2 DEF Agents!Enter, Agents!Caller
<1>4. \A u \in Tasks : ~Agents!RunsTask(c, u)
  BY <1>1 DEF Agents!Enter, Agents!RunsTask
<1> QED
  BY <1>1, <1>3, <1>4, AgentsFrame

\* A patch that is refused ends no run of a task that reads running: done, failed and
\* cancelled follow it.
LEMMA TaskSelectStep ==
    ASSUME Agents!Bounds, AgentsInv, NEW c \in TaskCalls, Agents!Select(c)
    PROVE  AgentsInv'
<1>1. /\ Agents!TypeOK /\ todo' = todo /\ mishaps' = mishaps
      /\ runner \in [TaskCalls -> Agents!Caller] /\ runner[c].task \in Tasks
  BY DEF AgentsInv, Agents!TypeOK, Agents!Select, Agents!Caller
<1>2. CASE /\ Agents!Valid(todo[runner[c].task], runner[c].to)
           /\ runner' = [runner EXCEPT ![c].pc = "update"]
  <2>1. /\ runner' \in [TaskCalls -> Agents!Caller]
        /\ runner'[c] = [runner[c] EXCEPT !.pc = "update"]
        /\ \A k \in TaskCalls \ {c} : runner'[k] = runner[k]
    BY <1>1, <1>2 DEF Agents!Caller
  <2>2. runner'[c].pc = "update" /\ runner'[c].task = runner[c].task
        /\ runner'[c].to = runner[c].to /\ runner[c].pc = "select"
    BY <1>1, <2>1 DEF Agents!Caller, Agents!Select
  <2>3. \A t \in Tasks : Agents!RunsTask(c, t) => Agents!RunsTask(c, t)'
    BY <2>2 DEF Agents!RunsTask
  <2> QED
    BY <1>1, <2>1, <2>3, AgentsFrame
<1>3. CASE ~Agents!Valid(todo[runner[c].task], runner[c].to) /\ runner[c].to = "done"
           /\ Agents!PatchTask(c, "failed")
  <2>1. /\ runner' \in [TaskCalls -> Agents!Caller]
        /\ runner'[c] = [pc |-> "select", task |-> runner[c].task, to |-> "failed"]
        /\ \A k \in TaskCalls \ {c} : runner'[k] = runner[k]
    BY <1>1, <1>3, RunnerSteps
  <2>2. \A t \in Tasks : Agents!RunsTask(c, t) => Agents!RunsTask(c, t)'
    BY <2>1 DEF Agents!RunsTask
  <2> QED
    BY <1>1, <2>1, <2>2, AgentsFrame
<1>4. CASE ~Agents!Valid(todo[runner[c].task], runner[c].to) /\ Agents!Return(c)
  <2>1. /\ runner' \in [TaskCalls -> Agents!Caller]
        /\ \A k \in TaskCalls \ {c} : runner'[k] = runner[k]
    BY <1>1, <1>4, RunnerSteps
  <2>2. \A t \in Tasks : todo[t] = "running" => ~Agents!RunsTask(c, t)
    BY <1>4 DEF Agents!RunsTask, Agents!Valid, Agents!Followers, Agents!Select
  <2> QED
    BY <1>1, <2>1, <2>2, AgentsFrame
<1> QED
  BY <1>2, <1>3, <1>4 DEF Agents!Select, Agents!Raise

LEMMA TaskUpdateStep ==
    ASSUME Agents!Bounds, AgentsInv, NEW c \in TaskCalls, Agents!Update(c)
    PROVE  AgentsInv'
<1> DEFINE u == runner[c].task
<1>1. /\ Agents!TypeOK /\ mishaps' = mishaps /\ u \in Tasks
      /\ runner \in [TaskCalls -> Agents!Caller] /\ todo \in [Tasks -> Agents!Statuses]
      /\ runner[c].to \in {"running", "done", "failed", "cancelled"}
      /\ todo' = [todo EXCEPT ![u] = runner[c].to]
  BY DEF AgentsInv, Agents!TypeOK, Agents!Update, Agents!Caller
<1>2. todo' \in [Tasks -> Agents!Statuses]
  BY <1>1 DEF Agents!Statuses
<1>3. CASE runner[c].to = "running" /\ runner' = [runner EXCEPT ![c].pc = "deliberate"]
  <2>1. /\ runner' \in [TaskCalls -> Agents!Caller]
        /\ runner'[c] = [runner[c] EXCEPT !.pc = "deliberate"]
        /\ \A k \in TaskCalls \ {c} : runner'[k] = runner[k]
    BY <1>1, <1>3 DEF Agents!Caller
  <2>2. runner'[c].pc = "deliberate" /\ runner'[c].task = u
    BY <1>1, <2>1 DEF Agents!Caller
  <2>3. ASSUME mishaps' = 0, NEW t \in Tasks, todo'[t] = "running"
        PROVE  \E k \in TaskCalls : Agents!RunsTask(k, t)'
    <3>1. CASE t = u
      BY <2>2, <3>1 DEF Agents!RunsTask
    <3>2. CASE t # u
      <4>1. todo[t] = "running"
        BY <1>1, <2>3, <3>2
      <4>2. PICK k \in TaskCalls : Agents!RunsTask(k, t)
        BY <1>1, <2>3, <4>1 DEF AgentsInv, Agents!RunningIsRun
      <4>3. k # c
        BY <3>2, <4>2 DEF Agents!RunsTask
      <4>4. runner'[k] = runner[k]
        BY <2>1, <4>3
      <4> QED
        BY <4>2, <4>4 DEF Agents!RunsTask
    <3> QED
      BY <3>1, <3>2
  <2> QED
    BY <1>1, <1>2, <2>1, <2>3 DEF AgentsInv, Agents!TypeOK, Agents!RunningIsRun
<1>4. CASE runner[c].to # "running" /\ Agents!Return(c)
  <2>1. /\ runner' \in [TaskCalls -> Agents!Caller]
        /\ \A k \in TaskCalls \ {c} : runner'[k] = runner[k]
    BY <1>1, <1>4, RunnerSteps
  <2>2. ASSUME mishaps' = 0, NEW t \in Tasks, todo'[t] = "running"
        PROVE  \E k \in TaskCalls : Agents!RunsTask(k, t)'
    <3>1. t # u /\ todo[t] = "running"
      BY <1>1, <1>4, <2>2
    <3>2. PICK k \in TaskCalls : Agents!RunsTask(k, t)
      BY <1>1, <2>2, <3>1 DEF AgentsInv, Agents!RunningIsRun
    <3>3. k # c
      BY <3>1, <3>2 DEF Agents!RunsTask
    <3>4. runner'[k] = runner[k]
      BY <2>1, <3>3
    <3> QED
      BY <3>2, <3>4 DEF Agents!RunsTask
  <2> QED
    BY <1>1, <1>2, <2>1, <2>2 DEF AgentsInv, Agents!TypeOK, Agents!RunningIsRun
<1> QED
  BY <1>3, <1>4 DEF Agents!Update

LEMMA DeliberatedStep ==
    ASSUME Agents!Bounds, AgentsInv, NEW c \in TaskCalls, Agents!Deliberated(c)
    PROVE  AgentsInv'
<1>1. PICK to \in {"done", "failed"} :
          Agents!PatchTask(c, to) /\ todo' = todo /\ mishaps' = mishaps
  BY DEF Agents!Deliberated
<1>2. /\ runner' \in [TaskCalls -> Agents!Caller]
      /\ runner'[c] = [pc |-> "select", task |-> runner[c].task, to |-> to]
      /\ \A k \in TaskCalls \ {c} : runner'[k] = runner[k]
  BY <1>1, RunnerSteps DEF AgentsInv
<1>3. \A t \in Tasks : Agents!RunsTask(c, t) => Agents!RunsTask(c, t)'
  BY <1>2 DEF Agents!RunsTask
<1> QED
  BY <1>1, <1>2, <1>3, AgentsFrame

\* A restart or a call that breaks: of what then runs nothing is claimed.
LEMMA MishapStep ==
    ASSUME Agents!Bounds, AgentsInv,
           Agents!Restart \/ \E c \in TaskCalls : Agents!CallBreaks(c)
    PROVE  AgentsInv'
<1>1. /\ Agents!TypeOK /\ todo' = todo /\ mishaps' = mishaps + 1 /\ mishaps < MaxMishaps
  BY DEF AgentsInv, Agents!Restart, Agents!CallBreaks
<1>2. mishaps' # 0 /\ mishaps' \in 0..MaxMishaps
  BY <1>1 DEF Agents!TypeOK, Agents!Bounds
<1>3. runner' \in [TaskCalls -> Agents!Caller]
  <2>1. CASE Agents!Restart
    BY <2>1, AgentsIdleType DEF Agents!Restart
  <2>2. ASSUME NEW c \in TaskCalls, Agents!CallBreaks(c)
        PROVE  runner' \in [TaskCalls -> Agents!Caller]
    BY <1>1, <2>2, RunnerSteps DEF Agents!CallBreaks, Agents!Raise
  <2> QED
    BY <2>1, <2>2
<1> QED
  BY <1>1, <1>2, <1>3 DEF AgentsInv, Agents!TypeOK, Agents!RunningIsRun

LEMMA TaskCreateStep ==
    ASSUME AgentsInv, NEW t \in Tasks, Agents!Create(t)
    PROVE  AgentsInv'
<1>1. /\ todo' = [todo EXCEPT ![t] = "pending"] /\ runner' = runner /\ mishaps' = mishaps
      /\ todo \in [Tasks -> Agents!Statuses]
  BY DEF AgentsInv, Agents!TypeOK, Agents!Create
<1>2. todo' \in [Tasks -> Agents!Statuses]
  BY <1>1 DEF Agents!Statuses
<1>3. \A u \in Tasks : todo'[u] = "running" => todo[u] = "running"
  BY <1>1
<1>4. \A c \in TaskCalls, u \in Tasks : Agents!RunsTask(c, u) => Agents!RunsTask(c, u)'
  BY <1>1 DEF Agents!RunsTask
<1> QED
  BY <1>1, <1>2, <1>3, <1>4 DEF AgentsInv, Agents!TypeOK, Agents!RunningIsRun

LEMMA AgentsInvInit == ASSUME Agents!Bounds, Agents!Init PROVE AgentsInv
BY AgentsIdleType DEF Agents!Init, Agents!Bounds, AgentsInv, Agents!TypeOK, Agents!Statuses,
                      Agents!RunningIsRun

LEMMA AgentsInvStep ==
    ASSUME Agents!Bounds, AgentsInv, [Agents!Next]_(Agents!vars)
    PROVE  AgentsInv'
<1>1. CASE UNCHANGED Agents!vars
  BY <1>1 DEF Agents!vars, AgentsInv, Agents!TypeOK, Agents!RunningIsRun, Agents!RunsTask
<1>2. CASE Agents!Next
  BY <1>2, MishapStep, TaskCreateStep, TaskEnterStep, TaskSelectStep, TaskUpdateStep,
     DeliberatedStep DEF Agents!Next
<1> QED
  BY <1>1, <1>2

LEMMA AgentsAlone == ServicesSpec => Agents!Spec
<1>1. ServicesInit => Agents!Init
  BY DEF ServicesInit
<1>2. [ServicesNext]_serviceVars => [Agents!Next]_(Agents!vars)
  BY DEF ServicesNext, serviceVars, ReleaseStep, ReceiptStep, RootStep, EventStep, HandoffStep,
         CronStep, OutreachStep, TaskStep, taskVars, Agents!vars
<1> QED
  BY <1>1, <1>2, PTL DEF ServicesSpec, Agents!Spec

\* run_task "lands on done or failed" (runner.py:71): while no call breaks and the
\* process lives, a task that reads running has a run that will write its outcome,
\* however many runs and cancels of it overlap.
THEOREM RunningTasksAreRun == ServicesSpec => []RunningIsRun
<1>1. Agents!Init => AgentsInv
  BY ServicesBounds, AgentsInvInit
<1>2. AgentsInv /\ [Agents!Next]_(Agents!vars) => AgentsInv'
  BY ServicesBounds, AgentsInvStep
<1>3. AgentsInv => RunningIsRun
  BY DEF AgentsInv, RunningIsRun
<1> QED
  BY <1>1, <1>2, <1>3, AgentsAlone, PTL DEF Agents!Spec

\* Done or cancelled, and what any call is about to write over it is the same.
Settled(t) ==
    /\ todo[t] \in {"done", "cancelled"}
    /\ \A c \in TaskCalls :
           runner[c].task = t /\ runner[c].pc = "update" => runner[c].to = todo[t]

LEMMA OverIsSettled ==
    ASSUME NEW t \in Tasks
    PROVE  /\ Agents!Over(t) <=> Settled(t)
           /\ Agents!Over(t)' <=> Settled(t)'
BY DEF Agents!Over, Agents!Unwritten, Settled

\* A call that is sent back to select, or ends, is not about to write.
LEMMA SentBack ==
    ASSUME Agents!Bounds, Agents!TypeOK, NEW c \in TaskCalls,
           \/ Agents!Raise(c)
           \/ \E to \in {"done", "failed"} : Agents!PatchTask(c, to)
    PROVE  \A k \in TaskCalls : runner'[k] = runner[k] \/ runner'[k].pc # "update"
<1>1. CASE Agents!Return(c)
  <2>1. runner'[c] = Agents!Idle /\ \A k \in TaskCalls \ {c} : runner'[k] = runner[k]
    BY <1>1, RunnerSteps
  <2>2. runner'[c].pc = "idle"
    BY <2>1 DEF Agents!Idle
  <2> QED
    BY <2>1, <2>2
<1>2. ASSUME NEW to \in {"done", "failed"}, Agents!PatchTask(c, to)
      PROVE  \A k \in TaskCalls : runner'[k] = runner[k] \/ runner'[k].pc # "update"
  <2>1. /\ runner'[c] = [pc |-> "select", task |-> runner[c].task, to |-> to]
        /\ \A k \in TaskCalls \ {c} : runner'[k] = runner[k]
    BY <1>2, RunnerSteps
  <2> QED
    BY <2>1
<1> QED
  BY <1>1, <1>2 DEF Agents!Raise

\* Nothing follows done or cancelled: the calls that come to write what they checked
\* before found the very status they write.
LEMMA NobodyNewWrites ==
    ASSUME Agents!Bounds, Agents!TypeOK, Agents!Next, NEW t \in Tasks, Settled(t),
           NEW k \in TaskCalls, runner'[k].task = t, runner'[k].pc = "update"
    PROVE  runner'[k].to = todo[t]
<1>1. runner \in [TaskCalls -> Agents!Caller]
  BY DEF Agents!TypeOK
<1>2. CASE runner'[k] = runner[k]
  BY <1>2 DEF Settled
<1>3. CASE Agents!Restart
  BY <1>3 DEF Agents!Restart, Agents!Idle
<1>4. ASSUME NEW c \in TaskCalls, NEW u \in Tasks, Agents!Run(c, u) \/ Agents!Cancel(c, u)
      PROVE  runner'[k].to = todo[t]
  BY <1>1, <1>2, <1>4 DEF Agents!Run, Agents!Cancel, Agents!Enter
<1>5. ASSUME NEW c \in TaskCalls, Agents!Select(c) PROVE runner'[k].to = todo[t]
  <2>1. CASE /\ Agents!Valid(todo[runner[c].task], runner[c].to)
             /\ runner' = [runner EXCEPT ![c].pc = "update"]
    <3>1. CASE k = c
      <4>1. runner'[c] = [runner[c] EXCEPT !.pc = "update"]
        BY <1>1, <2>1
      <4>2. runner'[c].task = runner[c].task /\ runner'[c].to = runner[c].to
        BY <1>1, <4>1 DEF Agents!Caller
      <4>3. Agents!Valid(todo[t], runner[c].to)
        BY <2>1, <3>1, <4>2
      <4> QED
        BY <3>1, <4>2, <4>3 DEF Agents!Valid, Agents!Followers, Settled
    <3>2. CASE k # c
      <4>1. runner'[k] = runner[k]
        BY <1>1, <2>1, <3>2
      <4> QED
        BY <1>2, <4>1
    <3> QED
      BY <3>1, <3>2
  <2>2. CASE Agents!Raise(c)
    BY <1>2, <2>2, SentBack
  <2> QED
    BY <1>5, <2>1, <2>2 DEF Agents!Select
<1>6. ASSUME NEW c \in TaskCalls, Agents!Update(c) PROVE runner'[k].to = todo[t]
  <2>1. CASE runner' = [runner EXCEPT ![c].pc = "deliberate"]
    <3>1. CASE k = c
      <4>1. runner'[c] = [runner[c] EXCEPT !.pc = "deliberate"]
        BY <1>1, <2>1
      <4>2. runner'[c].pc = "deliberate"
        BY <1>1, <4>1 DEF Agents!Caller
      <4> QED
        BY <3>1, <4>2
    <3>2. CASE k # c
      <4>1. runner'[k] = runner[k]
        BY <1>1, <2>1, <3>2
      <4> QED
        BY <1>2, <4>1
    <3> QED
      BY <3>1, <3>2
  <2>2. CASE Agents!Return(c)
    BY <1>1, <1>2, <2>2 DEF Agents!Return, Agents!Idle
  <2> QED
    BY <1>6, <2>1, <2>2 DEF Agents!Update
<1>7. ASSUME NEW c \in TaskCalls, Agents!CallBreaks(c) PROVE runner'[k].to = todo[t]
  BY <1>2, <1>7, SentBack DEF Agents!CallBreaks
<1>8. ASSUME NEW c \in TaskCalls, Agents!Deliberated(c) PROVE runner'[k].to = todo[t]
  <2>1. PICK to \in {"done", "failed"} : Agents!PatchTask(c, to)
    BY <1>8 DEF Agents!Deliberated
  <2> QED
    BY <1>2, <2>1, SentBack
<1>9. ASSUME NEW u \in Tasks, Agents!Create(u) PROVE runner'[k].to = todo[t]
  BY <1>2, <1>9 DEF Agents!Create
<1> QED
  BY <1>3, <1>4, <1>5, <1>6, <1>7, <1>8, <1>9 DEF Agents!Next

LEMMA SettledStep ==
    ASSUME Agents!Bounds, Agents!TypeOK, Agents!Next, NEW t \in Tasks, Settled(t)
    PROVE  todo'[t] = todo[t] /\ Settled(t)'
<1>1. todo \in [Tasks -> Agents!Statuses] /\ todo[t] \in {"done", "cancelled"}
  BY DEF Agents!TypeOK, Settled
<1>2. todo'[t] = todo[t]
  <2>1. CASE todo' = todo
    BY <2>1
  <2>2. ASSUME NEW u \in Tasks, Agents!Create(u) PROVE todo'[t] = todo[t]
    BY <1>1, <2>2 DEF Agents!Create
  <2>3. ASSUME NEW c \in TaskCalls, Agents!Update(c) PROVE todo'[t] = todo[t]
    BY <1>1, <2>3 DEF Agents!Update, Settled
  <2>4. \A c \in TaskCalls :
            Agents!Select(c) \/ Agents!CallBreaks(c) \/ Agents!Deliberated(c)
                => todo' = todo
    BY DEF Agents!Select, Agents!CallBreaks, Agents!Deliberated
  <2>5. \A c \in TaskCalls, u \in Tasks :
            Agents!Run(c, u) \/ Agents!Cancel(c, u) => todo' = todo
    BY DEF Agents!Run, Agents!Cancel
  <2>6. Agents!Restart => todo' = todo
    BY DEF Agents!Restart
  <2> QED
    BY <2>1, <2>2, <2>3, <2>4, <2>5, <2>6 DEF Agents!Next
<1>3. \A k \in TaskCalls : runner'[k].task = t /\ runner'[k].pc = "update"
                              => runner'[k].to = todo[t]
  BY NobodyNewWrites
<1> QED
  BY <1>1, <1>2, <1>3 DEF Settled

\* A task that reads done or cancelled, with nobody between the check of another status
\* and its write (store.py), is over for good: models.py lets nothing follow either, so
\* whoever reads it from then on writes nothing else.
THEOREM TasksAreOverForGood == ServicesSpec => OverForGood
<1>1. Agents!Init => AgentsInv
  BY ServicesBounds, AgentsInvInit
<1>2. AgentsInv /\ [Agents!Next]_(Agents!vars) => AgentsInv'
  BY ServicesBounds, AgentsInvStep
<1> DEFINE Stays == \A t \in Tasks : Agents!Over(t) => todo'[t] = todo[t] /\ Agents!Over(t)'
<1>3. AgentsInv /\ [Agents!Next]_(Agents!vars) => [Stays]_(Agents!vars)
  <2>1. ASSUME AgentsInv, Agents!Next, NEW t \in Tasks, Agents!Over(t)
        PROVE  todo'[t] = todo[t] /\ Agents!Over(t)'
    BY <2>1, ServicesBounds, OverIsSettled, SettledStep DEF AgentsInv
  <2> QED
    BY <2>1
<1>4. OverForGood <=> [][Stays]_(Agents!vars)
  BY DEF OverForGood, Agents!OverForGood, Agents!vars
<1> HIDE DEF Stays
<1> QED
  BY <1>1, <1>2, <1>3, <1>4, AgentsAlone, PTL DEF Agents!Spec

-----------------------------------------------------------------------------
(* The types of all                                                        *)

\* Every service keeps its types: of whatever length its tables, and however many
\* callers, clerks, replays and users meet.
THEOREM ServicesTypesHold == ServicesSpec => []ServicesTypeOK
<1>1. ServicesSpec => []ReleaseInv
  BY ServicesBounds, ReleaseInvInit, ReleaseInvStep, ReleaseAlone, PTL DEF Release!Spec
<1>2. ServicesSpec => []ReceiptsInv
  BY ServicesBounds, ReceiptsInvInit, ReceiptsInvStep, ReceiptsAlone, PTL DEF Receipts!Spec
<1>3. ServicesSpec => []RootsInv
  BY ServicesBounds, RootsInvInit, RootsInvStep, RootsAlone, PTL DEF Roots!Spec
<1>4. ServicesSpec => []EventsInv
  BY ServicesBounds, EventsInvInit, EventsInvStep, EventsAlone, PTL DEF Events!Spec
<1>5. ServicesSpec => []CoworkInv
  BY ServicesBounds, CoworkInvInit, CoworkInvStep, CoworkAlone, PTL DEF Cowork!Spec
<1>6. ServicesSpec => []CronInv
  <2>1. Cron!Init => CronInv
    BY ServicesBounds, CronInvInit
  <2>2. CronInv /\ [Cron!Next]_(Cron!vars) => CronInv'
    BY ServicesBounds, CronInvStep
  <2> QED
    BY <2>1, <2>2, CronAlone, PTL DEF Cron!Spec
<1>7. ServicesSpec => []OutreachInv
  <2>1. Outreach!Init => OutreachInv
    BY ServicesBounds, OutreachInvInit
  <2>2. OutreachInv /\ [Outreach!Next]_(Outreach!vars) => OutreachInv'
    BY ServicesBounds, OutreachInvStep
  <2> QED
    BY <2>1, <2>2, OutreachAlone, PTL DEF Outreach!Spec
<1>8. ServicesSpec => []AgentsInv
  <2>1. Agents!Init => AgentsInv
    BY ServicesBounds, AgentsInvInit
  <2>2. AgentsInv /\ [Agents!Next]_(Agents!vars) => AgentsInv'
    BY ServicesBounds, AgentsInvStep
  <2> QED
    BY <2>1, <2>2, AgentsAlone, PTL DEF Agents!Spec
<1>9. ReleaseInv /\ ReceiptsInv /\ RootsInv /\ EventsInv /\ CoworkInv /\ CronInv
          /\ OutreachInv /\ AgentsInv => ServicesTypeOK
  BY DEF ReleaseInv, ReceiptsInv, RootsInv, EventsInv, CoworkInv, CronInv, OutreachInv,
         AgentsInv, ServicesTypeOK
<1> QED
  BY <1>1, <1>2, <1>3, <1>4, <1>5, <1>6, <1>7, <1>8, <1>9, PTL
=============================================================================
