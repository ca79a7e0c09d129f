------------------------------ MODULE MCServing ------------------------------
(* TLC instances of what serves a client: hosted formats, the proxy cache, OCI upload
   sessions and images, group repositories, access decisions, paged listings and the
   event broker.  ServingInit picks one of them (part) and only that one moves.  The
   proxy cache is extended, the others have their state in the variables x1 to x12, as
   their INSTANCE says, but for the session, which a refinement looks at. *)
EXTENDS ProxyCache, Sequences, TLC

CONSTANTS c1, c2

Symmetry == Permutations({c1, c2})

VARIABLES part, x1, x2, x3, x4, x5, x6, x7, x8, x9, x10, x11, x12,
  object, meta, mpu, acked, req, blobs, torn

upload == <<object, meta, mpu, acked, req, blobs, torn>>
shared == <<x1, x2, x3, x4, x5, x6, x7, x8, x9, x10, x11, x12>>
\* The variables from the k-th on, which a part of k - 1 variables leaves alone.
From5 == <<x5, x6, x7, x8, x9, x10, x11, x12>>
From8 == <<x8, x9, x10, x11, x12>>
From10 == <<x10, x11, x12>>
From11 == <<x11, x12>>
From12 == <<x12>>
Unused12 == x12 = None
Unused11 == x11 = None /\ Unused12
Unused10 == x10 = None /\ Unused11
Unused9 == x9 = None /\ Unused10
Unused8 == x8 = None /\ Unused9
Unused7 == x7 = None /\ Unused8
Unused5 == x5 = None /\ x6 = None /\ Unused7
Unused1 == x1 = None /\ x2 = None /\ x3 = None /\ x4 = None /\ Unused5

(* Two requests and a reader; three of the formats get two writes. *)
AllFormats == {"npm", "cargo", "helm", "nuget", "go", "terraform", "rubygems", "pypi", "apt", "yum", "cran", "conda", "maven", "conan", "raw"}
Hosted == INSTANCE HostedFormats WITH
  Formats <- AllFormats, Clients <- {1, 2}, LastVersion <- 2, Arts <- {<<1, 1>>, <<1, 2>>, <<2, 1>>}, Builds <- 2,
  Published <- {{}, {<<1, 1>>}, {<<1, 1>>, <<1, 2>>, <<2, 1>>}}, Limit <- 2, FileLimit <- 2,
  MaxOps <- [f \in AllFormats |-> IF f \in {"npm", "rubygems", "conan"} THEN 2 ELSE 1], MaxFaults <- 1,
  format <- x1, comp <- x2, asset <- x3, ids <- x4, op <- x5, acked <- x6, tagged <- x7, spoilt <- x8, raced <- x9, rd <- x10,
  clock <- x11, faults <- x12

(* Two requests on one session at a time, which may exchange a byte for another: in
   S3, in parts, and on the local disk. *)
Upload == INSTANCE OCIUpload WITH
  Clients <- {c1, c2}, Chunks <- {<<"a">>, <<"b">>}, Digests <- {<<"a">>}, PartSize <- 2, Limit <- 2, MaxUploads <- 2, MultiPart <- TRUE,
  object <- x1, meta <- x2, mpu <- x3, acked <- x4, req <- x5, blobs <- x6, torn <- x7
UploadLocal == INSTANCE OCIUpload WITH
  Clients <- {c1, c2}, Chunks <- {<<"a">>, <<"b">>}, Digests <- {<<"a">>, <<"a", "b">>}, PartSize <- 2, Limit <- 2, MaxUploads <- 2, MultiPart <- FALSE,
  object <- x1, meta <- x2, mpu <- x3, acked <- x4, req <- x5, blobs <- x6, torn <- x7

(* One client, as the protocol asks, and two uploads of up to three bytes: in S3, in
   parts of two, and on the local disk. *)
Session == INSTANCE OCIUpload WITH
  Clients <- {1}, Chunks <- {<<"a">>, <<"b", "a">>}, Digests <- {<<"a">>, <<"a", "b", "a">>}, PartSize <- 2, Limit <- 3, MaxUploads <- 2,
  MultiPart <- TRUE
Local == INSTANCE OCIUpload WITH
  Clients <- {1}, Chunks <- {<<"a">>, <<"b", "a">>}, Digests <- {<<"a">>, <<"a", "b", "a">>}, PartSize <- 2, Limit <- 3, MaxUploads <- 2,
  MultiPart <- FALSE

(* An image, one of the same base, and a signature of the first, under one tag and
   by digest; two requests in flight. *)
Registry == INSTANCE ImageRegistry WITH
  Tags <- {"t"}, Manifests <- {"a", "b", "s"}, LayersOf <- ("a" :> {"x"} @@ "b" :> {"x", "y"} @@ "s" :> {}),
  SubjectOf <- ("a" :> None @@ "b" :> None @@ "s" :> "a"), Clients <- {1, 2}, MaxOps <- 3, MaxFaults <- 1,
  man <- x1, comp <- x2, obj <- x3, lay <- x4, op <- x5, replaced <- x6, loose <- x7, ops <- x8, faults <- x9

(* A proxy before a hosted member, pages of one name. *)
GroupFormats == {"npm", "maven2", "go", "nuget", "pypi", "conda", "cran", "apt", "yum", "terraform", "oci-tags", "oci-referrers"}
Group_ == INSTANCE Group WITH
  Members <- <<"proxy", "hosted">>, Formats <- GroupFormats, LastName <- 2, Builds <- 2, PageSize <- 1, Rules <- {[mode |-> "BLOCK", matchers |-> {1}]},
  MaxChanges <- [f \in GroupFormats |-> IF f = "oci-tags" THEN 2 ELSE 1],
  format <- x1, online <- x2, answers <- x3, held <- x4, rule <- x5, req <- x6, client <- x7, stable <- x8, calm <- x9,
  changes <- x10

(* A registry and a repository open to anonymous readers; selectors by repository, by path, and none. *)
Grants == INSTANCE Access WITH
  Roles <- {"r1"}, Privileges <- {"p1", "p2"}, Selectors <- {"s1", "s2"},
  Repos <- [d |-> [oci |-> TRUE, anonymous |-> FALSE], m |-> [oci |-> FALSE, anonymous |-> TRUE]],
  Expressions <- {[repo |-> "d", prefix |-> None], [repo |-> "d", prefix |-> <<"a">>], [repo |-> None, prefix |-> <<"manifests", "a">>]},
  ActionSets <- {{}, {"browse"}, {"read"}}, Images <- {<<"a">>, <<"b">>, <<"a", "b">>, <<"manifests", "a">>}, AnonymousEnabled <- FALSE,
  role <- x1, held <- x2, priv <- x3, selector <- x4

(* Four rows, two of them alike in the order; pages of one row, and of three, which
   are more than a query returns. *)
Pages == INSTANCE Listing WITH
  Ids <- 1..4, KeyOf <- <<1, 2, 2, 3>>, RepoOf <- <<"m", "m", "n", "n">>, Tables <- {{1, 4}, {1, 2, 3, 4}}, Limits <- {1, 3},
  MaxPage <- 2, MaxScan <- 2, MaxChanges <- 1, MaxFaults <- 1,
  table <- x1, members <- x2, visible <- x3, limit <- x4, token <- x5, req <- x6, page <- x7, shown <- x8, steady <- x9,
  moved <- x10, changes <- x11, faults <- x12

(* Two handlers that dispatch two events, two browsers with room for one. *)
Broker == INSTANCE EventBroker WITH
  Hooks <- {"h"}, Listeners <- {1, 2}, Publishers <- {1, 2}, BufLen <- 1, MaxEvents <- 2, MaxChanges <- 1, MaxFaults <- 1,
  hook <- x1, job <- x2, called <- x3, chan <- x4, seen <- x5, dropped <- x6, lock <- x7, offered <- x8, panicked <- x9,
  events <- x10, budget <- x11

ServingInit ==
  /\ Init
  /\ Session!Init
  /\ \/ part = "hosted" /\ Hosted!Init
     \/ part = "proxy" /\ Unused1
     \/ part = "upload" /\ Upload!Init /\ Unused8
     \/ part = "upload-local" /\ UploadLocal!Init /\ Unused8
     \/ part = "images" /\ Registry!Init /\ Unused10
     \/ part = "group" /\ Group_!Init /\ Unused11
     \/ part = "access" /\ Grants!Init /\ Unused5
     \/ part = "listing" /\ Pages!Init
     \/ part = "broker" /\ Broker!Init /\ Unused12
     \/ part \in {"session", "local"} /\ Unused1

HostedStep == part = "hosted" /\ Hosted!Next /\ UNCHANGED <<part, vars, upload>>
ProxyStep == part = "proxy" /\ Next /\ UNCHANGED <<part, upload, shared>>
UploadStep == part = "upload" /\ Upload!Next /\ UNCHANGED <<part, vars, upload, From8>>
UploadLocalStep == part = "upload-local" /\ UploadLocal!Next /\ UNCHANGED <<part, vars, upload, From8>>
ImageStep == part = "images" /\ Registry!Next /\ UNCHANGED <<part, vars, upload, From10>>
GroupStep == part = "group" /\ Group_!Next /\ UNCHANGED <<part, vars, upload, From11>>
AccessStep == part = "access" /\ Grants!Next /\ UNCHANGED <<part, vars, upload, From5>>
ListingStep == part = "listing" /\ Pages!Next /\ UNCHANGED <<part, vars, upload>>
BrokerStep == part = "broker" /\ Broker!Next /\ UNCHANGED <<part, vars, upload, From12>>
SessionStep == part = "session" /\ Session!Next /\ UNCHANGED <<part, vars, shared>>
LocalStep == part = "local" /\ Local!Next /\ UNCHANGED <<part, vars, shared>>
ServingNext ==
        \/ HostedStep \/ ProxyStep \/ UploadStep \/ UploadLocalStep \/ ImageStep \/ SessionStep \/ LocalStep \/ GroupStep
        \/ AccessStep \/ ListingStep \/ BrokerStep
ServingSpec == ServingInit /\ [][ServingNext]_<<part, vars, shared, upload>>
-----------------------------------------------------------------------------
(* What an acknowledged publish, tag or removal did to a hosted repository is what
   its indexes say, whatever overlaps (HostedFormats: PublishedStays, TagsPoint,
   IndexHonest), and an apt client's signature verifies (SignatureVerifies). *)
HostedServes == part = "hosted" =>
  (Hosted!PublishedStays /\ Hosted!TagsPoint /\ Hosted!IndexHonest /\ Hosted!SignatureVerifies)

(* The bytes registered under a digest are the bytes it is the digest of, unless
   another request tore the PUT (OCIUpload: the finalising PUT), what can be pulled
   has its layers, and the index of referrers is what refers (ImageRegistry:
   pushManifest and the removals). *)
DigestHolds == /\ part = "upload" => Upload!DigestHolds
               /\ part = "upload-local" => UploadLocal!DigestHolds
               /\ part = "images" => Registry!ImagesServe

(* An upload session keeps what was acknowledged, whatever call fails, on the local
   disk as in the parts of S3: OCIUpload implements UploadSession (local.go,
   s3_append.go, oci/handler.go). *)
SessionKept == Session!SessionKept

(* What a group's index promises is what its members held and what it serves
   (Group: group/handler.go and the groupindex.go of the formats). *)
GroupFaithful == part = "group" =>
  (Group_!NothingShadowed /\ Group_!WalkComplete /\ Group_!DownloadMatches /\ Group_!ReleaseMatches)

(* One image has one answer, in a listing as in a request, and to take away never
   gives (Access: CanAccessRepo and the filters); what may be seen is met once on a
   walk through the pages (Listing: drainFilteredPage). *)
AccessAgrees == /\ [](part = "access" => (Grants!ListingsAgree /\ Grants!NothingHidden))
                /\ [](part = "listing" => Pages!WalkShowsAll)
                /\ [][part = "access" => Grants!WidensNot]_shared

(* A listener was sent, has waiting or is told it missed every event dispatched
   while it was subscribed (EventBroker: broker.go). *)
Accounted == part = "broker" => Broker!Accounted
=============================================================================
