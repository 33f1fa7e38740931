------------------------------ MODULE FeedCache ------------------------------
(***************************************************************************)
(* telephony/openwrt_feed_cache.py: it fetches the package indexes of the  *)
(* feeds, resolves the packages asked for with what they depend on, and    *)
(* downloads them into a cache that later runs reuse.  The feeds publish   *)
(* new packages meanwhile, a mirror may serve the wrong file, and a run    *)
(* may be killed at any step; nothing but the cache outlives it.           *)
(*                                                                         *)
(* A file is abstracted to the version it is of.  The order in which a run *)
(* resolves and downloads does not matter, so the lists are sets.          *)
(***************************************************************************)
EXTENDS Naturals, Sequences

CONSTANTS
    Packages,         \* names of packages
    FeedOrder,        \* the feeds, in the order they are searched
    AskedFor,         \* the packages asked for
    InBaseImage,      \* the packages the base image provides
    NeededBy,         \* per package: the packages it depends on
    Unhashed,         \* the packages the indexes give no digest of
    Versions,         \* what a package's file may be
    MaxCacheRuns, MaxReleases    \* bounds on the runs and on the feeds' changes

Feed == {FeedOrder[i] : i \in 1 .. Len(FeedOrder)}

(* A version is a file as it was published, not what else a cache may hold.*)
ASSUME FeedAssumption ==
    /\ FeedOrder \in Seq(Feed) /\ FeedOrder # <<>>
    /\ AskedFor \subseteq Packages /\ NeededBy \in [Packages -> SUBSET Packages]
    /\ Versions # {} /\ {"absent", "part", "wrong"} \cap Versions = {}

VARIABLES
    fcStep,           \* where main is; "idle" before the first run
    fcApply,          \* --apply
    fcFeedAt,         \* how many indexes were fetched
    fcIndex,          \* per feed and package: the version of its index in memory
    fcPending,        \* names still to resolve
    fcResolved,       \* resolved packages, with their feeds
    fcToFetch,        \* resolved packages still to look at
    fcFile,           \* the package and the data being written
    fcPkg,            \* on disk, per package: the version of its file
    fcDiskIndex,      \* on disk, per feed: its index
    fcUpstream,       \* what the feeds publish
    fcRuns, fcReleases           \* counters for the bounds

fcRunVars == <<fcApply, fcFeedAt, fcIndex, fcPending, fcResolved, fcToFetch, fcFile>>
fcDisk == <<fcPkg, fcDiskIndex>>
fcWorld == <<fcUpstream, fcRuns, fcReleases>>
fcVars == <<fcStep, fcRunVars, fcDisk, fcWorld>>

Listed == [Packages -> Versions \cup {"absent"}]
Over == {"done", "dry", "failed", "killed"}

NoIndexes == [f \in Feed |-> [p \in Packages |-> "absent"]]

FeedInit ==
    /\ fcStep = "idle" /\ fcApply = FALSE /\ fcFeedAt = 0
    /\ fcIndex = NoIndexes
    /\ fcPending = {} /\ fcResolved = <<>> /\ fcToFetch = {} /\ fcFile = <<>>
    /\ fcPkg = [p \in Packages |-> "absent"]
    /\ fcDiskIndex = fcIndex
    /\ fcUpstream = [f \in Feed |-> [p \in Packages |-> CHOOSE v \in Versions : TRUE]]
    /\ fcRuns = 0 /\ fcReleases = 0

StartRun(apply) ==
    /\ fcStep \in Over \cup {"idle"} /\ fcRuns < MaxCacheRuns
    /\ fcStep' = "index" /\ fcApply' = apply /\ fcFeedAt' = 0
    /\ fcIndex' = NoIndexes /\ fcPending' = AskedFor /\ fcResolved' = <<>>
    /\ fcToFetch' = {} /\ fcFile' = <<>>
    /\ fcRuns' = fcRuns + 1
    /\ UNCHANGED <<fcDisk, fcUpstream, fcReleases>>

(* The indexes are fetched one by one: they may be of different releases.  *)
FetchIndex ==
    /\ fcStep = "index"
    /\ LET f == FeedOrder[fcFeedAt + 1] IN
         /\ fcIndex' = [fcIndex EXCEPT ![f] = fcUpstream[f]]
         /\ fcDiskIndex' = IF fcApply THEN [fcDiskIndex EXCEPT ![f] = fcUpstream[f]]
                           ELSE fcDiskIndex
    /\ fcFeedAt' = fcFeedAt + 1
    /\ fcStep' = IF fcFeedAt' = Len(FeedOrder) THEN "resolve" ELSE "index"
    /\ UNCHANGED <<fcApply, fcPending, fcResolved, fcToFetch, fcFile, fcPkg, fcWorld>>

(* The first feed that lists the name, none for what the image provides.   *)
Listing(name) == {i \in 1 .. Len(FeedOrder) : fcIndex[FeedOrder[i]][name] # "absent"}
Find(name) == {FeedOrder[i] : i \in {j \in Listing(name) :
                 name \notin InBaseImage /\ \A k \in Listing(name) : j <= k}}

(* A name no feed lists is only logged.                                    *)
ResolveName ==
    /\ fcStep = "resolve"
    /\ \E name \in fcPending :
         \/ /\ name \in DOMAIN fcResolved \/ Find(name) = {}
            /\ fcPending' = fcPending \ {name}
            /\ UNCHANGED fcResolved
         \/ /\ name \notin DOMAIN fcResolved
            /\ \E f \in Find(name) :
                  fcResolved' = [p \in DOMAIN fcResolved \cup {name} |->
                                   IF p = name THEN f ELSE fcResolved[p]]
            /\ fcPending' = (fcPending \ {name}) \cup NeededBy[name]
    /\ UNCHANGED <<fcStep, fcApply, fcFeedAt, fcIndex, fcToFetch, fcFile, fcDisk, fcWorld>>

ClosureComplete ==
    /\ fcStep = "resolve" /\ fcPending = {}
    /\ fcStep' = IF fcApply THEN "fetch" ELSE "dry"
    /\ fcToFetch' = IF fcApply THEN DOMAIN fcResolved ELSE {}
    /\ UNCHANGED <<fcApply, fcFeedAt, fcIndex, fcPending, fcResolved, fcFile, fcDisk, fcWorld>>

IndexedAs(p) == fcIndex[fcResolved[p]][p]
(* A cache that trusts any file that is there.                             *)
Cached_AnyFile(p) == p \notin Unhashed /\ fcPkg[p] # "absent"

Cached(p) == p \notin Unhashed /\ fcPkg[p] = IndexedAs(p)
(* The file that is there and is not what its digest says goes first.      *)
Unlinked(p) == IF p \in Unhashed THEN fcPkg ELSE [fcPkg EXCEPT ![p] = "absent"]
Served(p) == (IF fcUpstream[fcResolved[p]][p] = "absent" THEN {}
              ELSE {fcUpstream[fcResolved[p]][p]}) \cup {"wrong"}

KeepCached(p) ==
    /\ fcStep = "fetch" /\ p \in fcToFetch /\ Cached(p)
    /\ fcToFetch' = fcToFetch \ {p}
    /\ UNCHANGED <<fcStep, fcApply, fcFeedAt, fcIndex, fcPending, fcResolved, fcFile,
                   fcDisk, fcWorld>>

FetchPackage(p) ==
    /\ fcStep = "fetch" /\ p \in fcToFetch /\ ~Cached(p)
    /\ fcPkg' = Unlinked(p)
    /\ \E data \in Served(p) :
         /\ p \in Unhashed \/ data = IndexedAs(p)
         /\ fcFile' = <<p, data>>
    /\ fcStep' = "write"
    /\ UNCHANGED <<fcApply, fcFeedAt, fcIndex, fcPending, fcResolved, fcToFetch,
                   fcDiskIndex, fcWorld>>

WritePackage ==
    /\ fcStep = "write"
    /\ fcPkg' = [fcPkg EXCEPT ![fcFile[1]] = fcFile[2]]
    /\ fcToFetch' = fcToFetch \ {fcFile[1]}
    /\ fcFile' = <<>>
    /\ fcStep' = "fetch"
    /\ UNCHANGED <<fcApply, fcFeedAt, fcIndex, fcPending, fcResolved, fcDiskIndex, fcWorld>>

CacheDone ==
    /\ fcStep = "fetch" /\ fcToFetch = {}
    /\ fcStep' = "done"
    /\ UNCHANGED <<fcRunVars, fcDisk, fcWorld>>

(* curl fails, or the digest of a package is not the expected one.         *)
CacheFails ==
    /\ \/ fcStep = "index" /\ UNCHANGED fcPkg
       \/ /\ fcStep = "fetch"
          /\ \E p \in fcToFetch : ~Cached(p) /\ fcPkg' = Unlinked(p)
    /\ fcStep' = "failed"
    /\ UNCHANGED <<fcRunVars, fcDiskIndex, fcWorld>>

(* A kill leaves the file that was open for writing as far as it was.      *)
KillRun ==
    /\ fcStep \notin Over \cup {"idle"}
    /\ fcStep' = "killed"
    /\ \/ UNCHANGED fcDisk
       \/ /\ fcStep = "write"
          /\ fcPkg' = [fcPkg EXCEPT ![fcFile[1]] = "part"]
          /\ UNCHANGED fcDiskIndex
       \/ /\ fcStep = "index" /\ fcApply
          /\ fcDiskIndex' = [fcDiskIndex EXCEPT ![FeedOrder[fcFeedAt + 1]] =
                               [p \in Packages |-> "absent"]]
          /\ UNCHANGED fcPkg
    /\ UNCHANGED <<fcRunVars, fcWorld>>

(* Outside the program: a feed publishes another version or drops one.     *)
NewRelease ==
    /\ fcReleases < MaxReleases
    /\ \E f \in Feed, p \in Packages, v \in Versions \cup {"absent"} :
         fcUpstream' = [fcUpstream EXCEPT ![f][p] = v]
    /\ fcReleases' = fcReleases + 1
    /\ UNCHANGED <<fcStep, fcRunVars, fcDisk, fcRuns>>

FeedNext == \/ \E apply \in BOOLEAN : StartRun(apply)
            \/ FetchIndex \/ ResolveName \/ ClosureComplete
            \/ \E p \in Packages : KeepCached(p) \/ FetchPackage(p)
            \/ WritePackage \/ CacheDone \/ CacheFails \/ KillRun \/ NewRelease

FeedSpec == FeedInit /\ [][FeedNext]_fcVars

-----------------------------------------------------------------------------
FeedTypeOK ==
    /\ fcStep \in Over \cup {"idle", "index", "resolve", "fetch", "write"}
    /\ fcFeedAt \in 0 .. Len(FeedOrder)
    /\ fcPending \subseteq Packages /\ fcToFetch \subseteq DOMAIN fcResolved
    /\ fcPkg \in [Packages -> Versions \cup {"absent", "part", "wrong"}]
    /\ fcIndex \in [Feed -> Listed] /\ fcDiskIndex \in [Feed -> Listed]
    /\ fcUpstream \in [Feed -> Listed]

(* After DONE the guest can install from the cache alone, whatever earlier *)
(* runs left in it: every resolved package is there complete, the ones     *)
(* with a digest are what the index beside them lists, and whatever they   *)
(* depend on is resolved too, in the base image or in no index.            *)
DoneIsInstallable ==
    fcStep = "done" => \A p \in DOMAIN fcResolved :
        /\ fcPkg[p] \notin {"absent", "part"}
        /\ p \in Unhashed \/ fcPkg[p] = fcDiskIndex[fcResolved[p]][p]
        /\ \A d \in NeededBy[p] : \/ d \in DOMAIN fcResolved \cup InBaseImage
                                  \/ \A f \in Feed : fcDiskIndex[f][d] = "absent"
==============================================================================
