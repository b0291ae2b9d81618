----------------------------- MODULE FaceClusters -----------------------------
(***************************************************************************)
(* ClusterManager (ml/clustering/cluster_manager.py) with its clusterer,   *)
(* its writer and its recovery: FaceService.run_clustering takes the event *)
(* lock three times, for the cluster pass, the sweeper pass and the        *)
(* recovery of orphans.  Each phase reads the clusters and a batch of      *)
(* faces without one, groups them, and writes the outcome in one           *)
(* transaction.                                                            *)
(*                                                                         *)
(* Which faces resemble each other is an input: a grouping is any function *)
(* from batch and clusters to the member that stands for the group.  Kept  *)
(* of a cluster are its two counters; it has a pyr_centroid exactly when   *)
(* pyr_size is positive.  Sessions do not expire their rows on commit, so  *)
(* a row a session has loaded before may be read as it was then, unless    *)
(* the copy was collected: which of the two happens is left open.          *)
(*                                                                         *)
(* Both feature flags are at their default, on.  Faces outside both ranges *)
(* of angles, or rejected by the quality filter, are never loaded.         *)
(***************************************************************************)
EXTENDS Integers, FiniteSets, FiniteSetsExt, Functions

CONSTANTS
    Frontal,        \* faces in the range of the cluster pass
    Profile,        \* faces in the range of the sweeper and of crop recovery
    Deletable,      \* bound: faces whose photo may be deleted
    NumClusters,    \* bound: clusters ever created
    Sessions,       \* each runs the clustering of the event once
    ClusterBatchSize, \* clustering_batch_size
    MaxOrphanSize,  \* orphan_cluster_max_size
    Slow,           \* phases in which the lock may expire under a live run
    MaxFaults,      \* bound: runs that fail or die, and keys that expire under a live run
    Nil, Dead       \* no cluster or no holder; the lock of a killed worker

Crops    == Frontal \cup Profile
Clusters == 1..NumClusters          \* in the order of their ids

ASSUME ClusterAssumption ==
    /\ Frontal \cap Profile = {}
    /\ Deletable \subseteq Crops /\ Slow \subseteq {"cluster", "sweeper", "crops", "merge"}
    /\ IsFiniteSet(Crops)
    /\ NumClusters \in Nat /\ ClusterBatchSize \in Nat \ {0}
    /\ MaxOrphanSize \in Nat /\ MaxFaults \in Nat
    /\ Nil \notin Clusters \cup Crops \cup Sessions
    /\ Dead \notin Sessions \cup {Nil}
    /\ Crops \cap Clusters = {}

VARIABLES
    rows,       \* face_embeddings: the rows there are
    gone,       \* faces whose row was deleted
    member,     \* cluster_id; of a deleted row, the cluster that counted it
    live,       \* face_clusters: the rows there are
    fresh,      \* ids no cluster has had yet
    row,        \* face_clusters: cluster_size and pyr_size
    holder,     \* clustering_lock:{event_id}
    phase,      \* runs: not begun, the phase they are in, or over
    step,       \* runs: before the lock, holding it, or with a batch loaded
    batch,      \* runs: the faces loaded
    tried,      \* runs: attempted_ids
    held,       \* runs: clusters whose row is in the session
    copy,       \* runs: those rows, as the session has them
    swept,      \* history: faces that the sweeper put where they are
    tainted,    \* history: clusters counted from a copy that was out of date
    lapsed,     \* history: whether a key has expired under a live run
    faults

faces    == <<rows, gone, member>>
clusters == <<live, fresh, row>>
session  == <<phase, step, batch, tried, held, copy>>
faulty   == <<lapsed, faults>>
history  == <<swept, tainted>>
clusterVars == <<faces, clusters, holder, session, history, faulty>>

Row    == [size : Nat, pyr : Nat]
NoRow  == [size |-> 0, pyr |-> 0]
Phases == {"cluster", "sweeper", "crops", "merge"}

ClusterTypeOK ==
    /\ rows \subseteq Crops /\ gone \subseteq Crops \ rows
    /\ member \in [Crops -> Clusters \cup {Nil}]
    /\ live \subseteq Clusters /\ fresh \subseteq Clusters \ live
    /\ row \in [Clusters -> Row]
    /\ holder \in Sessions \cup {Nil, Dead}
    /\ phase \in [Sessions -> Phases \cup {"new", "over"}]
    /\ step \in [Sessions -> {"waits", "holds", "loaded"}]
    /\ batch \in [Sessions -> SUBSET Crops] /\ tried \in [Sessions -> SUBSET Crops]
    /\ held \in [Sessions -> SUBSET Clusters]
    /\ copy \in [Sessions -> [Clusters -> Row]]
    /\ swept \subseteq Profile /\ tainted \subseteq Clusters
    /\ lapsed \in BOOLEAN /\ faults \in 0..MaxFaults

ClusterInit ==
    /\ rows = {} /\ gone = {} /\ member = [c \in Crops |-> Nil]
    /\ live = {} /\ fresh = Clusters /\ row = [k \in Clusters |-> NoRow]
    /\ holder = Nil
    /\ phase = [r \in Sessions |-> "new"] /\ step = [r \in Sessions |-> "waits"]
    /\ batch = [r \in Sessions |-> {}] /\ tried = [r \in Sessions |-> {}]
    /\ held = [r \in Sessions |-> {}]
    /\ copy = [r \in Sessions |-> [k \in Clusters |-> NoRow]]
    /\ swept = {} /\ tainted = {} /\ lapsed = FALSE /\ faults = 0

-----------------------------------------------------------------------------
(* The rest of the application. *)

\* _persist_passed_crops stores a face.
StoreFace(c) ==
    /\ c \notin rows \cup gone
    /\ rows' = rows \cup {c}
    /\ UNCHANGED <<gone, member, clusters, holder, session, history, faulty>>

\* A photo is deleted and its faces with it (ON DELETE CASCADE); no cluster is told.
DeleteFace(c) ==
    /\ c \in rows \cap Deletable
    /\ rows' = rows \ {c} /\ gone' = gone \cup {c}
    /\ UNCHANGED <<member, clusters, holder, session, history, faulty>>

\* archive_event deletes every face and every cluster of the event.
Archive ==
    /\ live # {}
    /\ rows' = {} /\ gone' = gone \cup rows
    /\ member' = [c \in Crops |-> Nil]
    /\ live' = {} /\ row' = [k \in Clusters |-> NoRow]
    /\ UNCHANGED <<fresh, holder, session, history, faulty>>

-----------------------------------------------------------------------------
(* A run. *)

\* The bulk pipeline comes with the event and its clusters in the session, the
\* clustering task with an empty one.
Start(r) ==
    /\ phase[r] = "new"
    /\ phase' = [phase EXCEPT ![r] = "cluster"]
    /\ \E loaded \in {{}, live} : held' = [held EXCEPT ![r] = loaded]
    /\ copy' = [copy EXCEPT ![r] = row]
    /\ UNCHANGED <<faces, clusters, holder, step, batch, tried, history, faulty>>

\* Mutant: the answer of SET NX is not looked at.
AcquireWithoutNX(r) ==
    /\ phase[r] \in Phases /\ step[r] = "waits"
    /\ holder' = r
    /\ step' = [step EXCEPT ![r] = "holds"]
    /\ UNCHANGED <<faces, clusters, phase, batch, tried, held, copy, history, faulty>>

Acquire(r) ==
    /\ phase[r] \in Phases /\ step[r] = "waits"
    /\ holder = Nil
    /\ holder' = r
    /\ step' = [step EXCEPT ![r] = "holds"]
    /\ UNCHANGED <<faces, clusters, phase, batch, tried, held, copy, history, faulty>>

Drops(r) == holder' = IF holder = r THEN Nil ELSE holder

\* The next phase that takes the lock itself, or the end of the run.
GoesTo(r, next) ==
    /\ phase' = [phase EXCEPT ![r] = next]
    /\ step' = [step EXCEPT ![r] = "waits"]
    /\ batch' = [batch EXCEPT ![r] = {}]
    /\ tried' = [tried EXCEPT ![r] = {}]

\* ClusteringLockBusyError, after every attempt found the key.
Busy(r) ==
    /\ phase[r] \in Phases /\ step[r] = "waits"
    /\ holder # Nil
    /\ GoesTo(r, "over")
    /\ UNCHANGED <<faces, clusters, holder, held, copy, history, faulty>>

Angles(r) == IF phase[r] = "cluster" THEN Frontal ELSE Profile

Unclustered(r) == {c \in rows \cap Angles(r) : member[c] = Nil} \ tried[r]

Batches(r) == kSubset(Min({ClusterBatchSize, Cardinality(Unclustered(r))}), Unclustered(r))

\* load_event_clusters: the rows there are, some of them as the session has them.
Outdated(r) == {k \in held[r] \cap live : copy[r][k] # row[k]}

ReadsClusters(r) ==
    \E kept \in SUBSET Outdated(r) :
        /\ held' = [held EXCEPT ![r] = live]
        /\ copy' = [copy EXCEPT ![r] =
               [k \in Clusters |-> IF k \in kept THEN copy[r][k] ELSE row[k]]]

LoadBatch(r) ==
    /\ phase[r] \in {"cluster", "sweeper"} /\ step[r] = "holds"
    /\ Unclustered(r) # {}
    /\ ReadsClusters(r)
    /\ \E b \in Batches(r) :
        /\ batch' = [batch EXCEPT ![r] = b]
        /\ tried' = [tried EXCEPT ![r] = @ \cup b]
    /\ step' = [step EXCEPT ![r] = "loaded"]
    /\ UNCHANGED <<faces, clusters, holder, phase, history, faulty>>

EndPass(r) ==
    /\ phase[r] \in {"cluster", "sweeper"} /\ step[r] = "holds"
    /\ Unclustered(r) = {}
    /\ ReadsClusters(r)
    /\ Drops(r)
    /\ GoesTo(r, IF phase[r] = "cluster" THEN "sweeper" ELSE "crops")
    /\ UNCHANGED <<faces, clusters, history, faulty>>

-----------------------------------------------------------------------------
(* What becomes of a batch: where each face, and each cluster read, goes. *)

\* The larger cluster survives, the smaller id among equals.
Outranks(r, j, k) ==
    \/ copy[r][j].size > copy[r][k].size
    \/ copy[r][j].size = copy[r][k].size /\ j <= k

\* IncrementalClusterer.cluster: each member of a group points to the one that
\* stands for it, a cluster if the group has any; a face of no group is noise.
Groupings(r) ==
    {f \in [held[r] \cup batch[r] -> held[r] \cup batch[r] \cup {Nil}] :
        /\ \A x \in DOMAIN f : f[x] # Nil => f[f[x]] = f[x]
        /\ \A k \in held[r] : f[k] \in held[r] /\ Outranks(r, f[k], k)}

Founders(r, f) == {c \in batch[r] : f[c] = c}

\* The ids of the clusters that groups without one found.
FreshIds(r, f) == {ids \in [Founders(r, f) -> fresh] : IsInjective(ids)}

Clustered(r, f, ids) ==
    [x \in DOMAIN f |-> IF f[x] \in batch[r] THEN ids[f[x]] ELSE f[x]]

\* The sweeper founds nothing and merges nothing: such groups are left alone.
Sweepable(r, f, c) ==
    /\ f[c] \in held[r]
    /\ \A k \in held[r] : f[k] = f[c] => k = f[c]

SweptOnto(r, f) ==
    [x \in DOMAIN f |-> IF x \in held[r] THEN x
                        ELSE IF Sweepable(r, f, x) THEN f[x] ELSE Nil]

\* match_orphan_crops: a face goes to one of the clusters with a pyr_centroid, or stays.
WithPyr(r) == {k \in held[r] : copy[r][k].pyr > 0}

CropMatches(r) ==
    {to \in [held[r] \cup batch[r] -> held[r] \cup {Nil}] :
        /\ \A k \in held[r] : to[k] = k
        /\ \A c \in batch[r] : to[c] \in WithPyr(r) \cup {Nil}}

\* match_orphan_clusters: a small cluster goes into one that is not, or stays.
Orphans(r) == {k \in held[r] : copy[r][k].size <= MaxOrphanSize}

ClusterMatches(r) ==
    {to \in [held[r] -> held[r]] :
        \A k \in held[r] : to[k] # k => k \in Orphans(r) /\ to[k] \notin Orphans(r)}

-----------------------------------------------------------------------------
(* ClusterPersistence.write_result, and the commit. *)

Joining(r, to, k)  == {c \in batch[r] : to[c] = k}
Into(r, to, k)     == {j \in held[r] : to[j] = k}
Absorbed(r, to)    == {j \in held[r] : to[j] # j}
Merges(r, to, k)   == Into(r, to, k) \ {k} # {}
Targets(r, to)     == ({to[c] : c \in batch[r]} \ {Nil}) \cup {to[j] : j \in Absorbed(r, to)}

\* merged_pyr_state reads the clusters of a merge once more.
MergedPyr(r, to, k, kept) ==
    SumFunctionOnSet([j \in Clusters |-> IF j \in kept THEN copy[r][j].pyr ELSE row[j].pyr],
                     Into(r, to, k) \cap live)

\* A merge keeps the faces of all its clusters, as the session counts them.
MergedSize(r, to, k) ==
    SumFunctionOnSet([j \in Clusters |-> copy[r][j].size], Into(r, to, k))

\* The values of one UPDATE: counts names the counters that faces are added to.
Values(r, to, k, counts, kept, old) ==
    LET n == Cardinality(Joining(r, to, k))
    IN  [size |-> IF "size" \in counts \/ Merges(r, to, k)
                  THEN n + MergedSize(r, to, k)
                  ELSE old.size,
         pyr  |-> IF Merges(r, to, k) THEN MergedPyr(r, to, k, kept)
                  ELSE IF "pyr" \in counts /\ n > 0 THEN copy[r][k].pyr + n
                  ELSE old.pyr]

\* No row may refer to a cluster that is gone: the transaction would be rolled back.
Referable(r, to) ==
    /\ \A c \in batch[r] \cap rows : to[c] \in live \cup fresh \cup {Nil}
    /\ \A c \in rows : member[c] \in Absorbed(r, to) => to[member[c]] \in live

MemberAfter(r, to) ==
    [c \in Crops |-> IF c \in batch[r] /\ to[c] # Nil THEN to[c]
                     ELSE IF member[c] \in Absorbed(r, to) THEN to[member[c]]
                     ELSE member[c]]

LiveAfter(r, to) == (live \cup (Targets(r, to) \cap fresh)) \ Absorbed(r, to)

\* Clusters whose counters no longer follow from their faces: written from a copy
\* that was out of date, or robbed of a face that another run had put there.
TaintedAfter(r, to) ==
    tainted \cup {to[j] : j \in {i \in held[r] : /\ to[i] \in Targets(r, to)
                                                /\ \/ i \in tainted \cup Outdated(r)
                                                   \/ i \notin live}}
            \cup {member[c] : c \in {d \in batch[r] : to[d] # Nil /\ member[d] # Nil}}

Persist(r, to, counts) ==
    /\ Referable(r, to)
    /\ \E kept \in SUBSET Outdated(r) :
        LET stays == LiveAfter(r, to)
            new(k, old) == IF k \notin stays THEN NoRow
                           ELSE IF k \in Targets(r, to)
                           THEN Values(r, to, k, counts, kept, old) ELSE old
        IN  /\ row' = [k \in Clusters |-> new(k, row[k])]
            /\ copy' = [copy EXCEPT ![r] = [k \in Clusters |-> new(k, copy[r][k])]]
            /\ held' = [held EXCEPT ![r] = (@ \cup Targets(r, to)) \cap stays]
    /\ member' = MemberAfter(r, to)
    /\ live' = LiveAfter(r, to)
    /\ fresh' = fresh \ Targets(r, to)
    /\ LET joining == {c \in batch[r] : to[c] # Nil}
       IN  swept' = IF phase[r] = "sweeper" THEN swept \cup joining ELSE swept \ joining
    /\ tainted' = TaintedAfter(r, to)
    /\ UNCHANGED <<rows, gone, faulty>>

Continues(r) ==
    /\ step' = [step EXCEPT ![r] = "holds"]
    /\ batch' = [batch EXCEPT ![r] = {}]
    /\ UNCHANGED <<phase, tried, holder>>

ClusterBatch(r) ==
    /\ phase[r] = "cluster" /\ step[r] = "loaded"
    /\ \E f \in Groupings(r) : \E ids \in FreshIds(r, f) :
        Persist(r, Clustered(r, f, ids), {"size"})
    /\ Continues(r)

SweepBatch(r) ==
    /\ phase[r] = "sweeper" /\ step[r] = "loaded"
    /\ \E f \in Groupings(r) : Persist(r, SweptOnto(r, f), {"pyr"})
    /\ Continues(r)

-----------------------------------------------------------------------------
(* run_recovery: both recoveries under one lock, which only the second extends. *)

\* A batch is loaded before the clusters are; without a pyr_centroid to match the
\* recovery of faces ends there.
LoadOrphans(r) ==
    /\ phase[r] = "crops" /\ step[r] = "holds"
    /\ Unclustered(r) # {}
    /\ ReadsClusters(r)
    /\ \E b \in Batches(r) :
        IF \E k \in live : copy'[r][k].pyr > 0
        THEN /\ batch' = [batch EXCEPT ![r] = b]
             /\ tried' = [tried EXCEPT ![r] = @ \cup b]
             /\ step' = [step EXCEPT ![r] = "loaded"]
             /\ UNCHANGED phase
        ELSE /\ phase' = [phase EXCEPT ![r] = "merge"]
             /\ UNCHANGED <<batch, tried, step>>
    /\ UNCHANGED <<faces, clusters, holder, history, faulty>>

\* Mutant: recovery counts like the sweeper.
RecoverUncounted(r) ==
    /\ phase[r] = "crops" /\ step[r] = "loaded"
    /\ \E to \in CropMatches(r) : Persist(r, to, {"pyr"})
    /\ Continues(r)

RecoverBatch(r) ==
    /\ phase[r] = "crops" /\ step[r] = "loaded"
    /\ \E to \in CropMatches(r) : Persist(r, to, {"size", "pyr"})
    /\ Continues(r)

EndCrops(r) ==
    /\ phase[r] = "crops" /\ step[r] = "holds"
    /\ Unclustered(r) = {}
    /\ phase' = [phase EXCEPT ![r] = "merge"]
    /\ UNCHANGED <<faces, clusters, holder, step, batch, tried, held, copy, history, faulty>>

LoadClusters(r) ==
    /\ phase[r] = "merge" /\ step[r] = "holds"
    /\ ReadsClusters(r)
    /\ step' = [step EXCEPT ![r] = "loaded"]
    /\ UNCHANGED <<faces, clusters, holder, phase, batch, tried, history, faulty>>

MergeOrphans(r) ==
    /\ phase[r] = "merge" /\ step[r] = "loaded"
    /\ \E to \in ClusterMatches(r) : Persist(r, to, {})
    /\ Drops(r)
    /\ GoesTo(r, "over")

-----------------------------------------------------------------------------
(* Failures. *)

Fault == faults < MaxFaults /\ faults' = faults + 1

\* A database or Redis call fails: rollback, and finally the lock is released.
Fails(r) ==
    /\ phase[r] \in Phases /\ step[r] # "waits"
    /\ Fault
    /\ Drops(r)
    /\ GoesTo(r, "over")
    /\ UNCHANGED <<faces, clusters, held, copy, history, lapsed>>

Dies(r) ==
    /\ phase[r] \in Phases
    /\ Fault
    /\ holder' = IF holder = r THEN Dead ELSE holder
    /\ GoesTo(r, "over")
    /\ UNCHANGED <<faces, clusters, held, copy, history, lapsed>>

\* The key of a killed worker expires.
Expires ==
    /\ holder = Dead
    /\ holder' = Nil
    /\ UNCHANGED <<faces, clusters, session, history, faulty>>

\* The key expires under a live run.  A pass prolongs it after each batch, recovery
\* not before its faces are done.
Lapses ==
    /\ holder \in Sessions /\ phase[holder] \in Slow
    /\ Fault
    /\ holder' = Nil
    /\ lapsed' = TRUE
    /\ UNCHANGED <<faces, clusters, session, history>>

RunStep(r) ==
    \/ Acquire(r) \/ Busy(r)
    \/ LoadBatch(r) \/ EndPass(r) \/ ClusterBatch(r) \/ SweepBatch(r)
    \/ LoadOrphans(r) \/ RecoverBatch(r) \/ EndCrops(r)
    \/ LoadClusters(r) \/ MergeOrphans(r)
    \/ Fails(r)

ClusterNext ==
    \/ \E c \in Crops : StoreFace(c) \/ DeleteFace(c)
    \/ Archive
    \/ \E r \in Sessions : Start(r) \/ RunStep(r) \/ Dies(r)
    \/ Expires \/ Lapses

ClusterSpec == ClusterInit /\ [][ClusterNext]_clusterVars

-----------------------------------------------------------------------------
(* Properties. *)

\* cluster_size counts the faces that ever joined a cluster, whether founding,
\* expanding, merging or recovered put them there, except for the faces of the
\* sweeper; pyr_size counts those of high angle.  Deleted faces stay counted.
Counted(k) ==
    /\ row[k].size = Cardinality({c \in Crops : member[c] = k} \ swept)
    /\ row[k].pyr = Cardinality({c \in Profile : member[c] = k})

\* Faces and clusters agree, unless two sessions overlapped on a cluster: a face
\* refers to a cluster there is, a cluster counts its faces, and none consists of
\* high-angle faces only, for neither sweeper nor recovery founds one.
MembersAgree ==
    /\ \A c \in rows : member[c] \in live \cup {Nil}
    /\ \A k \in live \ tainted : Counted(k) /\ \E c \in Frontal : member[c] = k

\* A face that has a person keeps one, and another only when its cluster is absorbed:
\* two runs never cluster the same face, unless the lock expired under one of them.
KeepsItsPerson ==
    [][\A c \in rows \cap rows' : member[c] # Nil =>
          /\ member'[c] # Nil
          /\ member'[c] = member[c] \/ member[c] \notin live' \/ lapsed]_clusterVars

==============================================================================
