---------------------------- MODULE Topic1Graph ----------------------------
(***************************************************************************)
(* The knowledge graph of one course (domains/topic1/service.py over       *)
(* postgres_repository.py): the working tables, replaced as a whole by     *)
(* every mutation, and the append-only snapshots.                          *)
(*                                                                         *)
(* A mutation is one SERIALIZABLE transaction that reserves its            *)
(* idempotency key, takes the course's advisory lock, loads, changes,      *)
(* normalises and replaces the graph, and appends the audit record, the    *)
(* snapshot and the outbox event of the new version; it commits as a whole *)
(* or not at all, and a repeated key is answered from its record.  So one  *)
(* action is one committed mutation, and a request that is refused (stale  *)
(* revision, cycle, missing entity, unreadable snapshot) is no step.       *)
(*                                                                         *)
(* A document is abstracted to a member of Docs with the two values the    *)
(* normalisation looks at; a prerequisite, which has an id of its own, to  *)
(* its endpoints and its type of relation.  Misconceptions, textbook       *)
(* sections, mappings and golden questions only come with imports and only *)
(* exist or not.                                                           *)
(***************************************************************************)
EXTENDS Topic1Topology, Sequences

CONSTANTS
  Points,                  \* knowledge points
  Docs, Declared, Base,    \* documents: declared level, and score (topology.py)
  EdgeIds, Ties,           \* prerequisites: <<prerequisite, dependent, relation>>
  Mappings, MapOf,         \* MapOf[m] = [kp, section]
  Sections, Parent, NoSection,
  Mistakes, MistakeOf,     \* misconceptions and their knowledge point
  Questions, AskOf,        \* AskOf[q] = [kps, mistakes]
  Bundles,                 \* contents an import may bring
  MaxVersion               \* bound on the mutations of a behaviour

ASSUME Topic1Assumption ==
  /\ Declared \in [Docs -> 1..5] /\ Base \in [Docs -> 0..1000]
  /\ MapOf \in [Mappings -> [kp: Points, section: Sections]]
  /\ Parent \in [Sections -> Sections \union {NoSection}] /\ NoSection \notin Sections
  /\ MistakeOf \in [Mistakes -> Points]
  /\ AskOf \in [Questions -> [kps: SUBSET Points, mistakes: SUBSET Mistakes]]
  /\ MaxVersion \in Nat

VARIABLES
  tables,     \* the working tables of the course
  snapshots   \* topic1_graph_snapshots: snapshots[v] is graph version v

vars == <<tables, snapshots>>

MaxRevision == 3 * MaxVersion

Point == [revision: 1..MaxRevision, doc: Docs, difficulty: 1..5,
          level: 0..Cardinality(Points), weight: 0..1000000]

Edge == [tie: Ties, revision: 1..MaxRevision]

\* A record of what the contract names of a point, a prerequisite, a graph.
PointRecord(x) ==
  x = [revision |-> x.revision, doc |-> x.doc, difficulty |-> x.difficulty,
       level |-> x.level, weight |-> x.weight]

ShapedPoint(x) == PointRecord(x) /\ x.revision \in Nat

ShapedEdge(x) == x = [tie |-> x.tie, revision |-> x.revision] /\ x.revision \in Nat

Shaped(c) ==
  /\ c = [course |-> c.course, points |-> c.points, edges |-> c.edges,
          mistakes |-> c.mistakes, sections |-> c.sections,
          mappings |-> c.mappings, questions |-> c.questions]
  /\ c.course \in Nat
  /\ c.points = [p \in DOMAIN c.points |-> c.points[p]] /\ IsFiniteSet(DOMAIN c.points)
  /\ \A p \in DOMAIN c.points : ShapedPoint(c.points[p])
  /\ c.edges = [i \in DOMAIN c.edges |-> c.edges[i]]
  /\ \A i \in DOMAIN c.edges : ShapedEdge(c.edges[i])

\* Topic1GraphContentV1; course is the revision of the course, 0 without one.
IsContent(c) ==
  /\ Shaped(c)
  /\ c.course \in 0..MaxRevision
  /\ DOMAIN c.points \subseteq Points /\ \A p \in DOMAIN c.points : c.points[p] \in Point
  /\ DOMAIN c.edges \subseteq EdgeIds /\ Range(c.edges) \subseteq Edge
  /\ c.mistakes \subseteq Mistakes /\ c.sections \subseteq Sections
  /\ c.mappings \subseteq Mappings /\ c.questions \subseteq Questions

\* An import is parsed before anything else looks at it.
ASSUME BundlesAssumption == \A b \in Bundles : Shaped(b)

NoContent ==
  [course |-> 0, points |-> <<>>, edges |-> <<>>, mistakes |-> {}, sections |-> {},
   mappings |-> {}, questions |-> {}]

Init == tables = NoContent /\ snapshots = <<>>

-----------------------------------------------------------------------------
(* The contract and the repository.                                        *)

\* The sections a set of mappings leads to, with all their ancestors.
Mapped(mappings) ==
  LET up[i \in 0..Cardinality(Sections)] ==
        IF i = 0 THEN {MapOf[m].section : m \in mappings}
        ELSE LET known == up[i - 1]
             IN known \union ({Parent[s] : s \in known} \ {NoSection})
  IN up[Cardinality(Sections)]

\* Who depends on whom.  Edges of different relations may join two points.
Links(edges) == {<<edges[i].tie[1], edges[i].tie[2]>> : i \in DOMAIN edges}

\* No two prerequisites relate the same points in the same way.
TiedOnce(edges) ==
  \A i, j \in DOMAIN edges : edges[i].tie = edges[j].tie => i = j

\* validate_references, run whenever a content is built or parsed, and not
\* when a copy of one is updated.
Valid(c) ==
  LET kps == DOMAIN c.points IN
  /\ \A e \in Links(c.edges) : e[1] \in kps /\ e[2] \in kps /\ e[1] # e[2]
  /\ TiedOnce(c.edges)
  /\ \A m \in c.mistakes : MistakeOf[m] \in kps
  /\ \A s \in c.sections : Parent[s] \in c.sections \union {NoSection}
  /\ \A m \in c.mappings : MapOf[m].kp \in kps /\ MapOf[m].section \in c.sections
  /\ c.sections = Mapped(c.mappings)
  /\ \A q \in c.questions : AskOf[q].kps \subseteq kps /\ AskOf[q].mistakes \subseteq c.mistakes

LoadEverySection == tables

\* load_graph_content reads the sections that mappings lead to.
Load == [tables EXCEPT !.sections = Mapped(tables.mappings) \intersect tables.sections]

\* replace_graph_content: knowledge points are deleted, with what hangs on
\* them, and inserted anew; textbooks and their sections are only merged.
Replaced(c) == [c EXCEPT !.sections = @ \union tables.sections]

Latest == snapshots[Len(snapshots)].content

\* latest_snapshot parses the document it reads, contract included.
LatestReadable == snapshots # <<>> => Valid(Latest)

-----------------------------------------------------------------------------
(* Normalisation and commit.                                               *)

\* The prerequisites of a knowledge point.
Incoming(edges, p) == {i \in DOMAIN edges : edges[i].tie[2] = p}

Rated(c) ==
  LET nodes == DOMAIN c.points
      links == Links(c.edges)
      level == Levels(nodes, links)
      weight == Weights(nodes, links)
  IN [p \in nodes |->
        [c.points[p] EXCEPT
           !.difficulty = Difficulty(Base[c.points[p].doc], Cardinality(Incoming(c.edges, p))),
           !.level = level[p],
           !.weight = weight[p]]]

NormalizedQuietly(c) == [c EXCEPT !.points = Rated(c)]

\* _normalize_content: level, weight and difficulty are computed anew, and a
\* point whose computed values change gets another revision.
Normalized(c) ==
  LET rated == Rated(c)
  IN [c EXCEPT !.points =
        [p \in DOMAIN c.points |->
           IF rated[p] = c.points[p] THEN rated[p] ELSE [rated[p] EXCEPT !.revision = @ + 1]]]

Analysable(c) ==
  /\ \A e \in Links(c.edges) : e[1] \in DOMAIN c.points /\ e[2] \in DOMAIN c.points
  /\ ~HasCycle(DOMAIN c.points, Links(c.edges))

\* The rest of every mutation: normalise, replace (the table admits a relation
\* of two points once), append the next version.
Commit(c, action, from) ==
  /\ LatestReadable
  /\ Analysable(c)
  /\ TiedOnce(c.edges)
  /\ LET content == Normalized(c) IN
       /\ tables' = Replaced(content)
       /\ snapshots' = Append(snapshots, [content |-> content, action |-> action,
                                          restored |-> from])

\* _check_revision; 0 stands for "no revision expected" and "does not exist".
CheckRevision(actual, expected) == expected = actual

HasCourse == tables.course > 0 /\ Valid(Load)

-----------------------------------------------------------------------------
(* The mutations.                                                          *)

UpsertCourse(expected) ==
  /\ tables.course > 0 => Valid(Load)
  /\ CheckRevision(tables.course, expected)
  /\ Commit([Load EXCEPT !.course = @ + 1], "COURSE_UPSERTED", 0)

With(f, x, v) == [y \in DOMAIN f \union {x} |-> IF y = x THEN v ELSE f[y]]
Without(f, S) == Restrict(f, DOMAIN f \ S)

PointRevision(p) == IF p \in DOMAIN tables.points THEN tables.points[p].revision ELSE 0

Written(p, d) ==
  IF p \in DOMAIN tables.points
    THEN [tables.points[p] EXCEPT !.revision = @ + 1, !.doc = d, !.difficulty = Declared[d]]
    ELSE [revision |-> 1, doc |-> d, difficulty |-> Declared[d], level |-> 0, weight |-> 0]

UpsertKnowledgePoint(p, d, expected) ==
  /\ HasCourse
  /\ CheckRevision(PointRevision(p), expected)
  /\ Commit([Load EXCEPT !.points = With(@, p, Written(p, d))], "KNOWLEDGE_POINT_UPSERTED", 0)

\* What a deleted knowledge point takes with it.  The sections only it was
\* mapped to stay, and so do questions that name its misconceptions.
Deleted(c, p) ==
  [course |-> c.course,
   points |-> Without(c.points, {p}),
   edges |-> Without(c.edges, {i \in DOMAIN c.edges :
                               p \in {c.edges[i].tie[1], c.edges[i].tie[2]}}),
   mistakes |-> {m \in c.mistakes : MistakeOf[m] # p},
   sections |-> c.sections,
   mappings |-> {m \in c.mappings : MapOf[m].kp # p},
   questions |-> {q \in c.questions : p \notin AskOf[q].kps}]

DeleteKnowledgePoint(p, expected) ==
  /\ HasCourse
  /\ p \in DOMAIN tables.points
  /\ CheckRevision(PointRevision(p), expected)
  /\ Commit(Deleted(Load, p), "KNOWLEDGE_POINT_DELETED", 0)

EdgeRevision(i) == IF i \in DOMAIN tables.edges THEN tables.edges[i].revision ELSE 0

\* An id keeps its revisions when it comes to relate other points.
Tied(i, tie) == [tie |-> tie, revision |-> EdgeRevision(i) + 1]

UpsertPrerequisite(i, tie, expected) ==
  /\ HasCourse
  /\ CheckRevision(EdgeRevision(i), expected)
  /\ tie[1] # tie[2]
  /\ Commit([Load EXCEPT !.edges = With(@, i, Tied(i, tie))], "PREREQUISITE_UPSERTED", 0)

DeletePrerequisite(i, expected) ==
  /\ HasCourse
  /\ i \in DOMAIN tables.edges
  /\ CheckRevision(EdgeRevision(i), expected)
  /\ Commit([Load EXCEPT !.edges = Without(@, {i})], "PREREQUISITE_DELETED", 0)

\* import_bundle replaces the graph by the bundle, revisions included, when
\* the version the client built on is still the latest.
ImportBundle(b, parent) ==
  /\ Valid(b)
  /\ parent = Len(snapshots)
  /\ Commit(b, "GRAPH_IMPORTED", 0)

FreezeGraph ==
  /\ HasCourse
  /\ Commit(Load, "GRAPH_FROZEN", 0)

\* _roll_forward_content: every revision moves past the restored one, and to
\* the new graph version if that is higher.
Advanced(revision, version) == Max({revision + 1, version})

RolledForwardPointsOnly(c, version) ==
  [c EXCEPT !.points = [p \in DOMAIN @ |-> [@[p] EXCEPT !.revision = Advanced(@, version)]],
            !.edges = <<>>]

RolledForward(c, version) ==
  [c EXCEPT
     !.course = Advanced(@, version),
     !.points = [p \in DOMAIN c.points |->
                   [c.points[p] EXCEPT !.revision = Advanced(@, version)]],
     !.edges = [i \in DOMAIN c.edges |->
                  [c.edges[i] EXCEPT !.revision = Advanced(@, version)]]]

RollbackSnapshot(v) ==
  /\ v \in 1..Len(snapshots)
  /\ Valid(snapshots[v].content)
  /\ Commit(RolledForward(snapshots[v].content, Len(snapshots) + 1),
            "GRAPH_ROLLED_BACK", v)

Mutation ==
  \/ \E expected \in 0..MaxRevision :
       \/ UpsertCourse(expected)
       \/ \E p \in Points, d \in Docs : UpsertKnowledgePoint(p, d, expected)
       \/ \E p \in Points : DeleteKnowledgePoint(p, expected)
       \/ \E i \in EdgeIds, tie \in Ties : UpsertPrerequisite(i, tie, expected)
       \/ \E i \in EdgeIds : DeletePrerequisite(i, expected)
  \/ \E b \in Bundles, parent \in 0..MaxVersion : ImportBundle(b, parent)
  \/ FreezeGraph
  \/ \E v \in 1..MaxVersion : RollbackSnapshot(v)

Next == Len(snapshots) < MaxVersion /\ Mutation

Spec == Init /\ [][Next]_vars

-----------------------------------------------------------------------------
TypeOK ==
  /\ IsContent(tables)
  /\ Len(snapshots) \in 0..MaxVersion
  /\ \A v \in 1..Len(snapshots) :
       IsContent(snapshots[v].content) /\ snapshots[v].restored \in 0..MaxVersion

\* Whatever sequence of upserts, deletions, imports and rollbacks led to it,
\* every snapshot holds an acyclic graph, and the level Kahn's loop stored
\* with a point is the length of the longest chain of prerequisites below it.
LevelsAreLongestPaths ==
  snapshots # <<>> =>
    LET nodes == DOMAIN Latest.points
        links == Links(Latest.edges)
    IN /\ Acyclic(nodes, links)
       /\ \A n \in nodes : Latest.points[n].level = LongestPath(nodes, links, n)

\* Reading the graph back from the working tables gives the latest snapshot,
\* unless that snapshot is one the contract refuses: no mutation leaves the
\* merged textbook tables with more or less than the version it recorded.
TablesHoldLatest ==
  snapshots # <<>> /\ Valid(Latest) => Load = Latest

\* Two contents that differ in revisions only.
SameGraph(c, d) ==
  /\ DOMAIN c.points = DOMAIN d.points
  /\ \A p \in DOMAIN c.points :
       [c.points[p] EXCEPT !.revision = 1] = [d.points[p] EXCEPT !.revision = 1]
  /\ DOMAIN c.edges = DOMAIN d.edges
  /\ \A i \in DOMAIN c.edges : c.edges[i].tie = d.edges[i].tie
  /\ <<c.mistakes, c.sections, c.mappings, c.questions>>
       = <<d.mistakes, d.sections, d.mappings, d.questions>>

\* A rollback restores the graph of its snapshot whatever happened since, and
\* lowers no revision below what that snapshot had.
RollbackRestores ==
  \A v \in 1..Len(snapshots) :
    LET r == snapshots[v].restored IN
    r > 0 => /\ r < v
             /\ SameGraph(snapshots[v].content, snapshots[r].content)
             /\ \A p \in DOMAIN snapshots[r].content.points :
                  snapshots[v].content.points[p].revision
                    > snapshots[r].content.points[p].revision

\* The first holds the records of the second, or later revisions of them.
Later(new, old) ==
  \A x \in DOMAIN old \intersect DOMAIN new :
    new[x] = old[x] \/ new[x].revision > old[x].revision

\* A point or a prerequisite that an upsert, a deletion or a freeze changed, a
\* point also through the levels and weights of the rest of the graph, has a
\* higher revision: a client holding the old one cannot write over the change.
\* Imports and rollbacks bring revisions of their own.
ChangeRaisesRevision ==
  [][\/ Later(tables'.points, tables.points) /\ Later(tables'.edges, tables.edges)
     \/ snapshots'[Len(snapshots')].action \in {"GRAPH_IMPORTED", "GRAPH_ROLLED_BACK"}]_vars

\* Every snapshot that was recorded satisfies the contract it is parsed with
\* when it is read again, so that it can be listed, restored and built upon.
SnapshotsReadable ==
  \A v \in 1..Len(snapshots) : Valid(snapshots[v].content)

-----------------------------------------------------------------------------
(* What makes the properties above inductive.                              *)

\* Every snapshot holds a graph on which normalisation has nothing to do: its
\* levels, weights and difficulties are the ones computed from its own edges
\* and documents.
SnapshotsNormalized ==
  \A v \in 1..Len(snapshots) :
    /\ snapshots[v].restored \in Nat
    /\ Shaped(snapshots[v].content)
    /\ Rated(snapshots[v].content) = snapshots[v].content.points

\* The working tables hold the latest snapshot and, besides its sections, at
\* most sections of earlier versions.
TablesExtendLatest ==
  snapshots # <<>> =>
    /\ tables = [Latest EXCEPT !.sections = tables.sections]
    /\ Latest.sections \subseteq tables.sections

GraphInv ==
  /\ Shaped(tables)
  /\ snapshots \in Seq({snapshots[v] : v \in 1..Len(snapshots)})
  /\ SnapshotsNormalized
  /\ TablesExtendLatest
  /\ RollbackRestores

=============================================================================
