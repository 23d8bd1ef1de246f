--------------------------- MODULE KnowledgeStore ---------------------------
(***************************************************************************)
(* The tables of the local knowledge base of one tenant and course         *)
(* (domains/knowledge/postgres_repository.py, models.py), the transaction  *)
(* every mutation runs in (transactions.py), and the requests at work.     *)
(*                                                                         *)
(* A mutation is one SERIALIZABLE transaction that reserves its            *)
(* idempotency key, checks, appends its audit event, its rows and its      *)
(* outbox event, and completes the key: it commits as a whole or leaves    *)
(* nothing, so a key is either absent from results or completed.           *)
(***************************************************************************)
EXTENDS ArtifactStore

CONSTANTS
  Processes,               \* application processes
  Requests, Command,       \* Command[r]: the operation, process, key and arguments of r
  SourceParts, ShardParts, \* artifacts of a source version and of an index, in order
  NoBase, NoRequest

VARIABLES
  objects, artifacts,      \* see ArtifactStore
  documents, versions,     \* source documents by citation, versions by identity
  bases, chunks,           \* knowledge base versions by label, their corpus
  manifests,               \* index build manifest snapshots
  activations,             \* labels in activation order
  answers,                 \* retrieval runs with their plan and evidence
  results,                 \* completed idempotency keys
  audited, published,      \* length of the audit chain, last outbox sequence number
  pc, work, tries,         \* progress, variables and starts of each request
  cache, hot, loading      \* of a process: _loaded, HotReloadableRAGIndex, load lock

tables == <<documents, versions, bases, chunks, manifests, activations, answers, results, audited, published>>
stores == <<objects, artifacts>>
locals == <<cache, hot, loading>>

Op(r) == Command[r].op
At(r) == Command[r].proc
Key(r) == <<"client", Command[r].key>>

Labels == {Command[r].label : r \in {q \in Requests : Op(q) = "build"}}
Sources == {Command[r].source : r \in {q \in Requests : Op(q) = "import"}}

\* Content of an object: the sources it was made from; the document IR also carries
\* the time of its request.
Content == [of: SUBSET Sources, stamp: Seq(Requests \union Nat)]
Of(ss) == [of |-> ss, stamp |-> <<>>]
Bad == Of({})

\* A source is a version id with the bytes imported under it.  The id names
\* document and version only (SourceImportCommand.resolved_version_id): an import
\* of other bytes under one id is not in the model.  It meets the objects of the
\* first and fails there, as a repeated import does at the document IR.
SourceKey(s, part) == <<"source", s, part>>
ShardKey(b, part) == <<"shard", b, part>>
RecoveryKey(b, n, part) == <<"recovery", b, n, part>>

Ref(key, content) == [key |-> key, sha |-> content]

----------------------------------------------------------------------------
(* Rows, and the uniqueness rules whose violation is reported as a conflict *)
(* (SQLSTATE 23505).  Rows are only ever appended.                          *)

DocumentRow(meta) == [meta |-> meta]
CitationFree(citation) == citation \notin DOMAIN documents

VersionRow(citation, refs) == [citation |-> citation, refs |-> refs]
VersionFree(s) == s \notin DOMAIN versions
AppendDocument(citation, row) ==
  documents' = IF CitationFree(citation) THEN With(documents, citation, row) ELSE documents
AppendVersion(s, row) == versions' = With(versions, s, row)

BaseRow(ss) == [sources |-> ss]
LabelFree(b) == b \notin DOMAIN bases
AppendBase(b, row) == bases' = With(bases, b, row)

\* A chunk holds the normalized text of its sources.
ChunkRows(ss) == ss
AppendChunks(b, rows) == chunks' = With(chunks, b, rows)

ManifestStates == {"BUILDING", "READY", "CORRUPTED"}
ManifestRow(b, n, state, refs) ==
  [base |-> b, version |-> n, state |-> state, shards |-> refs]
ManifestFree(b, n) == ~\E m \in manifests : m.base = b /\ m.version = n
AppendManifests(rows) == manifests' = manifests \union rows

\* The activation version counts the activations of the course.
CurrentActivation == Len(activations)
AppendActivation(b) == activations' = Append(activations, b)

\* A query plan with its evidence references, bundle and retrieval run; one per claim.
EvidenceRows(status, content) == IF status = "FAILED" THEN {} ELSE content
AnswerRow(r, b, status, evidence) ==
  [claim |-> Command[r].claim, base |-> b, status |-> status, of |-> evidence,
   activation |-> CurrentActivation]
ClaimFree(c) == ~\E a \in answers : a.claim = c
AppendAnswer(row) == answers' = answers \union {row}

ActiveBase == activations[CurrentActivation]

\* latest_manifest: the snapshot of b with the highest version among rows.
Latest(rows, b) ==
  CHOOSE m \in rows : m.base = b /\ \A n \in rows : n.base = b => n.version <= m.version

LatestManifest(b) == Latest(manifests, b)

\* The canonical citation keeps the metadata it was first imported with.
SameSource(citation, meta) ==
  CitationFree(citation) \/ documents[citation] = DocumentRow(meta)

----------------------------------------------------------------------------
(* KnowledgeTransactionCoordinator.                                         *)

\* What the idempotency key of a request is bound to: its digest.
Fresh(key) == key \notin DOMAIN results
Replayed(key, digest) == key \in DOMAIN results /\ results[key].digest = digest

Complete(key, digest, answer) ==
  results' = With(results, key, [digest |-> digest, answer |-> answer])

AppendAudit == audited' = audited + 1
AppendOutbox == published' = published + 1

----------------------------------------------------------------------------
(* Requests.                                                                *)

\* An index in memory: its base, activation and manifest version, and the sources
\* it answers from.
Cached(b, n, version, content, degraded) ==
  [base |-> b, activation |-> n, version |-> version, of |-> content, degraded |-> degraded]

NoIndex == Cached(NoBase, 0, 0, {}, FALSE)

\* todo: the artifacts still to be staged.
NoWork == [todo |-> <<>>, index |-> NoIndex, status |-> "NONE"]

Goto(r, label) == pc' = [pc EXCEPT ![r] = label]

KeepLock(r) == UNCHANGED loading

Release(r) ==
  loading' = [loading EXCEPT ![At(r)] = IF @ = r THEN NoRequest ELSE @]

\* The request answers or fails: its variables are gone, the load lock is free again.
End(r) ==
  /\ Goto(r, "idle")
  /\ work' = [work EXCEPT ![r] = NoWork]
  /\ Release(r)

\* A client sends the request, for the first time or again under the same key.
Begin(r) ==
  /\ pc[r] = "idle"
  /\ Goto(r, IF Op(r) = "retrieve" THEN "lookup" ELSE "read")
  /\ tries' = [tries EXCEPT ![r] = @ + 1]
  /\ UNCHANGED <<work, locals, tables, stores>>

\* KnowledgeArtifactWriter.stage, one artifact after the other.
StageNext(r, key, content, next) ==
  /\ pc[r] = "stage"
  /\ IF PutAccepted(objects, key, content)
     THEN /\ objects' = PutAtomic(objects, key, content)
          /\ work' = [work EXCEPT ![r].todo = Tail(@)]
          /\ IF Len(work[r].todo) = 1 THEN Goto(r, next) ELSE UNCHANGED pc
          /\ UNCHANGED loading
     ELSE End(r) /\ UNCHANGED objects
  /\ UNCHANGED <<artifacts, cache, hot, tries, tables>>

=============================================================================
