------------------------- MODULE KnowledgeRetrieval -------------------------
(***************************************************************************)
(* KnowledgeRetrievalService (retrieval_service.py, retrieval.py): a claim *)
(* is answered from the active knowledge base.  The index of a process is  *)
(* cached; a load reads the active rows, restores the index from the       *)
(* object store, rebuilds what is missing or corrupt from the chunks and   *)
(* publishes the repaired artifacts as a CORRUPTED and a READY manifest.   *)
(***************************************************************************)
EXTENDS KnowledgeStore

\* What the request has loaded so far.
Index(r) == work[r].index

\* _cache_matches_activation
CacheCurrent(p) ==
  /\ activations # <<>>
  /\ cache[p].activation = CurrentActivation /\ cache[p].base = ActiveBase

Use(r, index) ==
  /\ work' = [work EXCEPT ![r].index = index]
  /\ Goto(r, "search")

\* load_active before the load lock.
Lookup(r) ==
  /\ pc[r] = "lookup"
  /\ IF CacheCurrent(At(r)) THEN Use(r, cache[At(r)]) ELSE Goto(r, "lock") /\ UNCHANGED work
  /\ UNCHANGED <<stores, tables, locals, tries>>

\* _read_active_metadata finds a READY manifest of the active knowledge base.
ActiveReady == activations # <<>> /\ LatestManifest(ActiveBase).state = "READY"

\* Under the load lock: the cache again, then _read_active_metadata.
ReadActive(r) ==
  /\ pc[r] = "lock" /\ loading[At(r)] = NoRequest
  /\ \/ CacheCurrent(At(r)) /\ Use(r, cache[At(r)]) /\ UNCHANGED loading
     \/ /\ ~CacheCurrent(At(r)) /\ ActiveReady
        /\ loading' = [loading EXCEPT ![At(r)] = r]
        /\ work' = [work EXCEPT ![r].index =
             Cached(ActiveBase, CurrentActivation, LatestManifest(ActiveBase).version, {}, FALSE)]
        /\ Goto(r, "restore")
     \/ ~CacheCurrent(At(r)) /\ ~ActiveReady /\ End(r)
  /\ UNCHANGED <<stores, tables, cache, hot, tries>>

Manifest(r) == CHOOSE m \in manifests : m.base = Index(r).base /\ m.version = Index(r).version

Lost(r) == {ref \in Manifest(r).shards : ~ReadVerified(objects, ref.key, ref.sha)}

\* The sources the restored index answers from: verified payloads, or the chunks.
Restored(r) ==
  (UNION {objects[ref.key].of : ref \in Manifest(r).shards \ Lost(r)})
  \union (IF Lost(r) = {} THEN {} ELSE chunks[Index(r).base])

\* _loaded is set and the lock released.
Loaded(r, version, content, degraded) ==
  LET index == Cached(Index(r).base, Index(r).activation, version, content, degraded) IN
  /\ cache' = [cache EXCEPT ![At(r)] = index]
  /\ Use(r, index)
  /\ Release(r)

\* _restore_index_with_report: every shard readable, or rebuilt from the chunks.
RestoreIndex(r) ==
  /\ pc[r] = "restore"
  /\ hot' = [hot EXCEPT ![At(r)] = Index(r).base]
  /\ IF Lost(r) = {}
     THEN Loaded(r, Index(r).version, Restored(r), FALSE)
     ELSE /\ work' = [work EXCEPT ![r] =
               [todo |-> ShardParts, status |-> "NONE",
                index |-> Cached(Index(r).base, Index(r).activation, Index(r).version,
                                 Restored(r), FALSE)]]
          /\ Goto(r, "stage")
          /\ UNCHANGED <<cache, loading>>
  /\ UNCHANGED <<stores, tables, tries>>

\* The vectors of a lost shard cannot be rebuilt: the index serves without them.
RestoreDegraded(r) ==
  /\ pc[r] = "restore"
  /\ \E ref \in Lost(r) : ref.key[Len(ref.key)] = "faiss"
  /\ hot' = [hot EXCEPT ![At(r)] = Index(r).base]
  /\ Loaded(r, Index(r).version, Restored(r), TRUE)
  /\ UNCHANGED <<stores, tables, tries>>

----------------------------------------------------------------------------
(* _persist_recovery                                                        *)

StageRecovery(r) ==
  /\ Op(r) = "retrieve" /\ pc[r] = "stage"
  /\ StageNext(r, RecoveryKey(Index(r).base, Index(r).version + 2, Head(work[r].todo)),
               Of(Index(r).of), "heal")

RecoveryRefs(r) ==
  {Ref(RecoveryKey(Index(r).base, Index(r).version + 2, ShardParts[i]), Of(Index(r).of)) :
     i \in DOMAIN ShardParts}

HealKey(r) == <<"heal", Index(r).base, Index(r).version + 2>>

\* The CORRUPTED snapshot keeps the old shards, the READY one has the repaired ones.
Repaired(r) ==
  {ManifestRow(Index(r).base, Index(r).version + 1, "CORRUPTED", Manifest(r).shards),
   ManifestRow(Index(r).base, Index(r).version + 2, "READY", RecoveryRefs(r))}

RegisterNothing(r) == artifacts

Register(r) == RegisterVerified(artifacts, RecoveryRefs(r))

Healed(r) ==
  /\ AppendAudit
  /\ artifacts' = Register(r)
  /\ AppendManifests(Repaired(r))
  /\ AppendOutbox
  /\ Complete(HealKey(r), Index(r).version, TRUE)

\* The manifest that was read is still the latest, and its successors can be appended.
StillLatest(r) == LatestManifest(Index(r).base) = Manifest(r)

MayHeal(r) == StillLatest(r) /\ \A m \in Repaired(r) : ManifestFree(m.base, m.version)

\* Whoever comes second replays the key; another manifest than the one read is left alone.
CommitRecovery(r) ==
  /\ pc[r] = "heal"
  /\ \/ Fresh(HealKey(r)) /\ MayHeal(r) /\ Healed(r)
     \/ /\ Fresh(HealKey(r)) /\ ~StillLatest(r)
        /\ Complete(HealKey(r), Index(r).version, FALSE)
        /\ UNCHANGED <<audited, published, artifacts, manifests>>
     \/ /\ ~Fresh(HealKey(r)) \/ (StillLatest(r) /\ ~MayHeal(r))
        /\ UNCHANGED <<audited, published, artifacts, manifests, results>>
  /\ LET persisted == Latest(manifests', Index(r).base) IN
     Loaded(r, IF persisted.version >= Index(r).version + 2 THEN persisted.version
               ELSE Index(r).version, Index(r).of, FALSE)
  /\ UNCHANGED <<objects, documents, versions, bases, chunks, activations, answers, hot, tries>>

----------------------------------------------------------------------------
(* Search and answer.                                                       *)

\* _execute_search: the status of the response; a search that outlives the deadline fails.
Search(r, status) ==
  /\ pc[r] = "search"
  /\ status \in {"SUCCEEDED", "DEGRADED", "FAILED"}
  /\ status # "FAILED" => (status = "DEGRADED") = Index(r).degraded
  /\ work' = [work EXCEPT ![r].status = status]
  /\ Goto(r, "answer")
  /\ UNCHANGED <<stores, tables, locals, tries>>

AnswerAnyway(r) == TRUE

\* The active knowledge base must still be the one that was searched.
StillActive(r) == activations # <<>> /\ ActiveBase = Index(r).base

MayAnswer(r) == StillActive(r) /\ ClaimFree(Command[r].claim)

\* The transaction of retrieve_claim.
CommitAnswer(r) ==
  /\ pc[r] = "answer"
  /\ IF Fresh(Key(r)) /\ MayAnswer(r)
     THEN /\ AppendAudit
          /\ AppendAnswer(AnswerRow(r, Index(r).base, work[r].status,
                                    EvidenceRows(work[r].status, Index(r).of)))
          /\ AppendOutbox
          /\ Complete(Key(r), <<"retrieve", Command[r].claim, Index(r).base>>, work[r].status)
     ELSE UNCHANGED <<audited, published, answers, results>>
  /\ End(r)
  /\ UNCHANGED <<stores, documents, versions, bases, chunks, manifests, activations, tries,
                 cache, hot>>

=============================================================================
