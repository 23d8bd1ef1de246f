------------------------- MODULE KnowledgeLifecycle -------------------------
(***************************************************************************)
(* KnowledgeBaseLifecycleService (domains/knowledge/lifecycle.py): a       *)
(* source version is imported, a knowledge base version is built from      *)
(* imported versions and activated.  Both read their inputs, look for a    *)
(* completed key, write their artifacts to the object store and commit in  *)
(* one transaction; nothing is locked between these steps.                 *)
(***************************************************************************)
EXTENDS KnowledgeStore

\* The request document the idempotency key is bound to.  It also names the graph snapshot
\* the attempt read; snapshots are immutable, and an attempt under a completed key ends
\* here whether it read the same snapshot (replay) or a later one (conflict).
Digest(r) ==
  IF Op(r) = "import"
  THEN <<"import", Command[r].source>>
  ELSE <<"build", Command[r].label, Command[r].sources, Command[r].expected>>

\* _required_graph and _load_build_inputs.
ReadInputs(r) ==
  /\ pc[r] = "read"
  /\ IF Op(r) = "import" \/ Command[r].sources \subseteq DOMAIN versions
     THEN Goto(r, "check") /\ UNCHANGED <<work, loading>>
     ELSE End(r)
  /\ UNCHANGED <<stores, tables, cache, hot, tries>>

\* completed_result: a completed key answers, or conflicts, before any work is done.
CheckKey(r) ==
  /\ pc[r] = "check"
  /\ IF Fresh(Key(r))
     THEN /\ Goto(r, IF Op(r) = "import" THEN "stage" ELSE "chunks")
          /\ work' = [work EXCEPT ![r].todo = IF Op(r) = "build" THEN <<>> ELSE SourceParts]
          /\ UNCHANGED loading
     ELSE End(r)
  /\ UNCHANGED <<stores, tables, cache, hot, tries>>

\* _build_chunks and _build_index: the sections are read from the object store.
BuildChunks(r) ==
  /\ pc[r] = "chunks"
  /\ IF \A s \in Command[r].sources :
          ReadVerified(objects, SourceKey(s, "sections"), Of({s}))
     THEN /\ Goto(r, "stage")
          /\ work' = [work EXCEPT ![r] =
               [todo |-> ShardParts, status |-> "NONE",
                index |-> Cached(NoBase, 0, 0, Command[r].sources, FALSE)]]
          /\ UNCHANGED loading
     ELSE End(r)
  /\ UNCHANGED <<stores, tables, cache, hot, tries>>

\* The document IR holds records stamped with the time of this attempt.
SourceContent(r, part) ==
  [of |-> {Command[r].source}, stamp |-> IF part = "ir" THEN <<r, tries[r]>> ELSE <<>>]

StageSource(r) ==
  /\ Op(r) = "import" /\ pc[r] = "stage"
  /\ LET part == Head(work[r].todo) IN
     StageNext(r, SourceKey(Command[r].source, part), SourceContent(r, part), "commit")

StageShard(r) ==
  /\ Op(r) = "build" /\ pc[r] = "stage"
  /\ StageNext(r, ShardKey(Command[r].label, Head(work[r].todo)), Of(work[r].index.of),
               "commit")

\* Conditions of import_source's transaction.
MayImport(r) ==
  /\ SameSource(Command[r].citation, Command[r].meta)
  /\ VersionFree(Command[r].source)

SourceRefs(r) ==
  {Ref(SourceKey(Command[r].source, SourceParts[i]), SourceContent(r, SourceParts[i])) :
     i \in DOMAIN SourceParts}

CommitImport(r) ==
  /\ Op(r) = "import" /\ pc[r] = "commit"
  /\ IF Fresh(Key(r)) /\ MayImport(r) /\ MayRegister(artifacts, SourceRefs(r))
     THEN /\ AppendAudit
          /\ artifacts' = RegisterVerified(artifacts, SourceRefs(r))
          /\ AppendDocument(Command[r].citation, DocumentRow(Command[r].meta))
          /\ AppendVersion(Command[r].source, VersionRow(Command[r].citation, SourceRefs(r)))
          /\ AppendOutbox
          /\ Complete(Key(r), Digest(r), Command[r].source)
     ELSE UNCHANGED <<audited, published, artifacts, documents, versions, results>>
  /\ End(r)
  /\ UNCHANGED <<objects, bases, chunks, manifests, activations, answers, tries, cache, hot>>

\* Conditions of build_and_activate's transaction; the graph snapshot is immutable, and
\* expected is empty when the command names no activation version.
MayBuild(r) ==
  /\ LabelFree(Command[r].label)
  /\ Command[r].expected # {} => CurrentActivation \in Command[r].expected
  /\ Command[r].sources \subseteq DOMAIN versions

ShardRefs(r) ==
  {Ref(ShardKey(Command[r].label, ShardParts[i]), Of(work[r].index.of)) :
     i \in DOMAIN ShardParts}

\* append_knowledge_base_version, append_chunks, append_manifest twice, append_activation.
Activated(r) ==
  LET b == Command[r].label IN
  /\ AppendBase(b, BaseRow(Command[r].sources))
  /\ AppendChunks(b, ChunkRows(work[r].index.of))
  /\ AppendManifests({ManifestRow(b, 1, "BUILDING", {}),
                      ManifestRow(b, 2, "READY", ShardRefs(r))})
  /\ AppendActivation(b)

CommitBuild(r) ==
  /\ Op(r) = "build" /\ pc[r] = "commit"
  /\ IF Fresh(Key(r)) /\ MayBuild(r) /\ MayRegister(artifacts, ShardRefs(r))
     THEN /\ AppendAudit
          /\ artifacts' = RegisterVerified(artifacts, ShardRefs(r))
          /\ Activated(r)
          /\ AppendOutbox
          /\ Complete(Key(r), Digest(r), Command[r].label)
          /\ Goto(r, "activate")
          /\ UNCHANGED <<work, loading>>
     ELSE /\ IF Replayed(Key(r), Digest(r))
             THEN Goto(r, "activate") /\ UNCHANGED <<work, loading>>
             ELSE End(r)
          /\ UNCHANGED <<audited, published, artifacts, bases, chunks, manifests, activations, results>>
  /\ UNCHANGED <<objects, documents, versions, answers, tries, cache, hot>>

\* After the transaction the process serves the index it built.
ActivateIndex(r) ==
  /\ pc[r] = "activate"
  /\ hot' = [hot EXCEPT ![At(r)] = Command[r].label]
  /\ End(r)
  /\ UNCHANGED <<stores, tables, cache, tries>>

=============================================================================
