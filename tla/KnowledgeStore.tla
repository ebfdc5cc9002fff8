--------------------------- MODULE KnowledgeStore ---------------------------
(***************************************************************************)
(* The knowledge store of a job: the shard files and the manifest under    *)
(* .sdd/knowledge, written once by the bootstrap phase and then changed by *)
(* batches of patches (packages/knowledge-store).                          *)
(*                                                                         *)
(* A batch loads the manifest, applies its patches one by one, each with   *)
(* its own file reads and writes, and writes the manifest last.  A text is *)
(* its size in tokens, a text of size 0 is no text at all, and the weight  *)
(* of a shard is left out.  Every read, write and unlink may fail, at most *)
(* MaxFailures times.                                                      *)
(***************************************************************************)
EXTENDS Lists, SequencesExt

CONSTANTS
  Names,           \* what a patch may name: relativePath or path of a shard
  Files,           \* files under .sdd/knowledge
  FileOf,          \* shardFilePath: the file a name stands for
  Generated,       \* the shards of the bootstrap phase, before they are capped
  MaxShards,       \* enforceShardCap: number of shards
  MaxShardTokens,  \* enforceShardCap: tokens of a shard
  Missing,         \* content of a file that is not there
  Empty,           \* content of a file that a failed write has cut to nothing
  Damaged,         \* content that parseShardMarkdown rejects
  MaxFailures      \* bound: failing file operations in one run

Shards == [path : Names, tokens : Nat]

Entries == [relativePath : Names, path : Names, tokens : Nat]

Operations == {"append", "replace", "delete", "update_weight"}

\* tokens is the size of the content, delta the tokenDelta the curator claims.
Patches == [operation : Operations, target : Names, tokens : Nat, delta : Int]

ASSUME StoreAssumption ==
  /\ FileOf \in [Names -> Files]
  /\ Generated \in Seq(Entries)
  /\ MaxShards \in Nat /\ MaxShardTokens \in Nat /\ MaxFailures \in Nat
  /\ \A content \in {Missing, Empty, Damaged} : content \notin Shards
  /\ Missing # Empty /\ Empty # Damaged /\ Damaged # Missing

NamesOf(e) == {e.relativePath, e.path}

\* The bootstrap names each of its shards differently.
ASSUME GeneratedAssumption ==
  \A i, k \in DOMAIN Generated : NamesOf(Generated[i]) \cap NamesOf(Generated[k]) # {} => i = k

VARIABLES
  files,         \* the shard files
  manifestFile,  \* manifest.json
  manifest,      \* the manifest in memory: that of a batch, or of the bootstrap
  unwritten,     \* shards the bootstrap has yet to write
  todo,          \* patches of the batch not yet applied
  applied,       \* patches of the batch that were applied
  skipped,       \* patches of the batch that were skipped
  store,         \* what the store is doing
  failures       \* file operations that failed so far

storeVars == <<files, manifestFile, manifest, unwritten, todo, applied, skipped, store, failures>>

StorePCs == {"new", "writing", "idle", "applying", "failed"}

MayFail == failures < MaxFailures /\ failures' = failures + 1

-----------------------------------------------------------------------------
(* Bootstrap: cap the shards, write the manifest, then the files.  (With a  *)
(* real agent it is the agent that writes them, in a form we do not know.)  *)

\* A truncated shard keeps its estimate at the cap; its trailing note is not counted.
EnforceShardCap(shards) ==
  LET kept == SubSeq(shards, 1, IF Len(shards) < MaxShards THEN Len(shards) ELSE MaxShards)
  IN [i \in DOMAIN kept |->
        [kept[i] EXCEPT !.tokens = IF @ <= MaxShardTokens THEN @ ELSE MaxShardTokens]]

TotalTokens(entries) == ListSum([i \in DOMAIN entries |-> entries[i].tokens])

BuildManifest(entries) ==
  [shards |-> entries, shardCount |-> Len(entries), tokenEstimateTotal |-> TotalTokens(entries)]

NoManifest == BuildManifest(<<>>)

\* Serialized, a shard without text has no line after its front matter, and cannot be
\* parsed again.
Serialize(path, tokens) ==
  IF tokens = 0 THEN Damaged ELSE [path |-> path, tokens |-> tokens]

WriteManifest ==
  /\ store = "new"
  /\ unwritten' = EnforceShardCap(Generated)
  /\ manifest' = BuildManifest(unwritten')
  /\ manifestFile' = manifest'
  /\ store' = "writing"
  /\ UNCHANGED <<files, todo, applied, skipped, failures>>

WriteShard ==
  /\ store = "writing"
  /\ IF unwritten = <<>>
     THEN /\ store' = "idle"
          /\ UNCHANGED <<files, unwritten>>
     ELSE LET s == Head(unwritten)
          IN /\ files' = [files EXCEPT ![FileOf[s.relativePath]] = Serialize(s.path, s.tokens)]
             /\ unwritten' = Tail(unwritten)
             /\ UNCHANGED store
  /\ UNCHANGED <<manifestFile, manifest, todo, applied, skipped, failures>>

\* mkdir or writeFile throws: the bootstrap phase, and with it the job, is over.
BootstrapFails ==
  /\ store \in {"new", "writing"}
  /\ MayFail
  /\ store' = "failed"
  /\ UNCHANGED <<files, manifestFile, manifest, unwritten, todo, applied, skipped>>

-----------------------------------------------------------------------------
(* applyApprovedPatches.                                                   *)

\* The first entry whose relativePath or path is the name; 0 if there is none.
EntryIndex(name) ==
  SelectInSeq(manifest.shards, LAMBDA e : e.relativePath = name \/ e.path = name)

StartBatch(patches) ==
  /\ store = "idle"
  /\ manifest' = manifestFile
  /\ todo' = patches
  /\ applied' = 0
  /\ skipped' = 0
  /\ store' = "applying"
  /\ UNCHANGED <<files, manifestFile, unwritten, failures>>

\* manifest.json cannot be read: applyApprovedPatches throws before it does anything.
StartBatchFails ==
  /\ store = "idle"
  /\ MayFail
  /\ store' = "failed"
  /\ UNCHANGED <<files, manifestFile, manifest, unwritten, todo, applied, skipped>>

Claimed(m, p) ==
  LET total == m.tokenEstimateTotal + p.delta
  IN [m EXCEPT !.tokenEstimateTotal = IF total < 0 THEN 0 ELSE total]

WithShards(shards) ==
  [manifest EXCEPT !.shards = shards, !.shardCount = Len(shards)]

Applied(p, m) ==
  /\ manifest' = Claimed(m, p)
  /\ applied' = applied + 1
  /\ UNCHANGED skipped

Skipped ==
  /\ skipped' = skipped + 1
  /\ UNCHANGED <<manifest, applied>>

\* The entry goes, and the file if unlink can remove it: its failure is swallowed.
DeleteShard(p) ==
  LET i == EntryIndex(p.target)
      file == FileOf[p.target]
  IN /\ i # 0
     /\ \/ files' = [files EXCEPT ![file] = Missing] /\ UNCHANGED failures
        \/ files' = files /\ MayFail
     /\ Applied(p, WithShards(RemoveAt(manifest.shards, i)))

\* loadOrCreateShard: the shard of an entry is read from its file; without an entry, or
\* when its file cannot be read, it starts empty and its path is the name of the patch.
Fresh(p) == [path |-> p.target, tokens |-> 0]

\* An empty text is taken for none.
NoText == {Missing, Empty}

Loads(p, shard) ==
  LET file == files[FileOf[p.target]]
  IN \/ /\ EntryIndex(p.target) # 0 /\ file \notin NoText
        /\ shard = file
        /\ UNCHANGED failures
     \/ /\ EntryIndex(p.target) = 0 \/ file \in NoText
        /\ shard = Fresh(p)
        /\ UNCHANGED failures
     \/ /\ EntryIndex(p.target) # 0 /\ file \notin NoText
        /\ shard = Fresh(p)
        /\ MayFail

\* Mutant: the entry keeps its old size.
UpsertNewOnly(p, entry) ==
  LET i == EntryIndex(p.target)
  IN WithShards(IF i = 0 THEN Append(manifest.shards, entry) ELSE manifest.shards)

\* upsertManifestEntry
Upsert(p, entry) ==
  LET i == EntryIndex(p.target)
  IN WithShards(IF i = 0 THEN Append(manifest.shards, entry)
                         ELSE ReplaceAt(manifest.shards, i, entry))

PatchContent(p) ==
  \E shard \in {files[FileOf[p.target]], Fresh(p)} \ {Missing, Empty, Damaged} :
    LET tokens == IF p.operation = "append" THEN shard.tokens + p.tokens ELSE p.tokens
    IN /\ Loads(p, shard)
       /\ files' = [files EXCEPT ![FileOf[p.target]] = Serialize(shard.path, tokens)]
       /\ Applied(p, Upsert(p, [relativePath |-> p.target, path |-> shard.path,
                                tokens |-> tokens]))

\* The weight is written into the file, if there is one; the manifest does not hold it.
UpdateWeight(p) ==
  LET file == files[FileOf[p.target]]
  IN /\ EntryIndex(p.target) # 0
     /\ p.tokens # 0
     /\ \/ file # Damaged /\ UNCHANGED failures
        \/ file \notin NoText /\ MayFail
     /\ UNCHANGED files
     /\ Applied(p, manifest)

NoWeight(p) == p.operation = "update_weight" /\ p.tokens = 0

\* No entry to delete or to weigh, or no weight given.
NotFound(p) ==
  /\ p.operation \in {"delete", "update_weight"}
  /\ EntryIndex(p.target) = 0 \/ NoWeight(p)
  /\ UNCHANGED <<files, failures>>
  /\ Skipped

\* parseShardMarkdown throws on the shard of an entry.
CannotParse(p) ==
  /\ p.operation # "delete" /\ ~NoWeight(p)
  /\ EntryIndex(p.target) # 0
  /\ files[FileOf[p.target]] = Damaged
  /\ UNCHANGED <<files, failures>>
  /\ Skipped

Writes(p) ==
  \/ p.operation \in {"append", "replace"}
  \/ /\ p.operation = "update_weight" /\ ~NoWeight(p)
     /\ EntryIndex(p.target) # 0
     /\ files[FileOf[p.target]] \notin NoText

\* writeFile throws, before or after it has opened the file: the patch is skipped, and what
\* is left of the file is all, nothing, or a part that cannot be parsed.
WriteFails(p) ==
  /\ Writes(p)
  /\ MayFail
  /\ \/ UNCHANGED files
     \/ \E torn \in {Empty, Damaged} : files' = [files EXCEPT ![FileOf[p.target]] = torn]
  /\ Skipped

ApplyOnePatch(p) ==
  \/ p.operation = "delete" /\ DeleteShard(p)
  \/ p.operation \in {"append", "replace"} /\ PatchContent(p)
  \/ p.operation = "update_weight" /\ UpdateWeight(p)
  \/ NotFound(p)
  \/ CannotParse(p)
  \/ WriteFails(p)

ApplyPatch ==
  /\ store = "applying"
  /\ todo # <<>>
  /\ ApplyOnePatch(Head(todo))
  /\ todo' = Tail(todo)
  /\ UNCHANGED <<manifestFile, unwritten, store>>

FinishBatch ==
  /\ store = "applying"
  /\ todo = <<>>
  /\ manifestFile' = manifest
  /\ store' = "idle"
  /\ UNCHANGED <<files, manifest, unwritten, todo, applied, skipped, failures>>

\* The manifest cannot be written: the files are changed, manifest.json is not.
FinishBatchFails ==
  /\ store = "applying"
  /\ todo = <<>>
  /\ MayFail
  /\ store' = "failed"
  /\ UNCHANGED <<files, manifestFile, manifest, unwritten, todo, applied, skipped>>

-----------------------------------------------------------------------------
StoreInit ==
  /\ files = [f \in Files |-> Missing]
  /\ manifestFile = NoManifest
  /\ manifest = NoManifest
  /\ unwritten = <<>>
  /\ todo = <<>>
  /\ applied = 0
  /\ skipped = 0
  /\ store = "new"
  /\ failures = 0

BootstrapStep == WriteManifest \/ WriteShard

BatchStep == ApplyPatch \/ FinishBatch

StoreFails == BootstrapFails \/ StartBatchFails \/ FinishBatchFails

Manifests == [shards : Seq(Entries), shardCount : Nat, tokenEstimateTotal : Nat]

-----------------------------------------------------------------------------
(* Properties of the store, which the runs of Calibration check.           *)

\* Types of the store; the token total of a manifest is never negative.
StoreTypeOK ==
  /\ files \in [Files -> Shards \cup {Missing, Empty, Damaged}]
  /\ manifestFile \in Manifests
  /\ manifest \in Manifests
  /\ unwritten \in Seq(Entries)
  /\ todo \in Seq(Patches)
  /\ applied \in Nat /\ skipped \in Nat
  /\ store \in StorePCs
  /\ failures \in 0..MaxFailures

\* No other name stands for the file of this one.  (Two may: a leading .sdd/knowledge/ is
\* dropped.)
Own(n) == \A m \in Names : FileOf[m] = FileOf[n] => m = n

\* A name of a shard all of whose names are its own.
Plain(n) ==
  /\ Own(n)
  /\ \A i \in DOMAIN Generated :
       n \in NamesOf(Generated[i]) => \A m \in NamesOf(Generated[i]) : Own(m)

\* Between two patches, whatever failed before, the manifest has one entry for a name, with
\* a shard file, which if it can be read holds the path and the size of the entry: unless
\* the curator calls a file by two names.
EntriesHaveFiles ==
  store \in {"idle", "applying"} =>
    /\ manifest.shardCount = Len(manifest.shards)
    /\ \A i \in DOMAIN manifest.shards :
         LET e == manifest.shards[i]
         IN Plain(e.relativePath) =>
              /\ files[FileOf[e.relativePath]] \in {Empty, Damaged, [path |-> e.path, tokens |-> e.tokens]}
              /\ \A k \in DOMAIN manifest.shards :
                   manifest.shards[k].relativePath = e.relativePath => k = i
============================================================================
