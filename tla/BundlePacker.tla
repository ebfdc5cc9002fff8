---------------------------- MODULE BundlePacker ----------------------------
(***************************************************************************)
(* packages/bundle-packer: what vendorSddKit copies into the workspace of  *)
(* a job, and which files packBundle lists in specbridge.manifest.json and *)
(* puts into the zip.  A path is a sequence of names; a directory is the   *)
(* set of the files below it.                                              *)
(***************************************************************************)
EXTENDS Integers, Sequences

CONSTANT Kit  \* the files of the SDD kit that exist where the worker finds it

KitRoots == { <<".cursor">>, <<"AGENTS.md">>, <<"USAGE_GUIDE.md">> }

TruthDocs == { <<".sdd", "docs", "project_knowledge.md">>,
               <<".sdd", "docs", "project_deployment_knowledge.md">> }

ManifestPath == <<"specbridge.manifest.json">>

\* Mutant: a directory is not descended.
DirectlyBelow(dir, files) == {f \in files : Len(f) = Len(dir) + 1 /\ SubSeq(f, 1, Len(dir)) = dir}

Below(dir, files) == {f \in files : Len(f) >= Len(dir) /\ SubSeq(f, 1, Len(dir)) = dir}

VendorSddKit == UNION {Below(root, Kit) : root \in KitRoots}

\* The files of the directory .cursor, relative to the kit, are joined to .cursor again.
KitPaths ==
  (Kit \cap KitRoots) \cup { <<".cursor">> \o f : f \in Below(<<".cursor">>, Kit \ KitRoots) }

\* The entries of the manifest; what is not there is skipped.
BuildManifestFromWorkspace(files, knowledge) ==
  [knowledge |-> knowledge,
   sddKit |-> KitPaths \cap Kit,
   truthDocs |-> TruthDocs \cap files,
   knowledgeShards |-> Below(<<".sdd", "knowledge">>, files),
   retroFeatures |-> Below(<<".sdd", "features", "completed">>, files),
   reports |-> Below(<<".sdd", "reports">>, files)]

PackBundle(manifest) ==
  manifest.sddKit \cup manifest.truthDocs \cup manifest.knowledgeShards
    \cup manifest.retroFeatures \cup manifest.reports \cup {ManifestPath}
============================================================================
