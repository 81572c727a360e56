-------------------------- MODULE MCArtifactCommit --------------------------
EXTENDS ArtifactCommit, TLC

CONSTANTS j1, a1, a2, Data

\* Two attempts of one job.
MCJobOf == a1 :> j1 @@ a2 :> j1

\* An ordinary file, and the two names that are used for more.
File == 1

\* A manifest made by hand.
HandMade(d) == Manifest(File :> d)

\* Plain contents, manifests made by hand, and one whose content hash is wrong.
MCBodies == Data \cup {HandMade(d) : d \in Data} \cup {[artifacts |-> <<>>, contentHash |-> <<None>>]}

\* A commit of two plain files, one of which is called result-manifest.json, or of a
\* plain file and one that is called manifest.json.
MCBatches ==
  [{File, ResultName} -> Data]
    \cup {File :> d @@ ManifestName :> HandMade(d) : d \in Data}

Symmetry == Permutations(Data) \cup Permutations(Attempts) \cup Permutations(Commits)

=============================================================================
