----------------------- MODULE ArtifactCommitProofs -----------------------
(***************************************************************************)
(* Proofs about ArtifactCommit for any jobs, attempts, names, contents,    *)
(* commits and requests, the names of the manifest and of the result       *)
(* included.                                                               *)
(*                                                                         *)
(* The argument follows the life of a file: a commit that has put it knows *)
(* that it is stored, for nothing deletes; the manifest of a commit is put *)
(* after all of its files; a validation that holds such a manifest has     *)
(* read from the store what the manifest says.  The history visible says   *)
(* whose manifest is stored, and writers when the files of an attempt are  *)
(* those of one commit and no other.                                       *)
(***************************************************************************)
EXTENDS ArtifactCommit, TLAPS

Contents == Bodies \cup Manifests \cup Scopes \cup {None}

Begun == [pc : {"put", "done", "failed"}, attempt : Attempts, blobs : Batches,
          todo : SUBSET Names]

Validations == [pc : {"checking", "valid", "refused"}, attempt : Attempts,
                manifest : Contents, todo : SUBSET Names, read : [Names -> Contents],
                from : Commits \cup {None}, quiet : BOOLEAN]

\* The shapes of the state; of a request only what its steps keep.
Types ==
  /\ store \in [Attempts -> [Names -> Contents]]
  /\ sessions \in SUBSET Attempts
  /\ DOMAIN request = Requests
  /\ commit \in [Commits -> Begun \cup {NoCommit}]
  /\ validation \in Validations \cup {NoValidation}
  /\ writers \in [Attempts -> SUBSET (Commits \cup Requests)]
  /\ visible \in [Attempts -> Commits \cup {None}]

\* What a request will put is contents, under the keys of its session; one that has put
\* something is over.
RequestsFit ==
  \A r \in Requests :
    /\ request[r].pc = "admitted" =>
         /\ request[r].attempt \in Attempts /\ request[r].session = request[r].attempt
         /\ request[r].name \in Names /\ request[r].body \in Bodies \cup Scopes
    /\ \A a \in Attempts : r \in writers[a] =>
         request[r].pc = "served" /\ request[r].session = a

\* A file that a commit is done with is stored, and the commit is one of its writers.
CommitsStore ==
  \A c \in Commits : commit[c].pc # "new" =>
    /\ commit[c].todo \subseteq DOMAIN commit[c].blobs
    /\ commit[c].pc = "done" => commit[c].todo = {}
    /\ \A n \in DOMAIN commit[c].blobs \ commit[c].todo :
         /\ store[commit[c].attempt][n] # None
         /\ c \in writers[commit[c].attempt]

\* The manifest m of attempt a is that of commit c, which had put all of its files.
IsOf(m, c, a) ==
  /\ commit[c].pc \in {"done", "failed"} /\ commit[c].attempt = a /\ commit[c].todo = {}
  /\ m = Manifest(commit[c].blobs)

ManifestsComeLast ==
  \A a \in Attempts : visible[a] # None => IsOf(store[a][ManifestName], visible[a], a)

\* A validation checks the files its manifest names.
ChecksNamed ==
  validation.pc = "checking" =>
    /\ validation.manifest \in Manifests
    /\ validation.todo \subseteq DOMAIN validation.manifest.artifacts

\* A validation of a commit has read of its manifest's files what the manifest says.
ReadsMatch ==
  validation.pc \in {"checking", "valid"} /\ validation.from # None =>
    LET made == commit[validation.from] IN
    /\ IsOf(validation.manifest, validation.from, validation.attempt)
    /\ validation.pc = "valid" => validation.todo = {}
    /\ \A n \in Names : validation.read[n] =
         IF n \in DOMAIN made.blobs \ validation.todo THEN made.blobs[n] ELSE None

\* Where one commit alone has written, its objects are as it put them.
LoneWriter ==
  \A a \in Attempts, c \in Commits : writers[a] \subseteq {c} =>
    /\ commit[c].pc # "new" /\ commit[c].attempt = a =>
         \A n \in DOMAIN commit[c].blobs \ commit[c].todo :
           n # ManifestName => store[a][n] = commit[c].blobs[n]
    /\ writers[a] = {c} => commit[c].pc # "new" /\ commit[c].attempt = a
    /\ writers[a] = {c} /\ commit[c].pc = "done"
         => store[a][ManifestName] = Manifest(commit[c].blobs)

\* A validation that began in quiet is still quiet, or somebody else has written.
StillQuiet ==
  validation.pc \in {"checking", "refused"} /\ validation.quiet =>
    \/ \E x, y \in writers[validation.attempt] : x # y
    \/ \E c \in Commits :
         /\ Undisturbed(c, validation.attempt)
         /\ validation.manifest = Manifest(commit[c].blobs)
         /\ validation.pc = "checking"

Inv ==
  /\ Types /\ RequestsFit /\ CommitsStore /\ ManifestsComeLast
  /\ ChecksNamed /\ ReadsMatch /\ LoneWriter /\ StillQuiet

-----------------------------------------------------------------------------

\* A set of files maps names to contents.
LEMMA BlobsAre ==
  ASSUME NEW blobs \in Batches
  PROVE  /\ DOMAIN blobs \subseteq Names
         /\ \A n \in DOMAIN blobs : blobs[n] \in Bodies
BY BatchAssumption DEF Blobs

\* A manifest lists the blobs it was made of, with their content hash.
LEMMA ManifestIs ==
  ASSUME NEW blobs \in Batches
  PROVE  /\ Manifest(blobs) \in Manifests /\ Manifest(blobs) # None
         /\ Manifest(blobs).artifacts = blobs
         /\ Manifest(blobs).contentHash = computeManifestContentHash(blobs)
BY ManifestAssumption DEF Manifest

\* What decodes as a manifest names files.
LEMMA ManifestsName ==
  ASSUME NEW m \in Manifests
  PROVE  DOMAIN m.artifacts \subseteq Names
BY DEF Manifests, Blobs

\* A record of a commit that is not new is a full one.
LEMMA BegunCommits ==
  ASSUME Types, NEW c \in Commits, commit[c].pc # "new"
  PROVE  commit[c] \in Begun
BY DEF Types, NoCommit

\* What is put replaces one object, adds a writer, and says whose manifest is stored.
LEMMA PutFacts ==
  ASSUME Types, NEW who \in Commits \cup Requests, NEW a \in Attempts, NEW n \in Names,
         NEW content \in Contents, NEW from \in Commits \cup {None},
         Put(who, a, n, content, from)
  PROVE  /\ store' \in [Attempts -> [Names -> Contents]]
         /\ writers' \in [Attempts -> SUBSET (Commits \cup Requests)]
         /\ visible' \in [Attempts -> Commits \cup {None}]
         /\ store'[a][n] = content
         /\ \A b \in Attempts, k \in Names : b # a \/ k # n => store'[b][k] = store[b][k]
         /\ writers'[a] = writers[a] \cup {who}
         /\ \A b \in Attempts : b # a => writers'[b] = writers[b] /\ visible'[b] = visible[b]
         /\ visible'[a] = IF n = ManifestName THEN from ELSE visible[a]
<1>1. /\ store' = [store EXCEPT ![a][n] = content]
      /\ writers' = [writers EXCEPT ![a] = @ \cup {who}]
      /\ visible' = IF n = ManifestName THEN [visible EXCEPT ![a] = from] ELSE visible
  BY DEF Put
<1>2. /\ store \in [Attempts -> [Names -> Contents]]
      /\ writers \in [Attempts -> SUBSET (Commits \cup Requests)]
      /\ visible \in [Attempts -> Commits \cup {None}]
  BY DEF Types
<1>3. store' \in [Attempts -> [Names -> Contents]]
  BY <1>1, <1>2
<1>4. /\ store'[a][n] = content
      /\ \A b \in Attempts, k \in Names : b # a \/ k # n => store'[b][k] = store[b][k]
  BY <1>1, <1>2
<1>5. /\ writers' \in [Attempts -> SUBSET (Commits \cup Requests)]
      /\ writers'[a] = writers[a] \cup {who}
      /\ \A b \in Attempts : b # a => writers'[b] = writers[b]
  BY <1>1, <1>2
<1>6. /\ visible' \in [Attempts -> Commits \cup {None}]
      /\ \A b \in Attempts : b # a => visible'[b] = visible[b]
      /\ visible'[a] = IF n = ManifestName THEN from ELSE visible[a]
  BY <1>1, <1>2
<1> QED
  BY <1>3, <1>4, <1>5, <1>6

\* Writers only come: a quiet validation stays quiet or has two writers, as long as the
\* commits that are over stay as they are.
LEMMA QuietKept ==
  ASSUME Inv, UNCHANGED validation,
         \A b \in Attempts : writers[b] \subseteq writers'[b],
         \A c \in Commits : commit[c].pc = "done" => commit'[c] = commit[c]
  PROVE  StillQuiet'
<1> SUFFICES ASSUME validation.pc \in {"checking", "refused"}, validation.quiet
             PROVE  \/ \E x, y \in writers'[validation.attempt] : x # y
                    \/ \E c \in Commits :
                         /\ writers'[validation.attempt] = {c} /\ commit'[c].pc = "done"
                         /\ ManifestName \notin DOMAIN commit'[c].blobs
                         /\ validation.manifest = Manifest(commit'[c].blobs)
                         /\ validation.pc = "checking"
  BY DEF StillQuiet, Undisturbed
<1>1. validation.attempt \in Attempts
  BY DEF Inv, Types, Validations, NoValidation
<1>2. CASE \E x, y \in writers[validation.attempt] : x # y
  BY <1>1, <1>2
<1>3. ASSUME NEW c \in Commits, Undisturbed(c, validation.attempt),
             validation.manifest = Manifest(commit[c].blobs), validation.pc = "checking"
      PROVE  \/ \E x, y \in writers'[validation.attempt] : x # y
             \/ \E d \in Commits :
                  /\ writers'[validation.attempt] = {d} /\ commit'[d].pc = "done"
                  /\ ManifestName \notin DOMAIN commit'[d].blobs
                  /\ validation.manifest = Manifest(commit'[d].blobs)
                  /\ validation.pc = "checking"
  <2>1. /\ writers[validation.attempt] = {c} /\ commit'[c] = commit[c] /\ commit[c].pc = "done"
        /\ ManifestName \notin DOMAIN commit[c].blobs
    BY <1>3 DEF Undisturbed
  <2>2. writers'[validation.attempt] = {c} \/ \E x, y \in writers'[validation.attempt] : x # y
    BY <1>1, <2>1
  <2> QED
    BY <1>3, <2>1, <2>2
<1> QED
  BY <1>2, <1>3 DEF Inv, StillQuiet

-----------------------------------------------------------------------------

\* An empty store satisfies the invariant.
LEMMA InitInv == Init => Inv
<1> SUFFICES ASSUME Init PROVE Inv
  OBVIOUS
<1> USE DEF Init, NoObjects, NoRequest, NoCommit, NoValidation
<1>1. Types
  BY DEF Types, Contents
<1>2. RequestsFit /\ CommitsStore /\ ManifestsComeLast /\ ReadsMatch /\ ChecksNamed
  BY DEF RequestsFit, CommitsStore, ManifestsComeLast, ReadsMatch, ChecksNamed
<1>3. LoneWriter /\ StillQuiet
  BY DEF LoneWriter, StillQuiet
<1> QED
  BY <1>1, <1>2, <1>3 DEF Inv

\* A commit begins.
LEMMA StartCommitInv ==
  ASSUME Inv, NEW c \in Commits, StartCommit(c)
  PROVE  Inv'
<1> USE DEF Inv
<1>1. PICK a \in Attempts, blobs \in Batches :
        commit' = [commit EXCEPT ![c] = [pc |-> "put", attempt |-> a, blobs |-> blobs,
                                         todo |-> DOMAIN blobs]]
  BY DEF StartCommit
<1>2. /\ commit[c].pc = "new"
      /\ UNCHANGED <<store, sessions, request, validation, writers, visible>>
  BY DEF StartCommit, objects
<1>3. DOMAIN blobs \subseteq Names
  BY BlobsAre
<1>4. Types'
  BY <1>1, <1>2, <1>3 DEF Types, Begun
<1>5. \A m, d, b : d \in Commits /\ IsOf(m, d, b) => IsOf(m, d, b)' /\ commit'[d] = commit[d]
  BY <1>1, <1>2 DEF IsOf, Types
<1>6. RequestsFit' /\ ChecksNamed'
  BY <1>2 DEF RequestsFit, ChecksNamed
<1>7. CommitsStore'
  BY <1>1, <1>2 DEF CommitsStore, Types
<1>8. ManifestsComeLast' /\ ReadsMatch'
  BY <1>2, <1>4, <1>5 DEF ManifestsComeLast, ReadsMatch, Types, Validations, NoValidation
<1>9. LoneWriter'
  BY <1>1, <1>2 DEF LoneWriter, Types
<1>10. StillQuiet'
  BY <1>1, <1>2, QuietKept DEF Types
<1> QED
  BY <1>4, <1>6, <1>7, <1>8, <1>9, <1>10

\* A file of a commit is put.
LEMMA PutBlobInv ==
  ASSUME Inv, NEW c \in Commits, PutBlob(c)
  PROVE  Inv'
<1> USE DEF Inv
<1> DEFINE a == commit[c].attempt
           blobs == commit[c].blobs
<1>1. PICK n \in commit[c].todo :
        /\ Put(c, a, n, blobs[n], None)
        /\ commit' = [commit EXCEPT ![c].todo = @ \ {n}]
  BY DEF PutBlob
<1>2. commit[c].pc = "put" /\ UNCHANGED <<sessions, request, validation>>
  BY DEF PutBlob
<1>3. commit[c] \in Begun /\ commit[c].todo \subseteq DOMAIN blobs
  BY <1>2, BegunCommits DEF CommitsStore
<1>4. /\ a \in Attempts /\ n \in Names /\ blobs[n] \in Bodies /\ blobs \in Batches
      /\ blobs[n] \in Contents /\ blobs[n] # None /\ DOMAIN blobs \subseteq Names
  BY <1>3, BlobsAre, NoneAssumption DEF Begun, Contents
<1>5. /\ store' \in [Attempts -> [Names -> Contents]]
      /\ writers' \in [Attempts -> SUBSET (Commits \cup Requests)]
      /\ visible' \in [Attempts -> Commits \cup {None}]
      /\ store'[a][n] = blobs[n]
      /\ \A b \in Attempts, k \in Names : b # a \/ k # n => store'[b][k] = store[b][k]
      /\ writers'[a] = writers[a] \cup {c}
      /\ \A b \in Attempts : b # a => writers'[b] = writers[b] /\ visible'[b] = visible[b]
      /\ visible'[a] = IF n = ManifestName THEN None ELSE visible[a]
  <2> DEFINE body == blobs[n]
  <2>1. body \in Contents /\ Put(c, a, n, body, None) /\ a \in Attempts /\ n \in Names
    BY <1>1, <1>4
  <2> HIDE DEF a, body
  <2>2. Types /\ c \in Commits \cup Requests /\ None \in Commits \cup {None}
    OBVIOUS
  <2> QED
    BY <2>1, <2>2, PutFacts DEF body
<1>6. Types'
  BY <1>1, <1>2, <1>3, <1>4, <1>5 DEF Types, Begun
<1>7. /\ commit'[c].todo = commit[c].todo \ {n} /\ commit'[c].pc = "put"
      /\ commit'[c].attempt = a /\ commit'[c].blobs = blobs
      /\ \A d \in Commits : d # c => commit'[d] = commit[d]
  BY <1>1, <1>2, <1>3 DEF Types, Begun
<1>8. \A m, d, b : d \in Commits /\ IsOf(m, d, b) => IsOf(m, d, b)' /\ commit'[d] = commit[d]
  BY <1>2, <1>7 DEF IsOf
<1>9. RequestsFit' /\ ChecksNamed'
  <2>1. \A q \in Requests, b \in Attempts : q \in writers'[b] => q \in writers[b]
    BY <1>4, <1>5, IdsAssumption
  <2> QED
    BY <2>1, <1>2 DEF RequestsFit, ChecksNamed
<1>10. CommitsStore'
  <2> SUFFICES ASSUME NEW d \in Commits, commit'[d].pc # "new"
               PROVE  /\ commit'[d].todo \subseteq DOMAIN commit'[d].blobs
                      /\ commit'[d].pc = "done" => commit'[d].todo = {}
                      /\ \A k \in DOMAIN commit'[d].blobs \ commit'[d].todo :
                           /\ store'[commit'[d].attempt][k] # None
                           /\ d \in writers'[commit'[d].attempt]
    BY DEF CommitsStore
  <2>1. commit[d].pc # "new" /\ commit[d] \in Begun
    BY <1>2, <1>7, BegunCommits
  <2>2. DOMAIN commit[d].blobs \subseteq Names /\ commit[d].attempt \in Attempts
    BY <2>1, BlobsAre DEF Begun
  <2>3. CASE d = c
    BY <2>1, <2>2, <2>3, <1>4, <1>5, <1>7 DEF CommitsStore
  <2>4. CASE d # c
    <3>1. commit'[d] = commit[d]
      BY <2>4, <1>7
    <3>2. \A k \in DOMAIN commit[d].blobs \ commit[d].todo :
            store[commit[d].attempt][k] # None /\ d \in writers[commit[d].attempt]
      BY <2>1 DEF CommitsStore
    <3>3. \A b \in Attempts, k \in Names : store[b][k] # None => store'[b][k] # None
      BY <1>4, <1>5
    <3>4. \A b \in Attempts : writers[b] \subseteq writers'[b]
      BY <1>5
    <3> QED
      BY <2>1, <2>2, <3>1, <3>2, <3>3, <3>4 DEF CommitsStore
  <2> QED
    BY <2>3, <2>4
<1>11. ManifestsComeLast'
  <2> SUFFICES ASSUME NEW b \in Attempts, visible'[b] # None
               PROVE  IsOf(store[b][ManifestName], visible[b], b)'
    BY DEF ManifestsComeLast
  <2>1. visible'[b] = visible[b] /\ visible[b] \in Commits
    BY <1>5, <1>6 DEF Types
  <2>2. store'[b][ManifestName] = store[b][ManifestName]
    BY <1>5, NamesAssumption
  <2> QED
    BY <2>1, <2>2, <1>8 DEF ManifestsComeLast
<1>12. ReadsMatch'
  BY <1>2, <1>6, <1>8 DEF ReadsMatch, Types, Validations, NoValidation
<1>13. LoneWriter'
  <2> SUFFICES ASSUME NEW b \in Attempts, NEW d \in Commits, writers'[b] \subseteq {d}
               PROVE  /\ commit'[d].pc # "new" /\ commit'[d].attempt = b =>
                           \A k \in DOMAIN commit'[d].blobs \ commit'[d].todo :
                             k # ManifestName => store'[b][k] = commit'[d].blobs[k]
                      /\ writers'[b] = {d} => commit'[d].pc # "new" /\ commit'[d].attempt = b
                      /\ writers'[b] = {d} /\ commit'[d].pc = "done"
                           => store'[b][ManifestName] = Manifest(commit'[d].blobs)
    BY DEF LoneWriter
  <2>1. CASE b = a
    <3>1. d = c /\ writers[b] \subseteq {c}
      BY <2>1, <1>5
    <3> QED
      BY <3>1, <2>1, <1>2, <1>4, <1>5, <1>7 DEF LoneWriter
  <2>2. CASE b # a /\ d = c
    BY <2>2, <1>2, <1>5, <1>7 DEF LoneWriter
  <2>3. CASE b # a /\ d # c
    <3>1. commit[d].pc # "new" => DOMAIN commit[d].blobs \subseteq Names
      BY BegunCommits, BlobsAre DEF Begun
    <3> QED
      BY <3>1, <2>3, <1>5, <1>7, NamesAssumption DEF LoneWriter
  <2> QED
    BY <2>1, <2>2, <2>3
<1>14. StillQuiet'
  <2>1. \A b \in Attempts : writers[b] \subseteq writers'[b]
    BY <1>5
  <2>2. \A d \in Commits : commit[d].pc = "done" => commit'[d] = commit[d]
    BY <1>2, <1>7
  <2> QED
    BY <2>1, <2>2, <1>2, QuietKept
<1> QED
  BY <1>6, <1>9, <1>10, <1>11, <1>12, <1>13, <1>14

\* The manifest is put after every file of the commit.
LEMMA PutManifestInv ==
  ASSUME Inv, NEW c \in Commits, PutManifest(c)
  PROVE  Inv'
<1> USE DEF Inv
<1> DEFINE a == commit[c].attempt
           blobs == commit[c].blobs
           n == ManifestName
<1>1. PICK returned \in {"done", "failed"} : commit' = [commit EXCEPT ![c].pc = returned]
  BY DEF PutManifest
<1>2. /\ commit[c].pc = "put" /\ commit[c].todo = {}
      /\ Put(c, a, n, Manifest(blobs), c)
      /\ UNCHANGED <<sessions, request, validation>>
  BY DEF PutManifest, ManifestLast
<1>3. commit[c] \in Begun
  BY <1>2, BegunCommits
<1>4. /\ a \in Attempts /\ blobs \in Batches /\ n \in Names
      /\ Manifest(blobs) \in Contents /\ Manifest(blobs) # None
  BY <1>3, ManifestIs, NamesAssumption DEF Begun, Contents
<1>5. /\ store' \in [Attempts -> [Names -> Contents]]
      /\ writers' \in [Attempts -> SUBSET (Commits \cup Requests)]
      /\ visible' \in [Attempts -> Commits \cup {None}]
      /\ store'[a][n] = Manifest(blobs)
      /\ \A b \in Attempts, k \in Names : b # a \/ k # n => store'[b][k] = store[b][k]
      /\ writers'[a] = writers[a] \cup {c}
      /\ \A b \in Attempts : b # a => writers'[b] = writers[b] /\ visible'[b] = visible[b]
      /\ visible'[a] = c
  BY <1>2, <1>4, PutFacts
<1>6. Types'
  BY <1>1, <1>2, <1>3, <1>4, <1>5 DEF Types, Begun
<1>7. /\ commit'[c].todo = {} /\ commit'[c].pc = returned
      /\ commit'[c].attempt = a /\ commit'[c].blobs = blobs
      /\ \A d \in Commits : d # c => commit'[d] = commit[d]
  BY <1>1, <1>2, <1>3 DEF Types, Begun
<1>8. \A m, d, b : d \in Commits /\ IsOf(m, d, b) => IsOf(m, d, b)' /\ commit'[d] = commit[d]
  BY <1>2, <1>7 DEF IsOf
<1>9. RequestsFit' /\ ChecksNamed'
  <2>1. \A q \in Requests, b \in Attempts : q \in writers'[b] => q \in writers[b]
    BY <1>4, <1>5, IdsAssumption
  <2> QED
    BY <2>1, <1>2 DEF RequestsFit, ChecksNamed
<1>10. CommitsStore'
  <2> SUFFICES ASSUME NEW d \in Commits, commit'[d].pc # "new"
               PROVE  /\ commit'[d].todo \subseteq DOMAIN commit'[d].blobs
                      /\ commit'[d].pc = "done" => commit'[d].todo = {}
                      /\ \A k \in DOMAIN commit'[d].blobs \ commit'[d].todo :
                           /\ store'[commit'[d].attempt][k] # None
                           /\ d \in writers'[commit'[d].attempt]
    BY DEF CommitsStore
  <2>1. commit[d].pc # "new" /\ commit[d] \in Begun
    BY <1>2, <1>7, BegunCommits
  <2>2. DOMAIN commit[d].blobs \subseteq Names /\ commit[d].attempt \in Attempts
    BY <2>1, BlobsAre DEF Begun
  <2>3. CASE d = c
    <3>1. commit'[d].blobs = blobs /\ commit'[d].attempt = a /\ commit'[d].todo = {}
      BY <2>3, <1>7
    <3>2. \A k \in DOMAIN blobs : store[a][k] # None
      BY <1>2 DEF CommitsStore
    <3>3. DOMAIN blobs \subseteq Names
      BY <2>2, <2>3
    <3>4. \A k \in DOMAIN blobs : store'[a][k] # None
      BY <3>2, <3>3, <1>4, <1>5
    <3> QED
      BY <2>3, <3>1, <3>4, <1>5
  <2>4. CASE d # c
    <3>1. commit'[d] = commit[d]
      BY <2>4, <1>7
    <3>2. \A k \in DOMAIN commit[d].blobs \ commit[d].todo :
            store[commit[d].attempt][k] # None /\ d \in writers[commit[d].attempt]
      BY <2>1 DEF CommitsStore
    <3>3. \A b \in Attempts, k \in Names : store[b][k] # None => store'[b][k] # None
      BY <1>4, <1>5
    <3>4. \A b \in Attempts : writers[b] \subseteq writers'[b]
      BY <1>5
    <3> QED
      BY <2>1, <2>2, <3>1, <3>2, <3>3, <3>4 DEF CommitsStore
  <2> QED
    BY <2>3, <2>4
<1>11. ManifestsComeLast'
  <2> SUFFICES ASSUME NEW b \in Attempts, visible'[b] # None
               PROVE  IsOf(store[b][ManifestName], visible[b], b)'
    BY DEF ManifestsComeLast
  <2>1. CASE b = a
    BY <2>1, <1>5, <1>7 DEF IsOf
  <2>2. CASE b # a
    BY <2>2, <1>4, <1>5, <1>6, <1>8 DEF ManifestsComeLast, Types
  <2> QED
    BY <2>1, <2>2
<1>12. ReadsMatch'
  BY <1>2, <1>6, <1>8 DEF ReadsMatch, Types, Validations, NoValidation
<1>13. LoneWriter'
  <2> SUFFICES ASSUME NEW b \in Attempts, NEW d \in Commits, writers'[b] \subseteq {d}
               PROVE  /\ commit'[d].pc # "new" /\ commit'[d].attempt = b =>
                           \A k \in DOMAIN commit'[d].blobs \ commit'[d].todo :
                             k # ManifestName => store'[b][k] = commit'[d].blobs[k]
                      /\ writers'[b] = {d} => commit'[d].pc # "new" /\ commit'[d].attempt = b
                      /\ writers'[b] = {d} /\ commit'[d].pc = "done"
                           => store'[b][ManifestName] = Manifest(commit'[d].blobs)
    BY DEF LoneWriter
  <2>0. commit[d].pc # "new" => DOMAIN commit[d].blobs \subseteq Names
    BY BegunCommits, BlobsAre DEF Begun
  <2>1. CASE b = a
    <3>1. d = c /\ writers[b] \subseteq {c}
      BY <2>1, <1>5
    <3> QED
      BY <3>1, <2>0, <2>1, <1>2, <1>4, <1>5, <1>7 DEF LoneWriter
  <2>2. CASE b # a
    BY <2>0, <2>2, <1>2, <1>4, <1>5, <1>7 DEF LoneWriter
  <2> QED
    BY <2>1, <2>2
<1>14. StillQuiet'
  <2>1. \A b \in Attempts : writers[b] \subseteq writers'[b]
    BY <1>5
  <2>2. \A d \in Commits : commit[d].pc = "done" => commit'[d] = commit[d]
    BY <1>2, <1>7
  <2> QED
    BY <2>1, <2>2, <1>2, QuietKept
<1> QED
  BY <1>6, <1>9, <1>10, <1>11, <1>12, <1>13, <1>14

\* A commit ends before its manifest is stored.
LEMMA CommitFailsInv ==
  ASSUME Inv, NEW c \in Commits, CommitFails(c)
  PROVE  Inv'
<1> USE DEF Inv
<1>1. /\ commit[c].pc = "put" /\ commit' = [commit EXCEPT ![c].pc = "failed"]
      /\ UNCHANGED <<store, sessions, request, validation, writers, visible>>
  BY DEF CommitFails, objects
<1>2. commit[c] \in Begun
  BY <1>1, BegunCommits
<1>3. Types'
  BY <1>1, <1>2 DEF Types, Begun
<1>4. /\ commit'[c].todo = commit[c].todo /\ commit'[c].pc = "failed"
      /\ commit'[c].attempt = commit[c].attempt /\ commit'[c].blobs = commit[c].blobs
      /\ \A d \in Commits : d # c => commit'[d] = commit[d]
  BY <1>1, <1>2 DEF Types, Begun
<1>5. \A m, d, b : d \in Commits /\ IsOf(m, d, b) => IsOf(m, d, b)' /\ commit'[d] = commit[d]
  BY <1>1, <1>4 DEF IsOf
<1>6. RequestsFit' /\ ChecksNamed' /\ CommitsStore'
  BY <1>1, <1>4 DEF RequestsFit, ChecksNamed, CommitsStore
<1>7. ManifestsComeLast' /\ ReadsMatch'
  BY <1>1, <1>3, <1>5 DEF ManifestsComeLast, ReadsMatch, Types, Validations, NoValidation
<1>8. LoneWriter'
  BY <1>1, <1>4 DEF LoneWriter
<1>9. StillQuiet'
  BY <1>1, <1>4, QuietKept
<1> QED
  BY <1>3, <1>6, <1>7, <1>8, <1>9

\* A request adds a writer that is no commit.
LEMMA PutRequestInv ==
  ASSUME Inv, NEW r \in Requests, PutRequest(r)
  PROVE  Inv'
<1> USE DEF Inv
<1> DEFINE a == request[r].attempt
           n == request[r].name
           body == request[r].body
<1>1. /\ request[r].pc = "admitted" /\ Put(r, a, n, body, None)
      /\ request' = [request EXCEPT ![r] = Served(request[r].session)]
      /\ UNCHANGED <<sessions, commit, validation>>
  BY DEF PutRequest
<1>2. /\ a \in Attempts /\ n \in Names /\ body \in Contents /\ body # None
      /\ request[r].session = a
  BY <1>1, NoneAssumption DEF RequestsFit, Contents
<1>3. /\ store' \in [Attempts -> [Names -> Contents]]
      /\ writers' \in [Attempts -> SUBSET (Commits \cup Requests)]
      /\ visible' \in [Attempts -> Commits \cup {None}]
      /\ store'[a][n] = body
      /\ \A b \in Attempts, k \in Names : b # a \/ k # n => store'[b][k] = store[b][k]
      /\ writers'[a] = writers[a] \cup {r}
      /\ \A b \in Attempts : b # a => writers'[b] = writers[b] /\ visible'[b] = visible[b]
      /\ visible'[a] = IF n = ManifestName THEN None ELSE visible[a]
  BY <1>1, <1>2, PutFacts
<1>4. Types'
  BY <1>1, <1>3 DEF Types
<1>5. ChecksNamed'
  BY <1>1 DEF ChecksNamed
<1>6. RequestsFit'
  <2>1. /\ request'[r].pc = "served" /\ request'[r].session = a
        /\ \A q \in Requests : q # r => request'[q] = request[q]
    BY <1>1, <1>2 DEF Types, Served, NoRequest
  <2>2. \A b \in Attempts : r \notin writers[b]
    BY <1>1 DEF RequestsFit
  <2>3. \A q \in Requests, b \in Attempts :
          q \in writers'[b] => q \in writers[b] \/ (q = r /\ b = a)
    BY <1>2, <1>3
  <2> HIDE DEF a
  <2>4. ASSUME NEW q \in Requests, q # r
        PROVE  /\ request'[q].pc = "admitted" =>
                    /\ request'[q].attempt \in Attempts
                    /\ request'[q].session = request'[q].attempt
                    /\ request'[q].name \in Names /\ request'[q].body \in Bodies \cup Scopes
               /\ \A b \in Attempts : q \in writers'[b] =>
                    request'[q].pc = "served" /\ request'[q].session = b
    BY <2>1, <2>3, <2>4 DEF RequestsFit
  <2>5. \A b \in Attempts : r \in writers'[b] => b = a
    BY <2>2, <2>3
  <2> QED
    BY <2>1, <2>4, <2>5 DEF RequestsFit
<1>7. CommitsStore'
  <2> SUFFICES ASSUME NEW d \in Commits, commit[d].pc # "new"
               PROVE  \A k \in DOMAIN commit[d].blobs \ commit[d].todo :
                        /\ store'[commit[d].attempt][k] # None
                        /\ d \in writers'[commit[d].attempt]
    BY <1>1 DEF CommitsStore
  <2>1. DOMAIN commit[d].blobs \subseteq Names /\ commit[d].attempt \in Attempts
    BY BegunCommits, BlobsAre DEF Begun
  <2> QED
    BY <2>1, <1>2, <1>3 DEF CommitsStore
<1>8. ManifestsComeLast'
  <2> SUFFICES ASSUME NEW b \in Attempts, visible'[b] # None
               PROVE  IsOf(store[b][ManifestName], visible[b], b)'
    BY DEF ManifestsComeLast
  <2>1. visible'[b] = visible[b]
    BY <1>3
  <2>2. store'[b][ManifestName] = store[b][ManifestName]
    BY <1>3, NamesAssumption
  <2> QED
    BY <2>1, <2>2, <1>1 DEF ManifestsComeLast, IsOf
<1>9. ReadsMatch'
  BY <1>1 DEF ReadsMatch, IsOf
<1>10. \A d \in Commits : ~ (writers'[a] \subseteq {d})
  BY <1>3, IdsAssumption
<1>11. LoneWriter'
  <2> SUFFICES ASSUME NEW b \in Attempts, NEW d \in Commits, b # a, writers[b] \subseteq {d}
               PROVE  /\ commit[d].pc # "new" /\ commit[d].attempt = b =>
                           \A k \in DOMAIN commit[d].blobs \ commit[d].todo :
                             k # ManifestName => store'[b][k] = commit[d].blobs[k]
                      /\ writers[b] = {d} => commit[d].pc # "new" /\ commit[d].attempt = b
                      /\ writers[b] = {d} /\ commit[d].pc = "done"
                           => store'[b][ManifestName] = Manifest(commit[d].blobs)
    <3>1. commit' = commit /\ \A b \in Attempts : b # a => writers'[b] = writers[b]
      BY <1>1, <1>3
    <3> HIDE DEF a, n, body
    <3> QED
      BY <3>1, <1>10 DEF LoneWriter
  <2>1. commit[d].pc # "new" => DOMAIN commit[d].blobs \subseteq Names
    BY BegunCommits, BlobsAre DEF Begun
  <2> QED
    BY <2>1, <1>3, NamesAssumption DEF LoneWriter
<1>12. StillQuiet'
  <2>1. \A b \in Attempts : writers[b] \subseteq writers'[b]
    BY <1>3
  <2> QED
    BY <2>1, <1>1, QuietKept
<1> QED
  BY <1>4, <1>5, <1>6, <1>7, <1>8, <1>9, <1>11, <1>12

-----------------------------------------------------------------------------

\* A validation takes what is stored as the manifest.
LEMMA BeginInv ==
  ASSUME Inv, NEW a \in Attempts, BeginValidation(a)
  PROVE  validation' \in Validations /\ ChecksNamed' /\ ReadsMatch' /\ StillQuiet'
<1> USE DEF Inv
<1> DEFINE found == store[a][ManifestName]
           q == \E c \in Commits : Undisturbed(c, a)
           w(pc, todo) == [pc |-> pc, attempt |-> a, manifest |-> found, todo |-> todo,
                           read |-> NoObjects, from |-> visible[a], quiet |-> q]
<1>1. UNCHANGED <<store, sessions, request, commit, writers, visible>>
  BY DEF BeginValidation, Validating, objects
<1>2. found \in Contents /\ visible[a] \in Commits \cup {None} /\ q \in BOOLEAN
      /\ NoObjects \in [Names -> Contents]
  BY NamesAssumption DEF Types, NoObjects, Contents
<1>3. ASSUME NEW c \in Commits, Undisturbed(c, a)
      PROVE  found = Manifest(commit[c].blobs) /\ found \in Manifests
  <2>1. writers[a] = {c} /\ commit[c].pc = "done"
    BY <1>3 DEF Undisturbed
  <2>2. commit[c].blobs \in Batches
    BY <2>1, BegunCommits DEF Begun
  <2> QED
    BY <2>1, <2>2, ManifestIs DEF LoneWriter
<1>4. CASE found \notin Manifests
  <2>1. validation' = w("refused", {})
    BY <1>4 DEF BeginValidation, Validating
  <2>2. validation' \in Validations
    BY <2>1, <1>2 DEF Validations
  <2>3. ~q
    BY <1>3, <1>4
  <2> QED
    BY <2>1, <2>2, <2>3 DEF ChecksNamed, ReadsMatch, StillQuiet
<1>5. CASE found \in Manifests
  <2>1. validation' = w("checking", DOMAIN found.artifacts)
    BY <1>5 DEF BeginValidation, Validating
  <2>2. DOMAIN found.artifacts \subseteq Names
    BY <1>5, ManifestsName
  <2> HIDE DEF found
  <2>3. /\ validation'.pc = "checking" /\ validation'.attempt = a /\ validation'.manifest = found
        /\ validation'.todo = DOMAIN found.artifacts /\ validation'.read = NoObjects
        /\ validation'.from = visible[a] /\ validation'.quiet = q
    BY <2>1
  <2>4. validation' \in Validations
    BY <2>1, <2>2, <1>2 DEF Validations
  <2>5. ChecksNamed'
    BY <2>3, <1>5 DEF ChecksNamed
  <2>6. ReadsMatch'
    <3> SUFFICES ASSUME visible[a] # None
                 PROVE  /\ IsOf(found, visible[a], a)
                        /\ \A n \in Names : NoObjects[n] =
                             IF n \in DOMAIN commit[visible[a]].blobs \ DOMAIN found.artifacts
                               THEN commit[visible[a]].blobs[n] ELSE None
      BY <2>3, <1>1 DEF ReadsMatch, IsOf
    <3>1. IsOf(found, visible[a], a) /\ visible[a] \in Commits
      BY <1>2 DEF ManifestsComeLast, found
    <3>2. commit[visible[a]].blobs \in Batches
      BY <3>1, BegunCommits DEF Begun, IsOf
    <3>3. found.artifacts = commit[visible[a]].blobs
      BY <3>1, <3>2, ManifestIs DEF IsOf
    <3> QED
      BY <3>1, <3>3 DEF NoObjects
  <2>7. StillQuiet'
    BY <2>3, <1>1, <1>3 DEF StillQuiet, Undisturbed
  <2> QED
    BY <2>4, <2>5, <2>6, <2>7
<1> QED
  BY <1>4, <1>5

\* A validation compares a file with its hash.
LEMMA CheckInv ==
  ASSUME Inv, CheckArtifact
  PROVE  validation' \in Validations /\ ChecksNamed' /\ ReadsMatch' /\ StillQuiet'
<1> USE DEF Inv
<1> DEFINE a == validation.attempt
           m == validation.manifest
<1>1. UNCHANGED <<store, sessions, request, commit, writers, visible>>
  BY DEF CheckArtifact, Validating, objects
<1>2. validation.pc = "checking" /\ validation \in Validations
  BY DEF CheckArtifact, Types, NoValidation
<1>3. PICK n \in validation.todo :
        IF HashMatches(store[a][n], m.artifacts[n])
          THEN validation' = [validation EXCEPT !.todo = @ \ {n}, !.read[n] = store[a][n]]
          ELSE validation' = [validation EXCEPT !.pc = "refused"]
  BY DEF CheckArtifact, Validating
<1>4. a \in Attempts /\ n \in Names /\ n \in DOMAIN m.artifacts /\ m \in Manifests
  BY <1>2 DEF Validations, ChecksNamed
<1>5. CASE HashMatches(store[a][n], m.artifacts[n])
  <2> DEFINE content == store[a][n]
  <2>1. /\ validation' = [validation EXCEPT !.todo = @ \ {n}, !.read[n] = content]
        /\ content = m.artifacts[n] /\ content \in Contents
    BY <1>3, <1>4, <1>5 DEF HashMatches, Types
  <2> HIDE DEF content
  <2>2. validation' \in Validations
    BY <2>1, <1>2, <1>4 DEF Validations
  <2>3. /\ validation'.pc = "checking" /\ validation'.attempt = a
        /\ validation'.manifest = m /\ validation'.quiet = validation.quiet
        /\ validation'.from = validation.from
        /\ validation'.todo = validation.todo \ {n}
        /\ validation'.read = [validation.read EXCEPT ![n] = content]
    BY <2>1, <1>2 DEF Validations
  <2>4. ChecksNamed'
    BY <2>3, <1>2, <1>4 DEF ChecksNamed
  <2>5. ReadsMatch'
    <3> DEFINE c == validation.from
               blobs == commit[c].blobs
    <3> SUFFICES ASSUME c # None
                 PROVE  /\ IsOf(m, c, a)
                        /\ \A k \in Names : validation'.read[k] =
                             IF k \in DOMAIN blobs \ (validation.todo \ {n})
                               THEN blobs[k] ELSE None
      BY <2>3, <1>1 DEF ReadsMatch, IsOf
    <3>1. /\ IsOf(m, c, a) /\ c \in Commits
          /\ \A k \in Names : validation.read[k] =
               IF k \in DOMAIN blobs \ validation.todo THEN blobs[k] ELSE None
      BY <1>2 DEF ReadsMatch, Validations
    <3>2. blobs \in Batches
      BY <3>1, BegunCommits DEF Begun, IsOf
    <3>3. m.artifacts = blobs
      BY <3>1, <3>2, ManifestIs DEF IsOf
    <3>4. validation.read \in [Names -> Contents]
      BY <1>2 DEF Validations
    <3> HIDE DEF c, blobs
    <3> QED
      BY <3>1, <3>3, <3>4, <2>1, <2>3, <1>4
  <2>6. StillQuiet'
    BY <2>3, <1>1, <1>2 DEF StillQuiet, Undisturbed
  <2> QED
    BY <2>2, <2>4, <2>5, <2>6
<1>6. CASE ~ HashMatches(store[a][n], m.artifacts[n])
  <2>1. validation' = [validation EXCEPT !.pc = "refused"]
    BY <1>3, <1>6
  <2>2. /\ validation' \in Validations /\ validation'.pc = "refused"
        /\ validation'.attempt = a /\ validation'.quiet = validation.quiet
    BY <2>1, <1>2 DEF Validations
  <2>3. ASSUME NEW d \in Commits, Undisturbed(d, a), m = Manifest(commit[d].blobs)
        PROVE  FALSE
    <3>1. /\ writers[a] = {d} /\ commit[d].pc = "done"
          /\ ManifestName \notin DOMAIN commit[d].blobs
      BY <2>3 DEF Undisturbed
    <3>2. commit[d] \in Begun /\ commit[d].blobs \in Batches
      BY <3>1, BegunCommits DEF Begun
    <3>3. commit[d].attempt = a /\ commit[d].todo = {} /\ m.artifacts = commit[d].blobs
      BY <2>3, <3>1, <3>2, <1>4, ManifestIs DEF LoneWriter, CommitsStore
    <3>4. n \in DOMAIN commit[d].blobs /\ n # ManifestName /\ commit[d].blobs[n] # None
      BY <3>1, <3>2, <3>3, <1>4, BlobsAre, NoneAssumption
    <3>5. store[a][n] = commit[d].blobs[n]
      BY <3>1, <3>3, <3>4, <1>4 DEF LoneWriter
    <3> QED
      BY <3>3, <3>4, <3>5, <1>6 DEF HashMatches
  <2>4. StillQuiet'
    BY <2>2, <2>3, <1>1, <1>2 DEF StillQuiet
  <2> QED
    BY <2>2, <2>4 DEF ChecksNamed, ReadsMatch
<1> QED
  BY <1>5, <1>6

\* A validation compares the hash of the whole.
LEMMA EndInv ==
  ASSUME Inv, EndValidation
  PROVE  validation' \in Validations /\ ChecksNamed' /\ ReadsMatch' /\ StillQuiet'
<1> USE DEF Inv
<1> DEFINE a == validation.attempt
           m == validation.manifest
           same == computeManifestContentHash(m.artifacts) = m.contentHash
<1>1. UNCHANGED <<store, sessions, request, commit, writers, visible>>
  BY DEF EndValidation, Validating, objects
<1>2. validation.pc = "checking" /\ validation.todo = {} /\ validation \in Validations
  BY DEF EndValidation, Types, NoValidation
<1>3. validation' = [validation EXCEPT !.pc = IF same THEN "valid" ELSE "refused"]
  BY DEF EndValidation, Validating
<1>4. ASSUME NEW c \in Commits, commit[c].pc # "new", m = Manifest(commit[c].blobs)
      PROVE  same
  <2>1. commit[c].blobs \in Batches
    BY <1>4, BegunCommits DEF Begun
  <2> QED
    BY <1>4, <2>1, ManifestIs
<1> HIDE DEF same
<1>5. /\ validation' \in Validations /\ validation'.pc = (IF same THEN "valid" ELSE "refused")
      /\ validation'.todo = {} /\ validation'.attempt = a /\ validation'.read = validation.read
      /\ validation'.manifest = m /\ validation'.from = validation.from
      /\ validation'.quiet = validation.quiet
  <2> DEFINE pc == IF same THEN "valid" ELSE "refused"
  <2>1. pc \in {"checking", "valid", "refused"} /\ validation' = [validation EXCEPT !.pc = pc]
    BY <1>3
  <2> HIDE DEF pc
  <2>2. /\ validation' \in Validations /\ validation'.pc = pc
        /\ validation'.todo = {} /\ validation'.attempt = a /\ validation'.read = validation.read
        /\ validation'.manifest = m /\ validation'.from = validation.from
        /\ validation'.quiet = validation.quiet
    BY <2>1, <1>2 DEF Validations
  <2> QED
    BY <2>2 DEF pc
<1>6. ChecksNamed'
  BY <1>5 DEF ChecksNamed
<1>7. ReadsMatch'
  BY <1>1, <1>2, <1>5 DEF ReadsMatch, IsOf
<1>8. StillQuiet'
  <2> SUFFICES ASSUME validation.quiet, ~same
               PROVE  \E x, y \in writers[a] : x # y
    BY <1>1, <1>5 DEF StillQuiet
  <2>1. ASSUME NEW c \in Commits, Undisturbed(c, a), m = Manifest(commit[c].blobs)
        PROVE  FALSE
    BY <2>1, <1>4 DEF Undisturbed
  <2> QED
    BY <2>1, <1>2 DEF StillQuiet
<1> QED
  BY <1>5, <1>6, <1>7, <1>8

\* No step of a validation touches anything else.
LEMMA ValidationInv ==
  ASSUME Inv,
         \/ \E a \in Attempts : BeginValidation(a)
         \/ CheckArtifact \/ EndValidation \/ LeaveValidation
  PROVE  Inv'
<1>1. UNCHANGED <<store, sessions, request, commit, writers, visible>>
  BY DEF BeginValidation, CheckArtifact, EndValidation, LeaveValidation, Validating, objects
<1>2. RequestsFit' /\ CommitsStore' /\ ManifestsComeLast' /\ LoneWriter'
  BY <1>1 DEF Inv, RequestsFit, CommitsStore, ManifestsComeLast, LoneWriter, IsOf
<1>3. LeaveValidation =>
        validation' = NoValidation /\ ChecksNamed' /\ ReadsMatch' /\ StillQuiet'
  BY DEF LeaveValidation, Validating, NoValidation, ChecksNamed, ReadsMatch, StillQuiet
<1>4. /\ validation' \in Validations \cup {NoValidation}
      /\ ChecksNamed' /\ ReadsMatch' /\ StillQuiet'
  BY <1>3, BeginInv, CheckInv, EndInv
<1>5. Types'
  BY <1>1, <1>4 DEF Inv, Types
<1> QED
  BY <1>2, <1>4, <1>5 DEF Inv

\* Letting a request in and giving up touch neither objects nor commits.
LEMMA GatewayInv ==
  ASSUME Inv,
         \/ \E a \in Attempts : CreateSession(a) \/ SessionExpires(a)
         \/ \E r \in Requests : HandleUpload(r) \/ HandleResult(r) \/ RequestFails(r)
  PROVE  Inv'
<1> USE DEF Inv
<1>1. UNCHANGED <<store, commit, validation, writers, visible>>
  BY DEF CreateSession, SessionExpires, HandleUpload, HandleResult, RequestFails, Admit, objects
<1>2. /\ CommitsStore' /\ ManifestsComeLast' /\ ChecksNamed' /\ ReadsMatch' /\ LoneWriter'
      /\ StillQuiet'
  BY <1>1 DEF CommitsStore, ManifestsComeLast, ChecksNamed, ReadsMatch, LoneWriter, StillQuiet,
              IsOf, Undisturbed
<1>3. SUFFICES sessions' \in SUBSET Attempts /\ DOMAIN request' = Requests /\ RequestsFit'
  BY <1>1, <1>2 DEF Types
<1>4. ASSUME NEW a \in Attempts
      PROVE  Scope(a) \in Scopes /\ Scope(a).attempt = a
  BY JobOfAssumption DEF Scope, Scopes
<1>5. ASSUME NEW a \in Attempts, CreateSession(a) \/ SessionExpires(a)
      PROVE  sessions' \in SUBSET Attempts /\ request' = request
  BY <1>5 DEF CreateSession, SessionExpires, Types
<1>6. ASSUME NEW r \in Requests, NEW a \in Attempts, NEW scope \in Scopes, NEW n \in Names,
             NEW body \in Bodies \cup Scopes,
             Admit(r, a, scope, Admitted(a, scope.attempt, n, body))
      PROVE  sessions' = sessions /\ DOMAIN request' = Requests /\ RequestsFit'
  <2>1. /\ scope = Scope(a) /\ request[r].pc = "new" /\ sessions' = sessions
        /\ request' = [request EXCEPT ![r] = Admitted(a, scope.attempt, n, body)]
    BY <1>6 DEF Admit, AuthorizeScope
  <2>2. /\ request'[r].pc = "admitted" /\ request'[r].attempt = a /\ request'[r].session = a
        /\ request'[r].name = n /\ request'[r].body = body
        /\ \A q \in Requests : q # r => request'[q] = request[q]
    BY <2>1, <1>4 DEF Admitted, Types
  <2>3. \A b \in Attempts : r \notin writers[b]
    BY <2>1 DEF RequestsFit
  <2> QED
    BY <2>1, <2>2, <2>3, <1>1 DEF RequestsFit, Types
<1>7. ASSUME NEW r \in Requests, HandleUpload(r)
      PROVE  sessions' = sessions /\ DOMAIN request' = Requests /\ RequestsFit'
  BY <1>6, <1>7 DEF HandleUpload
<1>8. ASSUME NEW r \in Requests, HandleResult(r)
      PROVE  sessions' = sessions /\ DOMAIN request' = Requests /\ RequestsFit'
  <2>1. PICK a \in Attempts, envelope \in Scopes :
          Admit(r, a, envelope, Admitted(a, a, ResultName, envelope))
    BY <1>8 DEF HandleResult
  <2>2. envelope.attempt = a
    BY <2>1, <1>4 DEF Admit, AuthorizeScope
  <2> QED
    BY <2>1, <2>2, <1>6, NamesAssumption
<1>9. ASSUME NEW r \in Requests, RequestFails(r)
      PROVE  sessions' = sessions /\ DOMAIN request' = Requests /\ RequestsFit'
  <2>1. /\ request[r].pc = "admitted" /\ sessions' = sessions
        /\ request' = [request EXCEPT ![r] = Served(request[r].session)]
    BY <1>9 DEF RequestFails
  <2>2. request'[r].pc = "served" /\ \A q \in Requests : q # r => request'[q] = request[q]
    BY <2>1 DEF Types, Served, NoRequest
  <2>3. \A b \in Attempts : r \notin writers[b]
    BY <2>1 DEF RequestsFit
  <2> QED
    BY <2>1, <2>2, <2>3, <1>1 DEF RequestsFit, Types
<1>10. ASSUME request' = request
       PROVE  DOMAIN request' = Requests /\ RequestsFit'
  BY <1>1, <1>10 DEF RequestsFit, Types
<1> QED
  BY <1>5, <1>7, <1>8, <1>9, <1>10 DEF Types

\* Every step keeps the invariant.
LEMMA NextInv == Inv /\ [Next]_vars => Inv'
<1> SUFFICES ASSUME Inv, [Next]_vars PROVE Inv'
  OBVIOUS
<1>1. CASE UNCHANGED vars
  <2>1. UNCHANGED <<store, sessions, request, commit, validation, writers, visible>>
    BY <1>1 DEF vars, objects
  <2>2. Types' /\ RequestsFit' /\ ChecksNamed'
    BY <2>1 DEF Inv, Types, RequestsFit, ChecksNamed
  <2>3. CommitsStore' /\ ManifestsComeLast' /\ ReadsMatch'
    BY <2>1 DEF Inv, CommitsStore, ManifestsComeLast, ReadsMatch, IsOf
  <2>4. LoneWriter' /\ StillQuiet'
    BY <2>1 DEF Inv, LoneWriter, StillQuiet, Undisturbed
  <2> QED
    BY <2>2, <2>3, <2>4 DEF Inv
<1>2. CASE Next
  <2>1. ASSUME NEW c \in Commits, StartCommit(c) \/ PutBlob(c) \/ PutManifest(c) \/ CommitFails(c)
        PROVE  Inv'
    BY <2>1, StartCommitInv, PutBlobInv, PutManifestInv, CommitFailsInv
  <2>2. CASE CheckArtifact \/ EndValidation \/ LeaveValidation
    BY <2>2, ValidationInv
  <2>3. ASSUME NEW a \in Attempts, BeginValidation(a) \/ CreateSession(a) \/ SessionExpires(a)
        PROVE  Inv'
    BY <2>3, ValidationInv, GatewayInv
  <2>4. ASSUME NEW r \in Requests,
               HandleUpload(r) \/ HandleResult(r) \/ PutRequest(r) \/ RequestFails(r)
        PROVE  Inv'
    BY <2>4, PutRequestInv, GatewayInv
  <2> QED
    BY <1>2, <2>1, <2>2, <2>3, <2>4 DEF Next
<1> QED
  BY <1>1, <1>2

\* The invariant holds of CommitArtifacts, ValidateCommit and the gateway together.
THEOREM Invariance == Spec => []Inv
<1> QED
  BY InitInv, NextInv, PTL DEF Spec

\* Type correctness: objects, requests, commits and validations keep their shapes.
THEOREM TypeCorrect == Spec => []TypeOK
<1>1. Inv => TypeOK
  <2> SUFFICES ASSUME Inv PROVE TypeOK
    OBVIOUS
  <2>1. ASSUME NEW c \in Commits
        PROVE  \/ commit[c] = NoCommit
               \/ /\ commit[c].attempt \in Attempts /\ commit[c].blobs \in Batches
                  /\ commit[c].todo \subseteq DOMAIN commit[c].blobs
    BY DEF Inv, Types, CommitsStore, Begun
  <2>2. \/ validation = NoValidation
        \/ validation.attempt \in Attempts /\ validation.todo \subseteq Names
    BY DEF Inv, Types, Validations
  <2>3. \A r \in Requests : request[r].pc = "admitted" =>
          request[r].attempt \in Attempts /\ request[r].name \in Names
    BY DEF Inv, RequestsFit
  <2> QED
    BY <2>1, <2>2, <2>3 DEF Inv, Types, TypeOK, Contents
<1> QED
  BY <1>1, Invariance, PTL

\* Manifest-last: whatever overlaps, fails or is repeated, and under whatever names, the
\* manifest that CommitArtifacts has put names only files that are stored.
THEOREM ManifestLastHolds == Spec => []ManifestNamesStored
<1>1. Inv => ManifestNamesStored
  <2> SUFFICES ASSUME Inv, NEW a \in Attempts, visible[a] # None,
                      NEW n \in DOMAIN store[a][ManifestName].artifacts
               PROVE  store[a][n] # None
    BY DEF ManifestNamesStored
  <2> DEFINE c == visible[a]
  <2>1. IsOf(store[a][ManifestName], c, a) /\ c \in Commits
    BY DEF Inv, ManifestsComeLast, Types
  <2>2. commit[c].blobs \in Batches
    BY <2>1, BegunCommits DEF Inv, Begun, IsOf
  <2>3. n \in DOMAIN commit[c].blobs
    BY <2>1, <2>2, ManifestIs DEF IsOf
  <2> QED
    BY <2>1, <2>3 DEF Inv, CommitsStore, IsOf
<1> QED
  BY <1>1, Invariance, PTL

\* ValidateCommit, given the manifest of a commit, succeeds only after it has read exactly
\* the files of that commit.
THEOREM NoMixtureValidates == Spec => []ValidIsOneCommit
<1>1. Inv => ValidIsOneCommit
  BY DEF Inv, ReadsMatch, IsOf, ValidIsOneCommit
<1> QED
  BY <1>1, Invariance, PTL

\* ValidateCommit refuses no commit that returned nil, that has no artifact called
\* manifest.json and that nobody has disturbed.
THEOREM LoneCommitsValidate == Spec => []LoneCommitIsValid
<1>1. Inv => LoneCommitIsValid
  BY DEF Inv, StillQuiet, LoneCommitIsValid
<1> QED
  BY <1>1, Invariance, PTL

\* HandleUpload and HandleResult write for an attempt only under a session of that attempt.
THEOREM ScopesHold == Spec => []RequestsStayInScope
<1>1. Inv => RequestsStayInScope
  BY DEF Inv, RequestsFit, RequestsStayInScope
<1> QED
  BY <1>1, Invariance, PTL

=============================================================================
