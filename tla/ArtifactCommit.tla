-------------------------- MODULE ArtifactCommit --------------------------
(***************************************************************************)
(* The artifacts of attempts in an object store: CommitArtifacts and       *)
(* ValidateCommit (internal/artifact), which make a manifest, written      *)
(* last, stand for a set of files, and the gateway (internal/gateway),     *)
(* through which the sandbox of an attempt uploads files and results under *)
(* a session token that is limited to its own keys.                        *)
(*                                                                         *)
(* Each call of the object store is one step.  Commits, uploads and        *)
(* validations overlap in any way; a call can fail, and a caller die,      *)
(* between any two.  Nothing here deletes an object, so that a check that  *)
(* an object exists is merged with the step that follows it.  No name is   *)
(* refused: an artifact or an upload may be called manifest.json or        *)
(* result-manifest.json, and its contents may be a manifest or an          *)
(* envelope.  A manifest that is uploaded names keys of its own attempt.   *)
(***************************************************************************)
EXTENDS Integers, Sequences, FiniteSets

CONSTANTS
  Jobs, Attempts,   \* job UIDs and attempt UIDs; an attempt belongs to one job
  JobOf,            \* the job of an attempt
  MaxNames,         \* names of artifacts, in the order of their keys
  ManifestName,     \* manifest.json
  ResultName,       \* result-manifest.json
  Bodies,           \* contents of artifacts and uploads
  Batches,          \* the files a commit may be called with
  Commits,          \* calls of CommitArtifacts
  Requests,         \* requests to the gateway
  None              \* no such object

Names == 1 .. MaxNames

\* Files with their contents; a hash stands for what is hashed.
Blobs == UNION {[S -> Bodies] : S \in SUBSET Names}

\* What decodes as a manifest that lists its hashes; None is the hash of no entry.
Manifests == [artifacts : Blobs, contentHash : Seq(Bodies \cup {None})]

\* The scope of a key, a session or an envelope.
Scopes == [job : Jobs, attempt : Attempts]

ASSUME JobOfAssumption == JobOf \in [Attempts -> Jobs]
ASSUME NamesAssumption ==
  MaxNames \in Nat /\ {ManifestName, ResultName} \subseteq Names /\ ManifestName # ResultName
ASSUME BatchAssumption == Batches \subseteq Blobs
ASSUME NoneAssumption  == None \notin Bodies /\ None \notin Scopes /\ None \notin Commits
ASSUME IdsAssumption   == Commits \cap Requests = {}

VARIABLES
  store,       \* the objects of each attempt, by name
  sessions,    \* attempts whose session token the gateway would accept
  request,     \* the requests the gateway has let in
  commit,      \* the calls of CommitArtifacts
  validation,  \* a call of ValidateCommit
  writers,     \* history: who has put objects of each attempt
  visible      \* history: the commit whose manifest is stored for each attempt

objects == <<store, writers, visible>>
vars == <<objects, sessions, request, commit, validation>>

Scope(a) == [job |-> JobOf[a], attempt |-> a]

\* Files are taken in the order of their names.
IsFirst(n, todo) == \A k \in todo : n <= k

-----------------------------------------------------------------------------
(* CommitArtifacts.                                                         *)

NoCommit == [pc |-> "new", attempt |-> None, blobs |-> <<>>, todo |-> {}]

\* The hashes of all entries in the order of their keys.
computeManifestContentHash(entries) ==
  LET keys == SelectSeq([n \in Names |-> n], LAMBDA n : n \in DOMAIN entries)
  IN  [i \in DOMAIN keys |-> entries[keys[i]]]

\* Seeded fault: the hash is computed before the entries are filled in.
ManifestOfNone(blobs) ==
  [artifacts |-> blobs, contentHash |-> computeManifestContentHash(<<>>)]

Manifest(blobs) == [artifacts |-> blobs, contentHash |-> computeManifestContentHash(blobs)]

ASSUME ManifestAssumption ==
  \A blobs \in Batches : Manifest(blobs) \in Manifests /\ Manifest(blobs) # None

StartCommit(c) ==
  /\ commit[c].pc = "new"
  /\ \E a \in Attempts, blobs \in Batches :
       commit' = [commit EXCEPT ![c] = [pc |-> "put", attempt |-> a, blobs |-> blobs,
                                        todo |-> DOMAIN blobs]]
  /\ UNCHANGED <<objects, sessions, request, validation>>

\* from is the commit whose manifest is put, if it is one.
Put(who, a, n, content, from) ==
  /\ store' = [store EXCEPT ![a][n] = content]
  /\ writers' = [writers EXCEPT ![a] = @ \cup {who}]
  /\ visible' = IF n = ManifestName THEN [visible EXCEPT ![a] = from] ELSE visible

PutBlob(c) ==
  /\ commit[c].pc = "put"
  /\ \E n \in commit[c].todo :
       /\ IsFirst(n, commit[c].todo)
       /\ Put(c, commit[c].attempt, n, commit[c].blobs[n], None)
       /\ commit' = [commit EXCEPT ![c].todo = @ \ {n}]
  /\ UNCHANGED <<sessions, request, validation>>

\* Seeded fault: the manifest is written while files are still to come.
ManifestEarly(c) == commit[c].pc = "put" /\ Cardinality(commit[c].todo) <= 1

ManifestLast(c) == commit[c].pc = "put" /\ commit[c].todo = {}

\* All files are found, and the manifest makes them visible; the call may report an error
\* although the manifest was stored.
PutManifest(c) ==
  /\ ManifestLast(c)
  /\ Put(c, commit[c].attempt, ManifestName, Manifest(commit[c].blobs), c)
  /\ \E returned \in {"done", "failed"} : commit' = [commit EXCEPT ![c].pc = returned]
  /\ UNCHANGED <<sessions, request, validation>>

\* A file cannot be read, a call fails, or the caller dies.
CommitFails(c) ==
  /\ commit[c].pc = "put"
  /\ commit' = [commit EXCEPT ![c].pc = "failed"]
  /\ UNCHANGED <<objects, sessions, request, validation>>

-----------------------------------------------------------------------------
(* ValidateCommit.                                                          *)

NoObjects == [n \in Names |-> None]

NoValidation == [pc |-> "idle", attempt |-> None, manifest |-> None, todo |-> {},
                 read |-> NoObjects, from |-> None, quiet |-> FALSE]

Validating(v) == validation' = v /\ UNCHANGED <<objects, sessions, request, commit>>

\* Nobody but commit c has written for attempt a, and c returned without error; none of
\* its artifacts has the name of the manifest.
Undisturbed(c, a) ==
  writers[a] = {c} /\ commit[c].pc = "done" /\ ManifestName \notin DOMAIN commit[c].blobs

\* What is no manifest is an error, or a manifest whose hash cannot match.  read, from and
\* quiet are histories: the contents it checked; the commit that put the manifest, if one
\* did; and that this commit was undisturbed.
BeginValidation(a) ==
  LET found == store[a][ManifestName]
      begun == [pc |-> "checking", attempt |-> a, manifest |-> found, todo |-> {},
                read |-> NoObjects, from |-> visible[a],
                quiet |-> \E c \in Commits : Undisturbed(c, a)]
  IN  /\ validation.pc = "idle"
      /\ IF found \in Manifests
           THEN Validating([begun EXCEPT !.todo = DOMAIN found.artifacts])
           ELSE Validating([begun EXCEPT !.pc = "refused"])

\* Seeded fault: an artifact that exists is good.
Exists(data, hash) == data # None

HashMatches(data, hash) == data # None /\ data = hash

CheckArtifact ==
  /\ validation.pc = "checking"
  /\ \E n \in validation.todo :
       LET content == store[validation.attempt][n] IN
       /\ IsFirst(n, validation.todo)
       /\ IF HashMatches(content, validation.manifest.artifacts[n])
            THEN Validating([validation EXCEPT !.todo = @ \ {n}, !.read[n] = content])
            ELSE Validating([validation EXCEPT !.pc = "refused"])

EndValidation ==
  /\ validation.pc = "checking" /\ validation.todo = {}
  /\ LET m == validation.manifest
     IN  Validating([validation EXCEPT
           !.pc = IF computeManifestContentHash(m.artifacts) = m.contentHash
                    THEN "valid" ELSE "refused"])

\* A call fails, or the answer was given and another validation can begin.
LeaveValidation ==
  /\ validation.pc # "idle"
  /\ Validating(NoValidation)

-----------------------------------------------------------------------------
(* The gateway.                                                             *)

NoRequest == [pc |-> "new", session |-> None, attempt |-> None, name |-> 0, body |-> None]

\* A request under the session of an attempt that has been let in, or is over.
Admitted(session, a, n, body) ==
  [pc |-> "admitted", session |-> session, attempt |-> a, name |-> n, body |-> body]

Served(session) == [NoRequest EXCEPT !.pc = "served", !.session = session]

\* Further tokens of the same attempt would change nothing.
CreateSession(a) ==
  /\ a \notin sessions
  /\ sessions' = sessions \cup {a}
  /\ UNCHANGED <<objects, request, commit, validation>>

SessionExpires(a) ==
  /\ a \in sessions
  /\ sessions' = sessions \ {a}
  /\ UNCHANGED <<objects, request, commit, validation>>

\* Seeded fault: the session may use the keys of every attempt of its job.
AuthorizeJob(session, requested) == session.job = requested.job

AuthorizeScope(session, requested) == session = requested

\* A request with the token of attempt a, for the keys of a scope, is let in.  It goes
\* on although the session may expire before anything is put.
Admit(r, a, scope, admitted) ==
  /\ request[r].pc = "new"
  /\ a \in sessions
  /\ AuthorizeScope(Scope(a), scope)
  /\ request' = [request EXCEPT ![r] = admitted]
  /\ UNCHANGED <<objects, sessions, commit, validation>>

\* The key of the artifact names the scope, and any object in it.
HandleUpload(r) ==
  \E a \in Attempts, scope \in Scopes, n \in Names, body \in Bodies :
    Admit(r, a, scope, Admitted(a, scope.attempt, n, body))

\* The envelope names the scope; it is stored under the key of the session.
HandleResult(r) ==
  \E a \in Attempts, envelope \in Scopes :
    Admit(r, a, envelope, Admitted(a, a, ResultName, envelope))

\* What was let in is stored.
PutRequest(r) ==
  /\ request[r].pc = "admitted"
  /\ Put(r, request[r].attempt, request[r].name, request[r].body, None)
  /\ request' = [request EXCEPT ![r] = Served(@.session)]
  /\ UNCHANGED <<sessions, commit, validation>>

\* The object store refuses, or the client gives up and cancels the request.
RequestFails(r) ==
  /\ request[r].pc = "admitted"
  /\ request' = [request EXCEPT ![r] = Served(@.session)]
  /\ UNCHANGED <<objects, sessions, commit, validation>>

-----------------------------------------------------------------------------

Init ==
  /\ store = [a \in Attempts |-> NoObjects]
  /\ sessions = {} /\ request = [r \in Requests |-> NoRequest]
  /\ commit = [c \in Commits |-> NoCommit]
  /\ validation = NoValidation
  /\ writers = [a \in Attempts |-> {}] /\ visible = [a \in Attempts |-> None]

Next ==
  \/ \E c \in Commits : StartCommit(c) \/ PutBlob(c) \/ PutManifest(c) \/ CommitFails(c)
  \/ CheckArtifact \/ EndValidation \/ LeaveValidation
  \/ \E a \in Attempts : BeginValidation(a) \/ CreateSession(a) \/ SessionExpires(a)
  \/ \E r \in Requests : HandleUpload(r) \/ HandleResult(r) \/ PutRequest(r) \/ RequestFails(r)

Spec == Init /\ [][Next]_vars

-----------------------------------------------------------------------------
(* Properties.                                                              *)

\* Objects hold contents, manifests or envelopes; a commit or validation that is under
\* way has left to do only files that it names.
TypeOK ==
  /\ store \in [Attempts -> [Names -> Bodies \cup Manifests \cup Scopes \cup {None}]]
  /\ sessions \subseteq Attempts
  /\ \A r \in Requests : request[r].pc = "admitted" =>
       request[r].attempt \in Attempts /\ request[r].name \in Names
  /\ \A c \in Commits :
       \/ commit[c] = NoCommit
       \/ /\ commit[c].attempt \in Attempts /\ commit[c].blobs \in Batches
          /\ commit[c].todo \subseteq DOMAIN commit[c].blobs
  /\ \/ validation = NoValidation
     \/ /\ validation.attempt \in Attempts
        /\ validation.todo \subseteq Names
  /\ writers \in [Attempts -> SUBSET (Commits \cup Requests)]
  /\ visible \in [Attempts -> Commits \cup {None}]

\* The manifest of a commit names only files that are stored: manifest-last holds although
\* commits of the same attempt overlap, fail half way and are repeated.
ManifestNamesStored ==
  \A a \in Attempts : visible[a] # None =>
    \A n \in DOMAIN store[a][ManifestName].artifacts : store[a][n] # None

\* A validation that starts from the manifest of a commit, and succeeds, has read exactly
\* the files of that commit, which had put them all: never a mixture of two, whatever is
\* committed and uploaded, under whatever names, while it reads.
ValidIsOneCommit ==
  validation.pc = "valid" /\ validation.from # None =>
    LET made == commit[validation.from] IN
    /\ made.attempt = validation.attempt /\ made.todo = {}
    /\ \A n \in Names :
         validation.read[n] = IF n \in DOMAIN made.blobs THEN made.blobs[n] ELSE None

\* A commit that returned without error, has no artifact called manifest.json and was not
\* disturbed is valid; a result or an upload of the same attempt disturbs it.
LoneCommitIsValid ==
  validation.pc = "refused" /\ validation.quiet
    => \E x, y \in writers[validation.attempt] : x # y

\* The gateway writes for an attempt only what came under a session of that attempt,
\* although the key comes from the request of an upload, the envelope from that of a
\* result, and the session may have expired when the object is put.
RequestsStayInScope ==
  \A a \in Attempts : \A r \in writers[a] \cap Requests : request[r].session = a

=============================================================================
