------------------------------- MODULE CliDeploy ------------------------------
(***************************************************************************)
(* `aether deploy' against the registry: the uploads of commands/deploy.rs *)
(* as clients of ArtifactRegistry.  A CLI has one request in flight at a   *)
(* time, in the slot of its own, and checks every answer before it goes on;*)
(* between its requests other CLIs, the pending GC and a Ctrl-C may run.   *)
(*                                                                         *)
(* The registry finalizes a row without looking whether the object is      *)
(* there; that stored artifacts can be fetched is the work of this client. *)
(***************************************************************************)
EXTENDS ArtifactRegistry

CONSTANTS
    Projects,   \* what CLIs deploy: an archive, its digest and how it is uploaded
    CutBodies   \* what is left of archives in a PUT whose file cannot be read to its end,
                \* if the store takes such a body: it has no announced length; S3 wants one

\* The digest hashes the packaged files, the archive is their tar.gz: a renamed
\* file or another compression level is another archive of the same digest.
Project == [app : Apps, digest : Digests, archive : Contents, multipart : BOOLEAN]

IdemKey(p) == CHOOSE k \in IdemKeys : k[2] = p.digest  \* "idem-<digest>"

\* The body of a request of p's CLI.
Body(p, kind, upload) ==
    LET last == kind \in {"complete", "multipart"} IN
    [kind |-> kind, app |-> p.app, digest |-> p.digest, upload |-> upload, signed |-> FALSE,
     size |-> IF last THEN SizeOf[p.archive] ELSE 0, idem |-> IF last THEN IdemKey(p) ELSE None]

Opening(p)         == Body(p, IF p.multipart THEN "init" ELSE "presign", None)
Closing(p, upload) == Body(p, IF p.multipart THEN "multipart" ELSE "complete", upload)

\* Only CLIs write to this bucket: an artifact of POST /artifacts has a file instead.
ASSUME ProjectsAssumption ==
    /\ Legacy = {}
    /\ Projects \subseteq Project /\ None \notin Projects
    /\ CutBodies \subseteq Contents
    /\ \A p \in Projects : /\ <<<<p.app, p.digest>>, p.archive>> \in Puts
                           /\ \E k \in IdemKeys : k[2] = p.digest
                           /\ Opening(p) \in Calls
                           /\ \A u \in IF p.multipart THEN Uploads ELSE {None} :
                                Closing(p, u) \in Calls

VARIABLES
    cli,    \* slot -> the CLI that uses it, NoCli when none does
    posted  \* POST /deployments that arrived: <<application, artifact_url>>

cliVars == <<vars, cli, posted>>

Phases == {"none", "opening", "put", "part", "putPart", "uploaded", "closing", "deploy"}
Cli    == [at : Phases, project : Projects \cup {None}, key : StorageKeys \cup {None},
           upload : Uploads \cup {None}]
NoCli  == [at |-> "none", project |-> None, key |-> None, upload |-> None]

Step(r, state) == cli' = [cli EXCEPT ![r] = state] /\ UNCHANGED posted
Move(r, phase) == Step(r, IF phase = "none" THEN NoCli ELSE [cli[r] EXCEPT !.at = phase])

\* The request is sent, or refused at once.
Send(r, c, state) ==
    \/ Receive(r, c) /\ Step(r, state)
    \/ Refuse(r, c) /\ Step(r, NoCli)

Deploy(r, p) ==
    /\ cli[r].at = "none"
    /\ Send(r, Opening(p), [at |-> "opening", project |-> p, key |-> None, upload |-> None])

KeyToUpload(r) ==  \* faulty: no storage_key in the answer for a stored artifact
    CASE pc[r] = "lookup" /\ IsStored(RowOf(call[r])) -> None
      [] pc[r] = "lookup" /\ ~IsStored(RowOf(call[r])) -> RowOf(call[r]).key
      [] OTHER -> OwnKey(call[r])

\* The storage key of an opening answer: the row's when the row was there.
AnsweredKey(r) == IF pc[r] = "lookup" THEN RowOf(call[r]).key ELSE OwnKey(call[r])

\* What the CLI makes of the answer to the opening request.
OpeningAnswer(r, code) ==
    LET known == [cli[r] EXCEPT !.key = AnsweredKey(r)] IN
    CASE code = "url"    -> [known EXCEPT !.at = "put"]
      [] code = "exists" -> [known EXCEPT !.at = "deploy"]
      [] code = "upload" -> [known EXCEPT !.at = "part", !.upload = seen[r].upload]
      [] OTHER           -> NoCli

AcceptedAlways(code) == TRUE  \* faulty: comp_resp.status() not looked at
Accepted(code) == code \in {"stored", "duplicate"}

\* The handler takes a step; if that ends the request, the CLI reads the answer.
Handled(r) ==
    /\ HandlerStep(r)
    /\ LET code == answer'[r].code IN
       Step(r, CASE pc'[r] # "done" \/ cli[r].at = "none" -> cli[r]
                 [] pc'[r] = "done" /\ cli[r].at = "opening" -> OpeningAnswer(r, code)
                 [] pc'[r] = "done" /\ cli[r].at = "closing" ->
                      IF Accepted(code) THEN [cli[r] EXCEPT !.at = "deploy"] ELSE NoCli)

PutFailsUnseen(r) == "uploaded"  \* faulty: put_resp.status() not looked at
PutFails(r)       == "none"

\* PUT to the presigned URL; the object may be there already.  A read error ends
\* the streamed body like the end of the file.
Put(r) ==
    /\ cli[r].at = "put"
    /\ \/ /\ \E body \in {cli[r].project.archive} \cup CutBodies :
               \/ PutObject(cli[r].key, body)
               \/ objects[cli[r].key] = body /\ UNCHANGED vars
          /\ Move(r, "uploaded")
       \/ UNCHANGED vars /\ Move(r, PutFails(r))

\* The part loop, with the archive as its one part.
AskPartUrl(r) ==
    /\ cli[r].at = "part"
    /\ \/ PresignPart(cli[r].upload) /\ Move(r, "putPart")
       \/ UNCHANGED vars /\ Move(r, "none")

PutThePart(r) ==
    /\ cli[r].at = "putPart"
    /\ \/ PutPart(cli[r].upload, cli[r].project.archive) /\ Move(r, "uploaded")
       \/ UNCHANGED vars /\ Move(r, "none")

Complete(r) ==
    /\ cli[r].at = "uploaded"
    /\ Send(r, Closing(cli[r].project, cli[r].upload), [cli[r] EXCEPT !.at = "closing"])

\* artifact_url is the storage key of the opening answer; the outcome is ignored.
PostDeployment(r) ==
    /\ cli[r].at = "deploy"
    /\ cli' = [cli EXCEPT ![r] = NoCli]
    /\ posted' \in {posted, posted \cup {<<cli[r].project.app, cli[r].key>>}}
    /\ UNCHANGED vars

\* Ctrl-C, or the connection breaks.  The handler of a request in flight is
\* dropped, or goes on for nobody.
Kill(r) ==
    /\ cli[r].at # "none"
    /\ Abort(r) \/ UNCHANGED vars
    /\ Move(r, "none")

-----------------------------------------------------------------------------
CliInit ==
    /\ Init
    /\ cli = [r \in Reqs |-> NoCli]
    /\ posted = {}

CliStep(r) ==
    \/ \E p \in Projects : Deploy(r, p)
    \/ Handled(r) \/ Put(r) \/ AskPartUrl(r) \/ PutThePart(r) \/ Complete(r)
    \/ PostDeployment(r) \/ Kill(r)

CliNext ==
    \/ \E r \in Reqs : CliStep(r)
    \/ \E i \in RowIds : PendingGC(i) /\ UNCHANGED <<cli, posted>>
    \/ \E a \in Apps : CreateApp(a) /\ UNCHANGED <<cli, posted>>

CliSpec == CliInit /\ [][CliNext]_cliVars

-----------------------------------------------------------------------------
\* Every variable has its type: a deployment names a storage key; a CLI that
\* talks has a project, and it is waiting for the request in its slot or gone.
CliTypeOK ==
    /\ cli \in [Reqs -> Cli]
    /\ posted \subseteq Apps \X StorageKeys
    /\ \A r \in Reqs : /\ cli[r].at # "none" => cli[r].project # None
                       /\ pc[r] # "done" => cli[r].at \in {"opening", "closing", "none"}

\* k holds an archive that some project packages under k's digest, or one that was
\* cut off in its PUT, should the store take that.
Archived(k) ==
    \/ \E p \in Projects : p.digest = k[2] /\ objects[k] = p.archive
    \/ objects[k] \in CutBodies

\* Complete never checks that there is an object: it is the order of the CLI's
\* requests, whichever fail, are aborted or race with another CLI's and with
\* the GC, that keeps rows without an archive from being stored.  (Between two
\* applications that package the same files it does not: CheckedKeyIsStored.)
StoredIsRetrievable ==
    \A d \in Digests : artifacts[d].status = "stored" => Archived(artifacts[d].key)

\* A deployment is requested only of a digest that is stored, by the key its
\* archive is under; without retention both stay.
DeployedIsRetrievable ==
    Retain = 0 => \A q \in posted : artifacts[q[2][2]].status = "stored" /\ Archived(q[2])

\* README 4.8: completion verifies the object's hash if so configured; an archive
\* uploaded by the CLI under its own digest passes that verification.
PackagedDigestAccepted ==
    [][\A r \in Reqs :
         cli[r].at = "closing" /\ pc[r] = "hash" /\ pc'[r] = "done"
           => objects[cli[r].key] # cli[r].project.archive \/ answer'[r].code # "rejected"]_cliVars
===============================================================================
