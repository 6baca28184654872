----------------------------- MODULE DevHotFetcher -----------------------------
(***************************************************************************)
(* The fetcher sidecar of a dev-hot pod: a shell loop that polls the       *)
(* annotations of its pod and unpacks the artifact they name over          *)
(* /workspace.  The script runs under set -euo pipefail, so a command that *)
(* fails outside of a condition ends it; the kubelet starts it again.      *)
(*                                                                         *)
(* A digest names the content it hashes and, as each artifact has a URL of *)
(* its own, that URL.  What annotates the pod and what fills the bucket is *)
(* outside of the code: the manifest annotates the Deployment only.        *)
(***************************************************************************)
EXTENDS Naturals, Sequences, FiniteSets

CONSTANTS
    Digests,     \* the artifacts that may be annotated
    Files,       \* paths in the archives
    FilesOf,     \* digest -> the files of its archive
    Junk,        \* a content that is no such archive
    Torn,        \* what a file is whose extraction was cut off
    None,
    Durations,   \* values of ms= in a marker line
    TailLines,   \* lines of the log that are ever read again (LogParams)
    MaxChanges,  \* bound: changes of the annotations and of the bucket
    MaxFaults    \* bound: failing commands, kills

Contents == Digests \cup {Junk}
Lines    == [marker : {"ok", "download", "checksum"}, digest : Digests \cup {None}, ms : Durations]

ASSUME FetcherAssumption ==
    /\ FilesOf \in [Digests -> SUBSET Files]
    /\ {Junk, Torn, None} \cap Digests = {} /\ Cardinality({Junk, Torn, None}) = 3
    /\ TailLines \in Nat \ {0} /\ MaxChanges \in Nat /\ MaxFaults \in Nat

VARIABLES
    ann,     \* the digest in the pod's annotations, None while they are not there
    served,  \* digest -> what its artifact URL answers, None for an error
    at,      \* the command the script is at, "down" while it does not run
    cur,     \* CUR
    want,    \* DIGEST
    file,    \* app.tar.gz
    tree,    \* /workspace: file -> the artifact it comes from
    log,     \* the last TailLines marker lines of the container
    changes, faults

shell       == <<at, cur, want, file, tree, log>>
fetcherVars == <<ann, served, shell, changes, faults>>

Unpacked(d) == \A f \in FilesOf[d] : tree[f] = d

Fault  == faults < MaxFaults /\ faults' = faults + 1
Sound  == UNCHANGED faults
Inside == UNCHANGED <<ann, served, changes>>

Goto(command) == at' = command

Echo(marker, d) == \E t \in Durations :
    LET line == [marker |-> marker, digest |-> d, ms |-> t] IN
    log' = Append(IF Len(log) < TailLines THEN log ELSE Tail(log), line)

-----------------------------------------------------------------------------
\* Somebody annotates the pod, uploads or removes an artifact.
World ==
    /\ changes < MaxChanges /\ changes' = changes + 1
    /\ \/ ann' \in Digests \cup {None} /\ UNCHANGED served
       \/ \E d \in Digests, c \in Contents \cup {None} :
             served' = [served EXCEPT ![d] = c] /\ UNCHANGED ann
    /\ UNCHANGED <<shell, faults>>

\* The container (re)starts: CUR is empty, the log new, /workspace as it was.
Start ==
    /\ at = "down"
    /\ Goto("poll") /\ cur' = None /\ want' = None /\ log' = <<>>
    /\ Sound /\ Inside /\ UNCHANGED <<file, tree>>

CurAtOnce(d)        == d    \* faulty: the digest counts as done before it is
CurWhileFetching(d) == cur

\* Without the answer of the API, or without the annotations in it, grep finds
\* nothing and the script ends.
Poll ==
    /\ at = "poll"
    /\ \/ ann = None /\ Goto("down") /\ Sound /\ UNCHANGED <<cur, want>>
       \/ Fault /\ Goto("down") /\ UNCHANGED <<cur, want>>
       \/ ann \notin {None, cur} /\ Goto("download") /\ want' = ann /\ Sound /\ cur' = CurWhileFetching(ann)
    /\ Inside /\ UNCHANGED <<file, tree, log>>

Download ==
    /\ at = "download"
    /\ \/ /\ served[want] # None /\ Sound
          /\ file' = served[want] /\ Goto("verify") /\ UNCHANGED log
       \/ /\ (served[want] = None /\ Sound) \/ Fault
          /\ file' = None /\ Goto("poll") /\ Echo("download", None)
    /\ Inside /\ UNCHANGED <<cur, want, tree>>

VerifiesAny == file # None  \* faulty: any archive will do
Verifies    == file = want

\* sha256sum -c
Verify ==
    /\ at = "verify"
    /\ \/ Verifies /\ Goto("unpack") /\ UNCHANGED log
       \/ ~Verifies /\ Goto("poll") /\ Echo("checksum", None)
    /\ Sound /\ Inside /\ UNCHANGED <<cur, want, file, tree>>

\* Some files are written, one of them perhaps not to its end.
PartlyUnpacked ==
    \E done \in SUBSET FilesOf[want] : \E torn \in SUBSET (FilesOf[want] \ done) :
        /\ Cardinality(torn) <= 1
        /\ tree' = [f \in Files |-> IF f \in done THEN file ELSE IF f \in torn THEN Torn ELSE tree[f]]

\* tar: files of an earlier artifact that this one does not have stay.
Unpack ==
    /\ at = "unpack" /\ Goto("poll")
    /\ \/ /\ tree' = [f \in Files |-> IF f \in FilesOf[want] THEN file ELSE tree[f]]
          /\ cur' = want /\ Echo("ok", want) /\ Sound
       \/ Fault /\ PartlyUnpacked /\ UNCHANGED <<cur, log>>
    /\ Inside /\ UNCHANGED <<want, file>>

\* The container is killed, in the middle of a command perhaps.
Kill ==
    /\ at # "down" /\ Fault /\ Goto("down")
    /\ IF at = "unpack" THEN PartlyUnpacked ELSE UNCHANGED tree
    /\ Inside /\ UNCHANGED <<cur, want, file, log>>

-----------------------------------------------------------------------------
\* The bucket holds what was uploaded; the pod is new.
FetcherInit ==
    /\ ann = None /\ served = [d \in Digests |-> d]
    /\ at = "down" /\ cur = None /\ want = None /\ file = None
    /\ tree = [f \in Files |-> None] /\ log = <<>>
    /\ changes = 0 /\ faults = 0

ScriptStep  == Start \/ Poll \/ Download \/ Verify \/ Unpack
FetcherNext == ScriptStep \/ World \/ Kill

FetcherSpec == FetcherInit /\ [][FetcherNext]_fetcherVars /\ WF_fetcherVars(ScriptStep)

-----------------------------------------------------------------------------
FetcherTypeOK ==
    /\ ann \in Digests \cup {None} /\ served \in [Digests -> Contents \cup {None}]
    /\ at \in {"down", "poll", "download", "verify", "unpack"}
    /\ cur \in Digests \cup {None} /\ want \in Digests \cup {None}
    /\ file \in Contents \cup {None} /\ tree \in [Files -> Contents \cup {Torn, None}]
    /\ log \in Seq(Lines) /\ Len(log) <= TailLines
    /\ changes \in 0..MaxChanges /\ faults \in 0..MaxFaults

\* A digest that stays annotated, with its archive at its URL, gets unpacked and
\* stays so, in spite of downloads of other digests in progress, failed
\* extractions and restarts -- unless CUR already names it, where a failed
\* extraction of another digest in between is never repaired.
AnnotatedUnpacked == \A d \in Digests :
    [](cur # d /\ [](ann = d /\ served[d] = d) => <>[]Unpacked(d))

\* What CUR names is in /workspace to its last file, but for files that it shares with
\* another archive, whose extraction may have failed since: CUR is never ahead of tar.
CurWhole ==
    cur # None => \A f \in FilesOf[cur] :
        tree[f] # cur => \E d \in Digests \ {cur} : f \in FilesOf[d]

\* Files come only from archives with the digest they were announced by.
OnlyVerifiedUnpacked == \A f \in Files : tree[f] = Torn \/ tree[f] \in Digests \cup {None}
===============================================================================
