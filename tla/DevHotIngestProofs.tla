-------------------------- MODULE DevHotIngestProofs --------------------------
(***************************************************************************)
(* Whatever the bucket answers, and wherever the script is killed, the     *)
(* workspace of a dev-hot pod holds files of verified archives only, and   *)
(* the archive that CUR names whole: the argument is that between the      *)
(* checksum and tar nothing else writes the archive or the digest it was   *)
(* checked against (Checked), which is never the one CUR names (Wanted).   *)
(***************************************************************************)
EXTENDS DevHotIngest, TLAPS, FiniteSetTheorems

Checked ==
    /\ at \in {"download", "verify", "unpack"} => want \in Digests
    /\ at = "unpack" => file = want

HotInv == TypeOK /\ IsFiniteSet(seen) /\ Checked /\ OnlyVerifiedUnpacked

-----------------------------------------------------------------------------
\* A marker line is appended to the tail of the log that can still be read.
LEMMA EchoTyped ==
    ASSUME FetcherTypeOK, NEW marker \in {"ok", "download", "checksum"}, NEW d \in Digests \cup {None},
           Echo(marker, d)
    PROVE  log' \in Seq(Lines) /\ Len(log') <= TailLines
<1>1. PICK t \in Durations :
        log' = Append(IF Len(log) < TailLines THEN log ELSE Tail(log),
                      [marker |-> marker, digest |-> d, ms |-> t])
  BY DEF Echo
<1>2. [marker |-> marker, digest |-> d, ms |-> t] \in Lines
  BY DEF Lines
<1> DEFINE line == [marker |-> marker, digest |-> d, ms |-> t]
           kept == IF Len(log) < TailLines THEN log ELSE Tail(log)
<1>3. log \in Seq(Lines) /\ Len(log) <= TailLines /\ TailLines \in Nat \ {0}
  BY FetcherAssumption DEF FetcherTypeOK
<1>4. kept \in Seq(Lines) /\ Len(kept) < TailLines
  BY <1>3
<1>5. log' = Append(kept, line)
  BY <1>1
<1> HIDE DEF kept, line
<1> QED
  BY <1>2, <1>3, <1>4, <1>5 DEF line

\* An extraction, cut off or not, writes what was checked.
LEMMA PartlyUnpackedTyped ==
    ASSUME FetcherTypeOK, Checked, OnlyVerifiedUnpacked, at = "unpack", PartlyUnpacked
    PROVE  tree' \in [Files -> Contents \cup {Torn, None}] /\ OnlyVerifiedUnpacked'
<1>1. file \in Digests
  BY DEF Checked
<1>2. \A f \in Files : tree'[f] \in {file, Torn, tree[f]}
  BY DEF PartlyUnpacked
<1>3. tree' \in [Files -> Contents \cup {Torn, None}]
  BY <1>1 DEF PartlyUnpacked, FetcherTypeOK, Contents
<1> QED
  BY <1>1, <1>2, <1>3 DEF OnlyVerifiedUnpacked

LEMMA ScriptStepInv ==
    ASSUME FetcherTypeOK, Checked, OnlyVerifiedUnpacked, ScriptStep \/ Kill
    PROVE  FetcherTypeOK' /\ Checked' /\ OnlyVerifiedUnpacked'
<1>1. faults' \in 0..MaxFaults
  <2>1. UNCHANGED faults \/ Fault
    BY DEF ScriptStep, Start, Poll, Download, Verify, Unpack, Kill, Sound
  <2> QED
    BY <2>1, FetcherAssumption DEF FetcherTypeOK, Fault
<1>2. CASE Start
  BY <1>1, <1>2, FetcherAssumption DEF Start, Goto, Inside, FetcherTypeOK, Checked, OnlyVerifiedUnpacked
<1>3. CASE Poll
  BY <1>1, <1>3 DEF Poll, CurWhileFetching, Goto, Inside, FetcherTypeOK, Checked, OnlyVerifiedUnpacked
<1>4. CASE Download
  <2>1. log' \in Seq(Lines) /\ Len(log') <= TailLines
    BY <1>4, EchoTyped DEF Download, FetcherTypeOK
  <2>2. file' \in Contents \cup {None} /\ at' \in {"verify", "poll"} /\ want \in Digests
    BY <1>4 DEF Download, Goto, FetcherTypeOK, Checked
  <2> QED
    BY <1>1, <1>4, <2>1, <2>2 DEF Download, Inside, FetcherTypeOK, Checked, OnlyVerifiedUnpacked
<1>5. CASE Verify
  <2>1. log' \in Seq(Lines) /\ Len(log') <= TailLines
    BY <1>5, EchoTyped DEF Verify, FetcherTypeOK
  <2>2. at' = "poll" \/ (at' = "unpack" /\ file = want /\ want \in Digests)
    BY <1>5 DEF Verify, Verifies, Goto, Checked
  <2> QED
    BY <1>1, <1>5, <2>1, <2>2 DEF Verify, Inside, FetcherTypeOK, Checked, OnlyVerifiedUnpacked
<1>6. CASE Unpack
  <2>1. log' \in Seq(Lines) /\ Len(log') <= TailLines /\ cur' \in Digests \cup {None}
    BY <1>6, EchoTyped DEF Unpack, FetcherTypeOK, Checked
  <2>2. tree' \in [Files -> Contents \cup {Torn, None}] /\ OnlyVerifiedUnpacked'
    <3>1. CASE Fault /\ PartlyUnpacked
      BY <1>6, <3>1, PartlyUnpackedTyped DEF Unpack
    <3>2. CASE tree' = [f \in Files |-> IF f \in FilesOf[want] THEN file ELSE tree[f]]
      BY <1>6, <3>2 DEF Unpack, FetcherTypeOK, Checked, Contents, OnlyVerifiedUnpacked
    <3> QED
      BY <1>6, <3>1, <3>2 DEF Unpack
  <2>3. at' = "poll"
    BY <1>6 DEF Unpack, Goto
  <2> QED
    BY <1>1, <1>6, <2>1, <2>2, <2>3 DEF Unpack, Inside, FetcherTypeOK, Checked
<1>7. CASE Kill
  <2>1. tree' \in [Files -> Contents \cup {Torn, None}] /\ OnlyVerifiedUnpacked'
    BY <1>7, PartlyUnpackedTyped DEF Kill, FetcherTypeOK, OnlyVerifiedUnpacked
  <2>2. at' = "down"
    BY <1>7 DEF Kill, Goto
  <2> QED
    BY <1>1, <1>7, <2>1, <2>2 DEF Kill, Inside, FetcherTypeOK, Checked
<1> QED
  BY <1>2, <1>3, <1>4, <1>5, <1>6, <1>7 DEF ScriptStep

LEMMA WorldInv ==
    ASSUME FetcherTypeOK, Checked, OnlyVerifiedUnpacked, World
    PROVE  FetcherTypeOK' /\ Checked' /\ OnlyVerifiedUnpacked'
<1>1. /\ changes' \in 0..MaxChanges /\ served' \in [Digests -> Contents \cup {None}]
      /\ ann' \in Digests \cup {None}
  BY FetcherAssumption DEF World, FetcherTypeOK
<1> QED
  BY <1>1 DEF World, shell, FetcherTypeOK, Checked, OnlyVerifiedUnpacked

-----------------------------------------------------------------------------
\* The hashes of a pod stay within the cap.
LEMMA HandleLineTyped ==
    ASSUME TypeOK, IsFiniteSet(seen), HandleLine
    PROVE  /\ text' \in Seq(Lines) /\ Len(text') <= TailLines
           /\ seen' \subseteq Lines /\ IsFiniteSet(seen') /\ Cardinality(seen') <= Cap
<1>1. text \in Seq(Lines) /\ text # <<>> /\ Len(text) <= TailLines /\ TailLines \in Nat
  BY FetcherAssumption DEF TypeOK, HandleLine
<1>2. Head(text) \in Lines /\ text' \in Seq(Lines) /\ Len(text') <= TailLines
  BY <1>1 DEF HandleLine, Rest
<1>3. /\ IsFiniteSet(WithLine) /\ WithLine \subseteq Lines /\ Cardinality(WithLine) \in Nat
      /\ Cardinality(WithLine) <= Cap + 1
  <2>1. IsFiniteSet(WithLine) /\ Cardinality(WithLine) \in {Cardinality(seen), Cardinality(seen) + 1}
    BY FS_AddElement DEF WithLine
  <2>2. Cardinality(seen) \in Nat /\ Cardinality(seen) <= Cap /\ Cap \in Nat
    BY IngestAssumption, FS_CardinalityType DEF TypeOK
  <2>3. WithLine \subseteq Lines
    BY <1>2 DEF TypeOK, WithLine
  <2> QED
    BY <2>1, <2>2, <2>3
<1>4. CASE UNCHANGED seen \/ (Cardinality(WithLine) <= Cap /\ seen' = WithLine)
  BY <1>2, <1>3, <1>4 DEF TypeOK
<1>5. ASSUME NEW drain \in SUBSET WithLine, Cardinality(drain) = Drained, seen' = WithLine \ drain
      PROVE  seen' \subseteq Lines /\ IsFiniteSet(seen') /\ Cardinality(seen') <= Cap
  <2>1. WithLine \cap drain = drain
    OBVIOUS
  <2>2. IsFiniteSet(seen') /\ Cardinality(seen') = Cardinality(WithLine) - Drained
    BY <1>3, <1>5, <2>1, FS_Difference
  <2> QED
    BY <1>3, <1>5, <2>2, IngestAssumption
<1> QED
  BY <1>2, <1>4, <1>5 DEF HandleLine, ShrunkBy

LEMMA HotInvNext == HotInv /\ [Next]_vars => HotInv'
<1> SUFFICES ASSUME HotInv, [Next]_vars PROVE HotInv'
  OBVIOUS
<1>1. FetcherTypeOK /\ Checked /\ OnlyVerifiedUnpacked /\ TypeOK /\ IsFiniteSet(seen)
  BY DEF HotInv, TypeOK
<1>2. CASE FetcherNext /\ UNCHANGED ingest
  <2>1. FetcherTypeOK' /\ Checked' /\ OnlyVerifiedUnpacked'
    BY <1>1, <1>2, ScriptStepInv, WorldInv DEF FetcherNext
  <2> QED
    BY <1>1, <1>2, <2>1 DEF HotInv, TypeOK, ingest
<1>3. ASSUME UNCHANGED fetcherVars PROVE FetcherTypeOK' /\ Checked' /\ OnlyVerifiedUnpacked'
  BY <1>1, <1>3 DEF fetcherVars, shell, FetcherTypeOK, Checked, OnlyVerifiedUnpacked
<1>4. CASE ReadLog
  BY <1>1, <1>3, <1>4 DEF ReadLog, HotInv, TypeOK, FetcherTypeOK
<1>5. CASE HandleLine
  BY <1>1, <1>3, <1>5, HandleLineTyped DEF HandleLine, HotInv, TypeOK
<1>6. CASE Restart
  <2>1. FetcherTypeOK' /\ Checked' /\ OnlyVerifiedUnpacked'
    BY <1>1, <1>6, FetcherAssumption
    DEF Restart, Fault, Inside, shell, FetcherTypeOK, Checked, OnlyVerifiedUnpacked
  <2>2. text' \in Seq(Lines) /\ Len(text') <= TailLines
    BY <1>6, FetcherAssumption DEF Restart
  <2>3. seen' \subseteq Lines /\ IsFiniteSet(seen') /\ Cardinality(seen') <= Cap
    BY <1>6, IngestAssumption, FS_EmptySet DEF Restart
  <2> QED
    BY <2>1, <2>2, <2>3 DEF HotInv, TypeOK
<1>7. CASE UNCHANGED vars
  BY <1>1, <1>3, <1>7 DEF vars, ingest, HotInv, TypeOK
<1> QED
  BY <1>2, <1>4, <1>5, <1>6, <1>7 DEF Next, IngestStep

LEMMA HotInvInvariant == Spec => []HotInv
<1>1. Init => HotInv
  <2> SUFFICES ASSUME Init PROVE HotInv
    OBVIOUS
  <2>1. FetcherTypeOK
    BY FetcherAssumption DEF Init, FetcherInit, FetcherTypeOK, Contents
  <2>2. text \in Seq(Lines) /\ Len(text) <= TailLines
    BY FetcherAssumption DEF Init
  <2>3. seen \subseteq Lines /\ IsFiniteSet(seen) /\ Cardinality(seen) <= Cap
    BY IngestAssumption, FS_EmptySet DEF Init
  <2> QED
    BY <2>1, <2>2, <2>3 DEF Init, FetcherInit, HotInv, TypeOK, Checked, OnlyVerifiedUnpacked
<1> QED
  BY <1>1, HotInvNext, PTL DEF Spec

\* The variables of the fetcher and of the ingestion keep their types; the hashes a pod has
\* stay within the cap.
THEOREM HotTypesCorrect == Spec => []TypeOK
<1>1. HotInv => TypeOK
  BY DEF HotInv
<1> QED
  BY <1>1, HotInvInvariant, PTL

\* Files come only from archives with the digest they were announced by, whatever URLs answer
\* and wherever an extraction is cut off.
THEOREM VerifiedUnpacked == Spec => []OnlyVerifiedUnpacked
<1>1. HotInv => OnlyVerifiedUnpacked
  BY DEF HotInv
<1> QED
  BY <1>1, HotInvInvariant, PTL

-----------------------------------------------------------------------------
\* What is being fetched is not what is there.
Wanted == at \in {"download", "verify", "unpack"} => want # cur

CurInv == Wanted /\ CurWhole

\* Where an extraction that fails leaves a file, the archive being unpacked has it.
LEMMA FailedExtraction ==
    ASSUME FetcherTypeOK, Checked, CurInv, at = "unpack", PartlyUnpacked, UNCHANGED cur
    PROVE  CurWhole'
<1>1. want \in Digests \ {cur}
  BY DEF Checked, CurInv, Wanted
<1>2. \A f \in Files : f \in FilesOf[want] \/ tree'[f] = tree[f]
  BY DEF PartlyUnpacked
<1>3. cur # None => cur \in Digests /\ FilesOf[cur] \subseteq Files
  BY FetcherAssumption DEF FetcherTypeOK
<1> QED
  BY <1>1, <1>2, <1>3 DEF CurInv, CurWhole

LEMMA CurInvScript ==
    ASSUME FetcherTypeOK, Checked, CurInv, ScriptStep \/ Kill
    PROVE  CurInv'
<1>1. CASE Start
  BY <1>1 DEF Start, Goto, CurInv, Wanted, CurWhole
<1>2. CASE Poll
  BY <1>2 DEF Poll, CurWhileFetching, Goto, CurInv, Wanted, CurWhole
<1>3. CASE Download
  BY <1>3 DEF Download, Goto, CurInv, Wanted, CurWhole
<1>4. CASE Verify
  BY <1>4 DEF Verify, Goto, CurInv, Wanted, CurWhole
<1>5. CASE Unpack
  <2>1. at = "unpack" /\ at' = "poll" /\ want \in Digests /\ file = want
    BY <1>5 DEF Unpack, Goto, Checked
  <2>2. CASE Fault /\ PartlyUnpacked /\ UNCHANGED cur
    BY <2>1, <2>2, FailedExtraction DEF CurInv, Wanted
  <2>3. CASE /\ tree' = [f \in Files |-> IF f \in FilesOf[want] THEN file ELSE tree[f]]
             /\ cur' = want
    BY <2>1, <2>3, FetcherAssumption DEF CurInv, Wanted, CurWhole
  <2> QED
    BY <1>5, <2>2, <2>3 DEF Unpack
<1>6. CASE Kill
  <2>1. at' = "down" /\ UNCHANGED cur
    BY <1>6 DEF Kill, Goto
  <2>2. CASE at = "unpack"
    BY <1>6, <2>1, <2>2, FailedExtraction DEF Kill, CurInv, Wanted
  <2>3. CASE at # "unpack"
    BY <1>6, <2>1, <2>3 DEF Kill, CurInv, Wanted, CurWhole
  <2> QED
    BY <2>2, <2>3
<1> QED
  BY <1>1, <1>2, <1>3, <1>4, <1>5, <1>6 DEF ScriptStep

LEMMA CurInvNext == HotInv /\ CurInv /\ [Next]_vars => CurInv'
<1> SUFFICES ASSUME HotInv, CurInv, [Next]_vars PROVE CurInv'
  OBVIOUS
<1>1. ASSUME UNCHANGED shell PROVE CurInv'
  BY <1>1 DEF shell, CurInv, Wanted, CurWhole
<1>2. CASE ScriptStep \/ Kill
  BY <1>2, CurInvScript DEF HotInv, TypeOK
<1>3. CASE World
  BY <1>1, <1>3 DEF World
<1>4. UNCHANGED fetcherVars => UNCHANGED shell
  BY DEF fetcherVars
<1>5. CASE IngestStep \/ Restart \/ UNCHANGED vars
  BY <1>1, <1>4, <1>5 DEF IngestStep, ReadLog, HandleLine, Restart, vars
<1> QED
  BY <1>2, <1>3, <1>5 DEF Next, FetcherNext

\* CUR is never ahead of tar: wherever the script is cut off, the archive CUR names is in
\* /workspace to its last file, but for files shared with an archive that failed since.
THEOREM CurNeverAhead == Spec => []CurWhole
<1>1. Init => CurInv
  BY DEF Init, FetcherInit, CurInv, Wanted, CurWhole
<1>2. CurInv => CurWhole
  BY DEF CurInv
<1> QED
  BY <1>1, <1>2, CurInvNext, HotInvInvariant, PTL DEF Spec
===============================================================================
