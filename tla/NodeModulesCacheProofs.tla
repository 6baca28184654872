------------------------ MODULE NodeModulesCacheProofs ------------------------
(***************************************************************************)
(* What the node_modules cache keeps apart, for any number of projects,    *)
(* lockfiles and files.  Keyed says which lockfile every tree belongs to;  *)
(* Clean follows the trees that no incomplete copy or install went into:   *)
(* an entry nobody is filling is whole, a restore from it has copied whole *)
(* files so far, and so has a save.                                        *)
(***************************************************************************)
EXTENDS NodeModulesCache, TLAPS

-----------------------------------------------------------------------------
\* Where a copy reads from, and what a deploy saves and packages.
Sourced == \A r \in Roots :
    /\ at[r] = "restore" => key[r] \in Locks /\ cache[key[r]] # NoTree
    /\ at[r] \in {"lookup", "save", "package"} =>
         /\ lock[r] \in Locks /\ tree[r] # NoTree
         /\ \A f \in Files : tree[r][f] \in {lock[r], None, Torn}
    /\ at[r] = "save" => key[r] = lock[r]

Keyed == TypeOK /\ Sourced /\ CacheKeyed

Finished == \A l \in Locks : cache[l] # NoTree /\ l \notin Unfinished =>
    \A f \in Files : cache[l][f] = l

Restoring == \A r \in Roots : at[r] = "restore" /\ r \notin suspect =>
    /\ key[r] \notin Unfinished
    /\ \A f \in Files \ todo[r] : tree[r] # NoTree /\ tree[r][f] = key[r]

Saving == \A r \in Roots : at[r] = "save" /\ key[r] \notin suspect =>
    /\ r \notin suspect
    /\ \A f \in Files \ todo[r] : cache[key[r]] # NoTree /\ cache[key[r]][f] = key[r]

Installed == \A r \in Roots : at[r] # "restore" /\ r \notin suspect /\ tree[r] # NoTree =>
    \A f \in Files : tree[r][f] \in Locks

Clean == Finished /\ Restoring /\ Saving /\ Installed

-----------------------------------------------------------------------------
\* A tree is not the absence of one.
LEMMA TreesExist == \A t \in Trees : t # NoTree
<1>1. DOMAIN NoTree = {}
  BY DEF NoTree
<1> QED
  BY <1>1, CacheAssumption DEF Trees

\* Writing a file makes a tree of it, and leaves the other files alone.
LEMMA WithTree ==
    ASSUME NEW t \in Trees \cup {NoTree}, NEW f \in Files, NEW x \in Locks \cup {None, Torn}
    PROVE  /\ With(t, f, x) \in Trees
           /\ With(t, f, x) # NoTree
           /\ x # None => With(t, f, x)[f] = x
           /\ x = None => With(t, f, x)[f] = IF t = NoTree THEN None ELSE t[f]
           /\ \A g \in Files \ {f} : With(t, f, x)[g] = IF t = NoTree THEN None ELSE t[g]
<1>1. Empty \in Trees /\ \A u \in Trees : [u EXCEPT ![f] = x] \in Trees
  BY DEF Empty, Trees
<1>2. CASE t = NoTree
  BY <1>1, <1>2, TreesExist DEF With, Empty, Trees
<1>3. CASE t # NoTree
  BY <1>1, <1>3, TreesExist DEF With, Trees
<1> QED
  BY <1>2, <1>3

\* The trees a lockfile's install gives.
LEMMA OfTree == \A l \in Locks : Of(l) \in Trees
BY DEF Of, Trees

-----------------------------------------------------------------------------
\* A file of a restore: the tree changes, the cache does not.
LEMMA RestoreWrites ==
    ASSUME Keyed, NEW r \in Roots, at[r] = "restore", NEW f \in Files,
           NEW x \in Locks \cup {None, Torn}, Write(r, f, x)
    PROVE  /\ UNCHANGED cache
           /\ tree' \in [Roots -> Trees \cup {NoTree}]
           /\ \A q \in Roots \ {r} : tree'[q] = tree[q]
           /\ tree'[r] = With(tree[r], f, x)
<1>1. tree[r] \in Trees \cup {NoTree}
  BY DEF Keyed, TypeOK
<1>2. With(tree[r], f, x) \in Trees
  BY <1>1, WithTree
<1>3. tree' = [tree EXCEPT ![r] = With(tree[r], f, x)] /\ UNCHANGED cache
  BY DEF Write
<1> QED
  BY <1>2, <1>3 DEF Keyed, TypeOK

\* A file of a save: the entry of the key changes, no tree does.
LEMMA SaveWrites ==
    ASSUME Keyed, NEW r \in Roots, at[r] = "save", NEW f \in Files,
           NEW x \in Locks \cup {None, Torn}, Write(r, f, x)
    PROVE  /\ UNCHANGED tree
           /\ key[r] \in Locks
           /\ cache' \in [Locks -> Trees \cup {NoTree}]
           /\ \A l \in Locks \ {key[r]} : cache'[l] = cache[l]
           /\ cache'[key[r]] = With(cache[key[r]], f, x)
<1>1. key[r] \in Locks
  BY DEF Keyed, Sourced
<1>2. cache[key[r]] \in Trees \cup {NoTree}
  BY <1>1 DEF Keyed, TypeOK
<1>3. With(cache[key[r]], f, x) \in Trees
  BY <1>2, WithTree
<1>4. cache' = [cache EXCEPT ![key[r]] = With(cache[key[r]], f, x)] /\ UNCHANGED tree
  BY DEF Write
<1> QED
  BY <1>1, <1>3, <1>4 DEF Keyed, TypeOK

\* Whatever is copied in a save belongs to the key.
LEMMA SaveKeyed ==
    ASSUME Keyed, NEW r \in Roots, at[r] = "save", NEW f \in Files,
           NEW x \in {key[r], None, Torn}, Write(r, f, x)
    PROVE  CacheKeyed'
<1>1. key[r] \in Locks
  BY DEF Keyed, Sourced
<1>2. /\ \A l \in Locks \ {key[r]} : cache'[l] = cache[l]
      /\ cache'[key[r]] = With(cache[key[r]], f, x)
  BY <1>1, SaveWrites
<1>3. cache[key[r]] \in Trees \cup {NoTree} /\ x \in Locks \cup {None, Torn}
  BY <1>1 DEF Keyed, TypeOK
<1>4. /\ cache'[key[r]][f] \in {x, IF cache[key[r]] = NoTree THEN None ELSE cache[key[r]][f]}
      /\ \A g \in Files \ {f} : cache'[key[r]][g] =
           IF cache[key[r]] = NoTree THEN None ELSE cache[key[r]][g]
  BY <1>1, <1>2, <1>3, WithTree
<1>5. \A g \in Files : cache'[key[r]][g] \in {key[r], None, Torn}
  BY <1>1, <1>4 DEF Keyed, CacheKeyed
<1>6. \A l \in Locks : cache'[l] # NoTree => \A g \in Files : cache'[l][g] \in {l, None, Torn}
  BY <1>2, <1>5 DEF Keyed, CacheKeyed
<1> QED
  BY <1>6 DEF CacheKeyed

\* What CopyFile reads.
LEMMA CopiedFile ==
    ASSUME Keyed, NEW r \in Roots, at[r] \in {"restore", "save"}, NEW f \in Files
    PROVE  Source(r)[f] \in {key[r], None, Torn} /\ key[r] \in Locks
<1>1. CASE at[r] = "restore"
  BY <1>1 DEF Source, Keyed, Sourced, CacheKeyed
<1>2. CASE at[r] = "save"
  BY <1>2 DEF Source, Keyed, Sourced
<1> QED
  BY <1>1, <1>2

-----------------------------------------------------------------------------
\* A copy that goes on, or that stops, leaves every tree with its lockfile.
LEMMA CopyKeyed ==
    ASSUME Keyed, NEW r \in Roots, CopyFile(r)
    PROVE  Keyed'
<1>1. PICK f \in todo[r] :
        /\ todo' = [todo EXCEPT ![r] = @ \ {f}]
        /\ IF todo[r] = {f} THEN Goto(r, After(r)) ELSE UNCHANGED at
        /\ Write(r, f, Source(r)[f])
  BY DEF CopyFile, Visited
<1>2. f \in Files /\ at[r] \in {"restore", "save"} /\ UNCHANGED <<lock, key, suspect>>
  BY DEF CopyFile, Keyed, TypeOK
<1>3. Source(r)[f] \in {key[r], None, Torn} /\ key[r] \in Locks
  BY <1>2, CopiedFile
<1>4. CASE at[r] = "restore"
  <2>1. /\ UNCHANGED cache
        /\ tree' \in [Roots -> Trees \cup {NoTree}]
        /\ \A q \in Roots \ {r} : tree'[q] = tree[q]
    BY <1>1, <1>2, <1>3, <1>4, RestoreWrites
  <2>2. at' = at \/ at' = [at EXCEPT ![r] = "install"]
    BY <1>1, <1>4 DEF After, Goto
  <2>3. todo[r] = {f} => at' = [at EXCEPT ![r] = "install"]
    BY <1>1, <1>4 DEF After, Goto
  <2>4. TypeOK'
    BY <1>1, <1>2, <1>4, <2>1, <2>2, <2>3 DEF Keyed, TypeOK
  <2>5. Sourced'
    BY <1>2, <1>4, <2>1, <2>2 DEF Keyed, TypeOK, Sourced
  <2> QED
    BY <2>1, <2>4, <2>5 DEF Keyed, CacheKeyed
<1>5. CASE at[r] = "save"
  <2>1. /\ UNCHANGED tree
        /\ cache' \in [Locks -> Trees \cup {NoTree}]
        /\ \A l \in Locks \ {key[r]} : cache'[l] = cache[l]
        /\ cache'[key[r]] = With(cache[key[r]], f, Source(r)[f])
    BY <1>1, <1>2, <1>3, <1>5, SaveWrites
  <2>2. at' = at \/ at' = [at EXCEPT ![r] = "package"]
    BY <1>1, <1>5 DEF After, Goto
  <2>3. todo[r] = {f} => at' = [at EXCEPT ![r] = "package"]
    BY <1>1, <1>5 DEF After, Goto
  <2>4. TypeOK'
    BY <1>1, <1>2, <1>3, <1>5, <2>1, <2>2, <2>3 DEF Keyed, TypeOK
  <2>5. cache'[key[r]] # NoTree
    BY <1>2, <1>3, <2>1, WithTree DEF Keyed, TypeOK
  <2>6. Sourced'
    BY <1>2, <1>5, <2>1, <2>2, <2>5 DEF Keyed, TypeOK, Sourced
  <2>7. CacheKeyed'
    BY <1>1, <1>2, <1>3, <1>5, SaveKeyed
  <2> QED
    BY <2>4, <2>6, <2>7 DEF Keyed
<1> QED
  BY <1>2, <1>4, <1>5

\* A copy stops in a file, or passes it over: its target is suspect from then on.
Spoilt(r) ==
    /\ at[r] \in {"restore", "save"}
    /\ \E f \in Files, x \in {None, Torn}, next \in {at[r], After(r), "idle"}, rest \in SUBSET Files :
         /\ Write(r, f, x)
         /\ todo' = [todo EXCEPT ![r] = rest] /\ at' = [at EXCEPT ![r] = next]
         /\ key' = [key EXCEPT ![r] = IF next = "idle" THEN None ELSE @]
         /\ rest # {} => next = at[r]
    /\ suspect' = suspect \cup {Target(r)}
    /\ UNCHANGED lock

LEMMA StopSpoils ==
    ASSUME Keyed, NEW r \in Roots, CopyStops(r, After(r)) \/ CopyStops(r, "idle")
    PROVE  Spoilt(r)
BY DEF CopyStops, Spoilt, NoTodo, Goto, Keyed, TypeOK

LEMMA PassSpoils ==
    ASSUME Keyed, NEW r \in Roots, PassOver(r)
    PROVE  Spoilt(r)
<1>1. PICK f \in todo[r] :
        /\ todo' = [todo EXCEPT ![r] = @ \ {f}]
        /\ IF todo[r] = {f} THEN Goto(r, After(r)) ELSE UNCHANGED at
        /\ Write(r, f, None)
  BY DEF PassOver, Visited
<1>2. f \in Files /\ todo[r] \subseteq Files
  BY DEF Keyed, TypeOK
<1>3. PICK rest \in SUBSET Files : rest = todo[r] \ {f}
  BY <1>2
<1>4. PICK next \in {at[r], After(r)} : next = IF rest = {} THEN After(r) ELSE at[r]
  OBVIOUS
<1>5. /\ at' = [at EXCEPT ![r] = next] /\ todo' = [todo EXCEPT ![r] = rest]
      /\ key' = [key EXCEPT ![r] = IF next = "idle" THEN None ELSE @]
  <2>1. next # "idle"
    BY <1>4 DEF PassOver, After
  <2> QED
    BY <1>1, <1>3, <1>4, <2>1 DEF PassOver, Goto, Keyed, TypeOK
<1>6. rest # {} => next = at[r]
  BY <1>4
<1> QED
  BY <1>1, <1>2, <1>5, <1>6 DEF PassOver, Spoilt

LEMMA SpoiltKeyed ==
    ASSUME Keyed, NEW r \in Roots, Spoilt(r)
    PROVE  Keyed'
<1>1. PICK f \in Files, x \in {None, Torn}, next \in {at[r], After(r), "idle"}, rest \in SUBSET Files :
         /\ Write(r, f, x)
         /\ todo' = [todo EXCEPT ![r] = rest] /\ at' = [at EXCEPT ![r] = next]
         /\ key' = [key EXCEPT ![r] = IF next = "idle" THEN None ELSE @]
         /\ rest # {} => next = at[r]
  BY DEF Spoilt
<1>2. /\ at[r] \in {"restore", "save"} /\ UNCHANGED lock
      /\ suspect' = suspect \cup {Target(r)}
  BY DEF Spoilt
<1>3. CASE at[r] = "restore"
  <2>1. /\ UNCHANGED cache
        /\ tree' \in [Roots -> Trees \cup {NoTree}]
        /\ \A q \in Roots \ {r} : tree'[q] = tree[q]
    BY <1>1, <1>2, <1>3, RestoreWrites
  <2>2. next \in {"restore", "install", "idle"} /\ Target(r) = r
    BY <1>3 DEF After, Target
  <2>3. TypeOK'
    <3>1. key' \in [Roots -> Locks \cup {None}] /\ (next # "idle" => key'[r] = key[r])
      BY <1>1 DEF Keyed, TypeOK
    <3>2. /\ at' \in [Roots -> {"idle", "restore", "install", "lookup", "save", "package"}]
          /\ todo' \in [Roots -> SUBSET Files] /\ suspect' \subseteq Roots \cup Locks
      BY <1>1, <1>2, <2>2 DEF Keyed, TypeOK
    <3>3. key[r] # None
      BY <1>3, CacheAssumption DEF Keyed, Sourced
    <3>4. \A q \in Roots : todo'[q] # {} => at'[q] \in {"restore", "save"} /\ key'[q] # None
      BY <1>1, <1>3, <3>1, <3>3 DEF Keyed, TypeOK
    <3> QED
      BY <1>2, <2>1, <3>1, <3>2, <3>4 DEF Keyed, TypeOK
  <2>4. Sourced'
    BY <1>1, <1>2, <1>3, <2>1, <2>2 DEF Keyed, TypeOK, Sourced
  <2> QED
    BY <2>1, <2>3, <2>4 DEF Keyed, CacheKeyed
<1>4. CASE at[r] = "save"
  <2>1. /\ UNCHANGED tree
        /\ key[r] \in Locks
        /\ cache' \in [Locks -> Trees \cup {NoTree}]
        /\ \A l \in Locks \ {key[r]} : cache'[l] = cache[l]
        /\ cache'[key[r]] = With(cache[key[r]], f, x)
    BY <1>1, <1>2, <1>4, SaveWrites
  <2>2. next \in {"save", "package", "idle"} /\ Target(r) = key[r]
    BY <1>4 DEF After, Target
  <2>3. TypeOK'
    BY <1>1, <1>2, <1>4, <2>1, <2>2, CacheAssumption DEF Keyed, TypeOK, Sourced
  <2>4. cache'[key[r]] # NoTree
    BY <1>1, <2>1, WithTree DEF Keyed, TypeOK
  <2>5. Sourced'
    BY <1>1, <1>2, <1>4, <2>1, <2>2, <2>4 DEF Keyed, TypeOK, Sourced
  <2>6. CacheKeyed'
    BY <1>1, <1>2, <1>4, SaveKeyed
  <2> QED
    BY <2>3, <2>5, <2>6 DEF Keyed
<1> QED
  BY <1>2, <1>3, <1>4

\* An install makes the whole tree one of the lockfile it leaves, but for the
\* missing and the torn files it takes for installed.
LEMMA InstallKeyed ==
    ASSUME Keyed, NEW r \in Roots, Install(r)
    PROVE  Keyed'
<1>1. /\ at[r] = "install" /\ at' = [at EXCEPT ![r] = "lookup"]
      /\ UNCHANGED <<cache, key, todo, suspect>>
  BY DEF Install, Goto
<1>2. PICK l \in Locks :
        /\ lock' = [lock EXCEPT ![r] = l]
        /\ \E kept \in SUBSET {f \in Files : tree[r] # NoTree /\ tree[r][f] \in {None, Torn}} :
             tree' = [tree EXCEPT ![r] = [f \in Files |-> IF f \in kept THEN tree[r][f] ELSE l]]
  BY DEF Install
<1>3. PICK kept \in SUBSET {f \in Files : tree[r] # NoTree /\ tree[r][f] \in {None, Torn}} :
        tree' = [tree EXCEPT ![r] = [f \in Files |-> IF f \in kept THEN tree[r][f] ELSE l]]
  BY <1>2
<1> DEFINE new == [f \in Files |-> IF f \in kept THEN tree[r][f] ELSE l]
<1>4. \A f \in Files : new[f] \in {l, None, Torn}
  BY <1>3
<1>5. new \in Trees
  BY <1>4 DEF Trees
<1>6. tree'[r] = new /\ \A q \in Roots \ {r} : tree'[q] = tree[q]
  BY <1>3 DEF Keyed, TypeOK
<1>7. tree' \in [Roots -> Trees \cup {NoTree}]
  BY <1>3, <1>5 DEF Keyed, TypeOK
<1>8. new # NoTree
  BY <1>5, TreesExist
<1>9. TypeOK'
  BY <1>1, <1>2, <1>7 DEF Keyed, TypeOK
<1>10. Sourced'
  BY <1>1, <1>2, <1>4, <1>6, <1>8 DEF Keyed, TypeOK, Sourced
<1> QED
  BY <1>1, <1>9, <1>10 DEF Keyed, CacheKeyed

LEMMA FailedKeyed ==
    ASSUME Keyed, NEW r \in Roots, InstallFails(r)
    PROVE  Keyed'
<1>1. /\ at[r] = "install" /\ at' = [at EXCEPT ![r] = "idle"] /\ suspect' = suspect \cup {r}
      /\ key' = [key EXCEPT ![r] = None] /\ UNCHANGED <<cache, todo>>
  BY DEF InstallFails, Goto
<1>2. PICK l \in Locks, t \in Trees :
        lock' \in {lock, [lock EXCEPT ![r] = l]} /\ tree' = [tree EXCEPT ![r] = t]
  BY DEF InstallFails
<1>3. TypeOK'
  BY <1>1, <1>2 DEF Keyed, TypeOK
<1>4. Sourced'
  BY <1>1, <1>2 DEF Keyed, TypeOK, Sourced
<1> QED
  BY <1>1, <1>3, <1>4 DEF Keyed, CacheKeyed

\* The save's key is the lockfile as the install left it.
LEMMA LookupKeyed ==
    ASSUME Keyed, NEW r \in Roots, Lookup(r)
    PROVE  Keyed'
<1>1. /\ at[r] = "lookup" /\ UNCHANGED <<lock, tree, cache>>
      /\ lock[r] \in Locks
  BY DEF Lookup, Keyed, Sourced
<1>2. CASE cache[lock[r]] = NoTree
  <2>1. /\ at' = [at EXCEPT ![r] = "save"] /\ key' = [key EXCEPT ![r] = lock[r]]
        /\ todo' = [todo EXCEPT ![r] = Files]
        /\ suspect' = IF r \in suspect THEN suspect \cup {lock[r]} ELSE suspect
    BY <1>2 DEF Lookup, KeyOf, Walked, Goto
  <2>2. TypeOK'
    BY <1>1, <2>1, CacheAssumption DEF Keyed, TypeOK
  <2>3. Sourced'
    BY <1>1, <2>1 DEF Keyed, TypeOK, Sourced
  <2> QED
    BY <1>1, <2>2, <2>3 DEF Keyed, CacheKeyed
<1>3. CASE cache[lock[r]] # NoTree
  <2>1. at' = [at EXCEPT ![r] = "package"] /\ UNCHANGED <<key, todo, suspect>>
    BY <1>3 DEF Lookup, KeyOf, Goto
  <2>2. TypeOK' /\ Sourced'
    BY <1>1, <2>1 DEF Keyed, TypeOK, Sourced
  <2> QED
    BY <1>1, <2>2 DEF Keyed, CacheKeyed
<1> QED
  BY <1>2, <1>3

LEMMA RestoreKeyed ==
    ASSUME Keyed, NEW r \in Roots, Restore(r)
    PROVE  Keyed'
<1>1. /\ at[r] = "idle" /\ UNCHANGED <<lock, tree, cache>>
      /\ key' = [key EXCEPT ![r] = lock[r]]
  BY DEF Restore
<1>2. CASE tree[r] = NoTree /\ lock[r] # None /\ cache[lock[r]] # NoTree
  <2>1. /\ at' = [at EXCEPT ![r] = "restore"] /\ todo' = [todo EXCEPT ![r] = Files]
        /\ suspect' = IF lock[r] \in Unfinished THEN suspect \cup {r} ELSE suspect
    BY <1>2 DEF Restore, Walked, Goto
  <2>2. lock[r] \in Locks
    BY <1>2 DEF Keyed, TypeOK
  <2>3. TypeOK'
    BY <1>1, <1>2, <2>1, <2>2 DEF Keyed, TypeOK
  <2>4. Sourced'
    BY <1>1, <1>2, <2>1, <2>2 DEF Keyed, TypeOK, Sourced
  <2> QED
    BY <1>1, <2>3, <2>4 DEF Keyed, CacheKeyed
<1>3. CASE ~(tree[r] = NoTree /\ lock[r] # None /\ cache[lock[r]] # NoTree)
  <2>1. at' = [at EXCEPT ![r] = "install"] /\ UNCHANGED <<todo, suspect>>
    BY <1>3 DEF Restore, Goto
  <2>2. TypeOK'
    BY <1>1, <2>1 DEF Keyed, TypeOK
  <2>3. Sourced'
    BY <1>1, <2>1 DEF Keyed, TypeOK, Sourced
  <2> QED
    BY <1>1, <2>2, <2>3 DEF Keyed, CacheKeyed
<1> QED
  BY <1>2, <1>3

LEMMA EditKeyed ==
    ASSUME Keyed, NEW r \in Roots, Edit(r)
    PROVE  Keyed'
<1>1. at[r] = "idle" /\ UNCHANGED <<cache, at, key, todo>>
  BY DEF Edit
<1>2. \/ /\ \E l \in Locks \cup {None} : lock' = [lock EXCEPT ![r] = l]
         /\ UNCHANGED <<tree, suspect>>
      \/ /\ \E t \in Trees \cup {NoTree} : tree' = [tree EXCEPT ![r] = t]
         /\ suspect' = suspect \ {r} /\ UNCHANGED lock
  BY OfTree DEF Edit
<1>3. TypeOK'
  BY <1>1, <1>2 DEF Keyed, TypeOK
<1>4. Sourced'
  BY <1>1, <1>2 DEF Keyed, TypeOK, Sourced
<1> QED
  BY <1>1, <1>3, <1>4 DEF Keyed, CacheKeyed

LEMMA EndsKeyed ==
    ASSUME Keyed, NEW r \in Roots, Ends(r)
    PROVE  Keyed'
<1>1. /\ at[r] \in {"install", "lookup", "package"} /\ at' = [at EXCEPT ![r] = "idle"]
      /\ key' = [key EXCEPT ![r] = None]
      /\ UNCHANGED <<lock, tree, cache, todo, suspect>>
  BY DEF Ends, Goto
<1>2. TypeOK' /\ Sourced'
  BY <1>1 DEF Keyed, TypeOK, Sourced
<1> QED
  BY <1>1, <1>2 DEF Keyed, CacheKeyed

LEMMA InitKeyed == Init => Keyed
<1>1. Init => TypeOK /\ CacheKeyed
  BY DEF Init, TypeOK, CacheKeyed
<1>2. Init => Sourced
  BY DEF Init, Sourced
<1> QED
  BY <1>1, <1>2 DEF Keyed

LEMMA StepKeyed == Keyed /\ [Next]_vars => Keyed'
<1> SUFFICES ASSUME Keyed, [Next]_vars PROVE Keyed'
  OBVIOUS
<1>1. CASE UNCHANGED vars
  BY <1>1 DEF vars, Keyed, TypeOK, Sourced, CacheKeyed
<1>2. CASE Next
  BY <1>2, EditKeyed, RestoreKeyed, InstallKeyed, FailedKeyed, LookupKeyed, CopyKeyed,
     EndsKeyed, StopSpoils, PassSpoils, SpoiltKeyed
     DEF Next
<1> QED
  BY <1>1, <1>2

\* Every variable keeps its type; only copies have files to visit, and they have a
\* lockfile's entry to copy from or to.
THEOREM CacheTypeCorrect == Spec => []TypeOK
<1>1. Keyed => TypeOK
  BY DEF Keyed
<1> QED
  BY <1>1, InitKeyed, StepKeyed, PTL DEF Spec

\* The entry of a lockfile holds files of an install for that lockfile only, however
\* installs rewrite lockfiles and however many projects fill and read the cache.
THEOREM CacheEntriesKeyed == Spec => []CacheKeyed
<1>1. Keyed => CacheKeyed
  BY DEF Keyed
<1> QED
  BY <1>1, InitKeyed, StepKeyed, PTL DEF Spec

-----------------------------------------------------------------------------
\* An entry that somebody fills, or that a copy was left in.
LEMMA UnfinishedIs ==
    \A l \in Locks : l \in Unfinished <=>
        l \in suspect \/ \E q \in Roots : at[q] = "save" /\ key[q] = l
BY DEF Unfinished

\* A file of a restore that nothing is wrong with is the entry's.
LEMMA CopyClean ==
    ASSUME Keyed, Clean, NEW r \in Roots, CopyFile(r)
    PROVE  Clean'
<1>1. PICK f \in todo[r] :
        /\ todo' = [todo EXCEPT ![r] = @ \ {f}]
        /\ IF todo[r] = {f} THEN Goto(r, After(r)) ELSE UNCHANGED at
        /\ Write(r, f, Source(r)[f])
  BY DEF CopyFile, Visited
<1>2. f \in Files /\ at[r] \in {"restore", "save"} /\ UNCHANGED <<lock, key, suspect>>
  BY DEF CopyFile, Keyed, TypeOK
<1>3. Source(r)[f] \in {key[r], None, Torn} /\ key[r] \in Locks
  BY <1>2, CopiedFile
<1>4. todo[r] \subseteq Files /\ todo'[r] = todo[r] \ {f} /\ \A q \in Roots \ {r} : todo'[q] = todo[q]
  BY <1>1 DEF Keyed, TypeOK
<1>5. CASE at[r] = "restore"
  <2>1. /\ UNCHANGED cache
        /\ \A q \in Roots \ {r} : tree'[q] = tree[q]
        /\ tree'[r] = With(tree[r], f, Source(r)[f])
    BY <1>1, <1>2, <1>3, <1>5, RestoreWrites
  <2>2. at' = IF todo[r] = {f} THEN [at EXCEPT ![r] = "install"] ELSE at
    BY <1>1, <1>5 DEF After, Goto
  <2>3. /\ tree'[r] # NoTree
        /\ cache[key[r]][f] # None => tree'[r][f] = cache[key[r]][f]
        /\ \A g \in Files \ {f} : tree'[r][g] = IF tree[r] = NoTree THEN None ELSE tree[r][g]
    <3>1. tree[r] \in Trees \cup {NoTree} /\ Source(r)[f] \in Locks \cup {None, Torn}
      BY <1>3 DEF Keyed, TypeOK
    <3>2. Source(r) = cache[key[r]]
      BY <1>5 DEF Source
    <3> QED
      BY <1>2, <2>1, <3>1, <3>2, WithTree
  <2>4. \A l \in Locks : (l \in Unfinished)' <=> l \in Unfinished
    BY <1>2, <1>5, <2>2 DEF Keyed, TypeOK, Unfinished
  <2>5. r \notin suspect => \A g \in Files \ todo'[r] : tree'[r][g] = key[r]
    BY <1>2, <1>3, <1>4, <1>5, <2>3, CacheAssumption DEF Keyed, Sourced, Clean, Restoring, Finished
  <2>6. Finished' /\ Saving'
    BY <1>2, <1>4, <1>5, <2>1, <2>2, <2>4 DEF Keyed, TypeOK, Clean, Finished, Saving
  <2>7. Restoring'
    <3> SUFFICES ASSUME NEW q \in Roots, at'[q] = "restore", q \notin suspect
                 PROVE  /\ key[q] \notin Unfinished'
                        /\ \A g \in Files \ todo'[q] : tree'[q] # NoTree /\ tree'[q][g] = key[q]
      BY <1>2 DEF Restoring
    <3>1. at[q] = "restore"
      BY <1>5, <2>2 DEF Keyed, TypeOK
    <3>2. key[q] \in Locks /\ key[q] \notin Unfinished
      BY <3>1 DEF Keyed, Sourced, Clean, Restoring
    <3>3. CASE q = r
      BY <2>3, <2>4, <2>5, <3>2, <3>3
    <3>4. CASE q # r
      BY <1>4, <2>1, <2>4, <3>1, <3>2, <3>4 DEF Clean, Restoring
    <3> QED
      BY <3>3, <3>4
  <2>8. todo[r] = {f} /\ r \notin suspect => \A g \in Files : tree'[r][g] \in Locks
    BY <1>3, <1>4, <2>5
  <2>9. Installed'
    BY <1>2, <1>5, <2>1, <2>2, <2>8 DEF Keyed, TypeOK, Clean, Installed
  <2> QED
    BY <2>6, <2>7, <2>9 DEF Clean
<1>6. CASE at[r] = "save"
  <2>1. /\ UNCHANGED tree
        /\ \A l \in Locks \ {key[r]} : cache'[l] = cache[l]
        /\ cache'[key[r]] = With(cache[key[r]], f, Source(r)[f])
    BY <1>1, <1>2, <1>3, <1>6, SaveWrites
  <2>2. at' = IF todo[r] = {f} THEN [at EXCEPT ![r] = "package"] ELSE at
    BY <1>1, <1>6 DEF After, Goto
  <2>3. /\ cache'[key[r]] # NoTree
        /\ tree[r][f] # None => cache'[key[r]][f] = tree[r][f]
        /\ \A g \in Files \ {f} : cache'[key[r]][g] =
             IF cache[key[r]] = NoTree THEN None ELSE cache[key[r]][g]
    <3>1. cache[key[r]] \in Trees \cup {NoTree} /\ Source(r)[f] \in Locks \cup {None, Torn}
      BY <1>3 DEF Keyed, TypeOK
    <3>2. Source(r) = tree[r]
      BY <1>6 DEF Source
    <3> QED
      BY <1>2, <2>1, <3>1, <3>2, WithTree
  <2>4. key[r] \notin suspect => tree[r][f] = key[r]
    BY <1>2, <1>6, CacheAssumption DEF Keyed, Sourced, Clean, Saving, Installed
  <2>5. \A q \in Roots : at[q] = "save" /\ key[q] \notin suspect =>
          \A g \in Files \ todo'[q] : cache'[key[q]] # NoTree /\ cache'[key[q]][g] = key[q]
    <3> SUFFICES ASSUME NEW q \in Roots, at[q] = "save", key[q] \notin suspect,
                        NEW g \in Files \ todo'[q]
                 PROVE  cache'[key[q]] # NoTree /\ cache'[key[q]][g] = key[q]
      OBVIOUS
    <3>1. key[q] \in Locks
      BY DEF Keyed, Sourced
    <3>2. CASE key[q] # key[r]
      BY <1>4, <2>1, <3>1, <3>2 DEF Clean, Saving
    <3>3. CASE key[q] = key[r] /\ g = f
      BY <1>3, <2>3, <2>4, <3>3, CacheAssumption
    <3>4. CASE key[q] = key[r] /\ g # f
      <4>1. g \in Files \ todo[q]
        BY <1>4, <3>4
      <4> QED
        BY <2>3, <3>4, <4>1 DEF Clean, Saving
    <3> QED
      BY <3>2, <3>3, <3>4
  <2>6. Saving'
    BY <1>2, <1>6, <2>2, <2>5 DEF Keyed, TypeOK, Clean, Saving
  <2>7. \A l \in Locks : l \in Unfinished' => l \in Unfinished
    BY <1>2, <1>6, <2>2 DEF Keyed, TypeOK, Unfinished
  <2>8. \A l \in Locks : l \in Unfinished /\ l \notin Unfinished' => l = key[r] /\ todo[r] = {f}
    BY <1>2, <1>6, <2>2 DEF Keyed, TypeOK, Unfinished
  <2>9. Finished'
    <3> SUFFICES ASSUME NEW l \in Locks, cache'[l] # NoTree, l \notin Unfinished', NEW g \in Files
                 PROVE  cache'[l][g] = l
      BY DEF Finished
    <3>1. CASE l # key[r]
      BY <2>1, <2>8, <3>1 DEF Clean, Finished
    <3>2. CASE l = key[r]
      <4>1. l \in Unfinished
        BY <1>3, <1>6, <3>2, UnfinishedIs
      <4>2. todo'[r] = {} /\ key[r] \notin suspect
        BY <1>2, <1>4, <2>8, <3>2, <4>1 DEF Unfinished
      <4> QED
        BY <1>6, <2>5, <3>2, <4>2
    <3> QED
      BY <3>1, <3>2
  <2>10. Restoring' /\ Installed'
    BY <1>2, <1>4, <1>6, <2>1, <2>2, <2>7 DEF Keyed, TypeOK, Sourced, Clean, Restoring, Installed
  <2> QED
    BY <2>6, <2>9, <2>10 DEF Clean
<1> QED
  BY <1>2, <1>5, <1>6

LEMMA SpoiltClean ==
    ASSUME Keyed, Clean, NEW r \in Roots, Spoilt(r)
    PROVE  Clean'
<1>1. PICK f \in Files, x \in {None, Torn}, next \in {at[r], After(r), "idle"}, rest \in SUBSET Files :
         /\ Write(r, f, x)
         /\ todo' = [todo EXCEPT ![r] = rest] /\ at' = [at EXCEPT ![r] = next]
         /\ key' = [key EXCEPT ![r] = IF next = "idle" THEN None ELSE @]
         /\ rest # {} => next = at[r]
  BY DEF Spoilt
<1>2. /\ at[r] \in {"restore", "save"} /\ UNCHANGED lock
      /\ suspect' = suspect \cup {Target(r)}
      /\ \A q \in Roots \ {r} : todo'[q] = todo[q] /\ at'[q] = at[q] /\ key'[q] = key[q]
      /\ at'[r] = next /\ (next # "idle" => key'[r] = key[r])
  BY <1>1 DEF Spoilt, Keyed, TypeOK
<1>3. CASE at[r] = "restore"
  <2>1. UNCHANGED cache /\ \A q \in Roots \ {r} : tree'[q] = tree[q]
    BY <1>1, <1>2, <1>3, RestoreWrites
  <2>2. next \in {"restore", "install", "idle"} /\ Target(r) = r
    BY <1>3 DEF After, Target
  <2>3. \A l \in Locks : l \in Unfinished' <=> l \in Unfinished
    BY <1>2, <1>3, <2>2, CacheAssumption DEF Keyed, TypeOK, Unfinished
  <2>4. Finished' /\ Restoring' /\ Installed'
    BY <1>2, <1>3, <2>1, <2>2, <2>3
       DEF Keyed, TypeOK, Sourced, Clean, Finished, Restoring, Installed
  <2>5. Saving'
    BY <1>2, <1>3, <2>1, <2>2, CacheAssumption DEF Keyed, TypeOK, Sourced, Clean, Saving
  <2> QED
    BY <2>4, <2>5 DEF Clean
<1>4. CASE at[r] = "save"
  <2>1. /\ UNCHANGED tree /\ key[r] \in Locks
        /\ \A l \in Locks \ {key[r]} : cache'[l] = cache[l]
    BY <1>1, <1>2, <1>4, SaveWrites
  <2>2. next \in {"save", "package", "idle"} /\ Target(r) = key[r]
    BY <1>4 DEF After, Target
  <2>3. \A l \in Locks : l \in Unfinished' <=> l \in Unfinished
    BY <1>2, <1>4, <2>1, <2>2 DEF Keyed, TypeOK, Unfinished
  <2>4. key[r] \in Unfinished' /\ key[r] \in suspect'
    BY <1>2, <2>1, <2>2 DEF Unfinished
  <2>5. Finished'
    BY <2>1, <2>3, <2>4 DEF Clean, Finished
  <2>6. Restoring' /\ Installed'
    BY <1>2, <1>4, <2>1, <2>2, <2>3 DEF Keyed, TypeOK, Sourced, Clean, Restoring, Installed
  <2>7. Saving'
    BY <1>2, <1>4, <2>1, <2>2, CacheAssumption DEF Keyed, TypeOK, Sourced, Clean, Saving
  <2> QED
    BY <2>5, <2>6, <2>7 DEF Clean
<1> QED
  BY <1>2, <1>3, <1>4

LEMMA InstallClean ==
    ASSUME Keyed, Clean, NEW r \in Roots, Install(r)
    PROVE  Clean'
<1>1. /\ at[r] = "install" /\ at' = [at EXCEPT ![r] = "lookup"]
      /\ UNCHANGED <<cache, key, todo, suspect>>
  BY DEF Install, Goto
<1>2. PICK l \in Locks, kept \in SUBSET {f \in Files : tree[r] # NoTree /\ tree[r][f] \in {None, Torn}} :
        tree' = [tree EXCEPT ![r] = [f \in Files |-> IF f \in kept THEN tree[r][f] ELSE l]]
  BY DEF Install
<1>3. /\ tree'[r] = [f \in Files |-> IF f \in kept THEN tree[r][f] ELSE l]
      /\ \A q \in Roots \ {r} : tree'[q] = tree[q]
  BY <1>2 DEF Keyed, TypeOK
<1>4. r \notin suspect => \A f \in Files : tree'[r][f] \in Locks
  BY <1>1, <1>2, <1>3, CacheAssumption DEF Clean, Installed
<1>5. \A l_1 \in Locks : l_1 \in Unfinished' <=> l_1 \in Unfinished
  BY <1>1 DEF Keyed, TypeOK, Unfinished
<1>6. Finished' /\ Restoring' /\ Saving'
  BY <1>1, <1>3, <1>5 DEF Keyed, TypeOK, Sourced, Clean, Finished, Restoring, Saving
<1>7. Installed'
  BY <1>1, <1>3, <1>4 DEF Keyed, TypeOK, Clean, Installed
<1> QED
  BY <1>6, <1>7 DEF Clean

LEMMA FailedClean ==
    ASSUME Keyed, Clean, NEW r \in Roots, InstallFails(r)
    PROVE  Clean'
<1>1. /\ at[r] = "install" /\ at' = [at EXCEPT ![r] = "idle"] /\ suspect' = suspect \cup {r}
      /\ key' = [key EXCEPT ![r] = None] /\ UNCHANGED <<cache, todo>>
  BY DEF InstallFails, Goto
<1>2. \A q \in Roots \ {r} : tree'[q] = tree[q]
  BY DEF InstallFails, Keyed, TypeOK
<1>3. \A l \in Locks : /\ l \in Unfinished' <=> l \in Unfinished
                       /\ l \in suspect' <=> l \in suspect
  BY <1>1, CacheAssumption DEF Keyed, TypeOK, Unfinished
<1>4. Finished' /\ Restoring' /\ Saving'
  BY <1>1, <1>2, <1>3 DEF Keyed, TypeOK, Sourced, Clean, Finished, Restoring, Saving
<1>5. Installed'
  BY <1>1, <1>2 DEF Keyed, TypeOK, Clean, Installed
<1> QED
  BY <1>4, <1>5 DEF Clean

\* A save that starts makes an entry unfinished that did not exist.
LEMMA LookupClean ==
    ASSUME Keyed, Clean, NEW r \in Roots, Lookup(r)
    PROVE  Clean'
<1>1. /\ at[r] = "lookup" /\ UNCHANGED <<lock, tree, cache>> /\ lock[r] \in Locks
  BY DEF Lookup, Keyed, Sourced
<1>2. CASE cache[lock[r]] = NoTree
  <2>1. /\ at' = [at EXCEPT ![r] = "save"] /\ key' = [key EXCEPT ![r] = lock[r]]
        /\ todo' = [todo EXCEPT ![r] = Files]
        /\ suspect' = IF r \in suspect THEN suspect \cup {lock[r]} ELSE suspect
    BY <1>2 DEF Lookup, KeyOf, Walked, Goto
  <2>2. \A l \in Locks : l \in Unfinished' <=> l \in Unfinished \/ l = lock[r]
    BY <1>1, <2>1 DEF Keyed, TypeOK, Unfinished
  <2>3. \A q \in Roots : q \in suspect' <=> q \in suspect
    BY <1>1, <2>1, CacheAssumption
  <2>4. Finished'
    BY <1>1, <2>2 DEF Clean, Finished
  <2>5. Restoring'
    BY <1>1, <1>2, <2>1, <2>2, <2>3 DEF Keyed, TypeOK, Sourced, Clean, Restoring
  <2>6. Saving'
    BY <1>1, <1>2, <2>1, <2>3 DEF Keyed, TypeOK, Sourced, Clean, Saving
  <2>7. Installed'
    BY <1>1, <2>1, <2>3 DEF Keyed, TypeOK, Clean, Installed
  <2> QED
    BY <2>4, <2>5, <2>6, <2>7 DEF Clean
<1>3. CASE cache[lock[r]] # NoTree
  <2>1. at' = [at EXCEPT ![r] = "package"] /\ UNCHANGED <<key, todo, suspect>>
    BY <1>3 DEF Lookup, KeyOf, Goto
  <2>2. \A l \in Locks : l \in Unfinished' <=> l \in Unfinished
    BY <1>1, <2>1 DEF Keyed, TypeOK, Unfinished
  <2>3. Finished' /\ Restoring'
    BY <1>1, <2>1, <2>2 DEF Keyed, TypeOK, Sourced, Clean, Finished, Restoring
  <2>4. Saving' /\ Installed'
    BY <1>1, <2>1 DEF Keyed, TypeOK, Clean, Saving, Installed
  <2> QED
    BY <2>3, <2>4 DEF Clean
<1> QED
  BY <1>2, <1>3

LEMMA RestoreClean ==
    ASSUME Keyed, Clean, NEW r \in Roots, Restore(r)
    PROVE  Clean'
<1>1. /\ at[r] = "idle" /\ UNCHANGED <<lock, tree, cache>>
      /\ key' = [key EXCEPT ![r] = lock[r]]
  BY DEF Restore
<1>2. CASE tree[r] = NoTree /\ lock[r] # None /\ cache[lock[r]] # NoTree
  <2>1. /\ at' = [at EXCEPT ![r] = "restore"] /\ todo' = [todo EXCEPT ![r] = Files]
        /\ suspect' = IF lock[r] \in Unfinished THEN suspect \cup {r} ELSE suspect
    BY <1>2 DEF Restore, Walked, Goto
  <2>2. \A l \in Locks : l \in Unfinished' <=> l \in Unfinished
    BY <1>1, <2>1, CacheAssumption DEF Keyed, TypeOK, Unfinished
  <2>3. \A l \in Locks : l \in suspect' <=> l \in suspect
    BY <2>1, CacheAssumption
  <2>4. Finished'
    BY <1>1, <2>2 DEF Clean, Finished
  <2>5. lock[r] \in Locks /\ todo'[r] = Files /\ key'[r] = lock[r]
    BY <1>1, <1>2, <2>1 DEF Keyed, TypeOK
  <2>6. Restoring'
    BY <1>1, <2>1, <2>2, <2>5 DEF Keyed, TypeOK, Sourced, Clean, Restoring
  <2>7. Saving'
    BY <1>1, <2>1, <2>3 DEF Keyed, TypeOK, Sourced, Clean, Saving
  <2>8. Installed'
    BY <1>1, <2>1 DEF Keyed, TypeOK, Clean, Installed
  <2> QED
    BY <2>4, <2>6, <2>7, <2>8 DEF Clean
<1>3. CASE ~(tree[r] = NoTree /\ lock[r] # None /\ cache[lock[r]] # NoTree)
  <2>1. at' = [at EXCEPT ![r] = "install"] /\ UNCHANGED <<todo, suspect>>
    BY <1>3 DEF Restore, Goto
  <2>2. \A l \in Locks : l \in Unfinished' <=> l \in Unfinished
    BY <1>1, <2>1 DEF Keyed, TypeOK, Unfinished
  <2>3. Finished' /\ Restoring'
    BY <1>1, <2>1, <2>2 DEF Keyed, TypeOK, Sourced, Clean, Finished, Restoring
  <2>4. Saving' /\ Installed'
    BY <1>1, <2>1 DEF Keyed, TypeOK, Clean, Saving, Installed
  <2> QED
    BY <2>3, <2>4 DEF Clean
<1> QED
  BY <1>2, <1>3

LEMMA EditClean ==
    ASSUME Keyed, Clean, NEW r \in Roots, Edit(r)
    PROVE  Clean'
<1>1. at[r] = "idle" /\ UNCHANGED <<cache, at, key, todo>>
  BY DEF Edit
<1>2. \/ UNCHANGED <<tree, suspect>>
      \/ /\ suspect' = suspect \ {r}
         /\ \E t \in {NoTree} \cup {Of(l) : l \in Locks} : tree' = [tree EXCEPT ![r] = t]
  BY DEF Edit
<1>3. \A l \in Locks : l \in Unfinished' <=> l \in Unfinished
  BY <1>1, <1>2, CacheAssumption DEF Unfinished
<1>4. Finished' /\ Restoring' /\ Saving'
  BY <1>1, <1>2, <1>3, CacheAssumption
     DEF Keyed, TypeOK, Sourced, Clean, Finished, Restoring, Saving
<1>5. Installed'
  BY <1>1, <1>2 DEF Keyed, TypeOK, Clean, Installed, Of
<1> QED
  BY <1>4, <1>5 DEF Clean

LEMMA EndsClean ==
    ASSUME Keyed, Clean, NEW r \in Roots, Ends(r)
    PROVE  Clean'
<1>1. /\ at[r] \in {"install", "lookup", "package"} /\ at' = [at EXCEPT ![r] = "idle"]
      /\ key' = [key EXCEPT ![r] = None]
      /\ UNCHANGED <<lock, tree, cache, todo, suspect>>
  BY DEF Ends, Goto
<1>2. \A l \in Locks : l \in Unfinished' <=> l \in Unfinished
  BY <1>1 DEF Keyed, TypeOK, Unfinished
<1>3. Finished' /\ Restoring'
  BY <1>1, <1>2 DEF Keyed, TypeOK, Sourced, Clean, Finished, Restoring
<1>4. Saving' /\ Installed'
  BY <1>1 DEF Keyed, TypeOK, Clean, Saving, Installed
<1> QED
  BY <1>3, <1>4 DEF Clean

LEMMA InitClean == Init => Clean
BY DEF Init, Clean, Finished, Restoring, Saving, Installed

LEMMA StepClean == Keyed /\ Clean /\ [Next]_vars => Clean'
<1> SUFFICES ASSUME Keyed, Clean, [Next]_vars PROVE Clean'
  OBVIOUS
<1>1. CASE UNCHANGED vars
  BY <1>1 DEF vars, Clean, Finished, Unfinished, Restoring, Saving, Installed
<1>2. CASE Next
  BY <1>2, EditClean, RestoreClean, InstallClean, FailedClean, LookupClean, CopyClean,
     EndsClean, StopSpoils, PassSpoils, SpoiltClean
     DEF Next
<1> QED
  BY <1>1, <1>2

\* Packaging starts from a whole install for the lockfile, unless it comes, through
\* any number of restores and saves, from an install that failed, or from a copy
\* that stopped, passed a file over or was read while it was being made.
THEOREM PackagedTreesWhole == Spec => []PackagedWhole
<1>1. Keyed /\ Clean => PackagedWhole
  <2> SUFFICES ASSUME Keyed, Clean, NEW r \in Roots, at[r] = "package", r \notin suspect
               PROVE  tree[r] = Of(lock[r])
    BY DEF PackagedWhole
  <2>1. tree[r] \in Trees /\ lock[r] \in Locks
    BY DEF Keyed, TypeOK, Sourced
  <2>2. \A f \in Files : tree[r][f] = lock[r]
    BY <2>1, CacheAssumption DEF Keyed, Sourced, Clean, Installed
  <2> QED
    BY <2>1, <2>2 DEF Of, Trees
<1> QED
  BY <1>1, InitKeyed, StepKeyed, InitClean, StepClean, PTL DEF Spec
===============================================================================
