--------------------------- MODULE NodeModulesCache ----------------------------
(***************************************************************************)
(* The node_modules cache of `aether deploy': before the package manager   *)
(* runs, node_modules is copied from the entry of the lockfile's hash if   *)
(* there is one; afterwards it is copied there if there is none.  Both     *)
(* copies go file by file to their final place.                            *)
(*                                                                         *)
(* A lockfile (with NODE_VERSION) stands for its hash.  A file of a tree   *)
(* is the lockfile whose install it belongs to.  Several projects share    *)
(* the cache; in one project one deploy runs at a time, and nobody edits   *)
(* the lockfile during it.                                                 *)
(***************************************************************************)
CONSTANTS
    Roots,     \* project directories
    Locks,     \* contents of lockfiles
    Files,     \* files of node_modules
    None,      \* no lockfile; a file that is not there
    Torn       \* a file that was not copied to its end

ASSUME CacheAssumption ==
    /\ None \notin Locks /\ Torn \notin Locks \cup {None}
    /\ Roots \cap Locks = {} /\ Files # {}

VARIABLES
    lock,     \* root -> its lockfile
    tree,     \* root -> its node_modules
    cache,    \* lockfile -> its directory in the cache
    at,       \* root -> where the deploy in it is
    key,      \* root -> lockfile whose entry is copied from or to
    todo,     \* root -> files the copy has still to visit
    suspect   \* history: roots and entries that an incomplete copy or install went into

vars == <<lock, tree, cache, at, key, todo, suspect>>

Trees   == [Files -> Locks \cup {None, Torn}]
NoTree  == <<>>                       \* no such directory
Empty   == [f \in Files |-> None]
Of(l)   == [f \in Files |-> l]        \* what an install for l gives

\* t with the file f written; a file that the copy does not find stays as it is.
With(t, f, x) ==
    LET made == IF t = NoTree THEN Empty ELSE t IN
    IF x = None THEN made ELSE [made EXCEPT ![f] = x]

Goto(r, step) == at' = [at EXCEPT ![r] = step]

-----------------------------------------------------------------------------
\* Between two deploys a lockfile is edited, node_modules removed or installed
\* by other means, --no-cache among them.
Edit(r) ==
    /\ at[r] = "idle"
    /\ \/ /\ \E l \in Locks \cup {None} : lock' = [lock EXCEPT ![r] = l]
          /\ UNCHANGED <<tree, suspect>>
       \/ /\ \E t \in {NoTree} \cup {Of(l) : l \in Locks} : tree' = [tree EXCEPT ![r] = t]
          /\ suspect' = suspect \ {r} /\ UNCHANGED lock
    /\ UNCHANGED <<cache, at, key, todo>>

\* Entries that are being filled, or that were left half filled.
Unfinished == (suspect \cap Locks) \cup {key[r] : r \in {q \in Roots : at[q] = "save"}}

WalkedVisible == Files \ {CHOOSE f \in Files : TRUE}  \* faulty: hidden files are left out
Walked        == Files

\* restore_cache: only into a project without node_modules.
Restore(r) ==
    /\ at[r] = "idle"
    /\ key' = [key EXCEPT ![r] = lock[r]]
    /\ IF tree[r] = NoTree /\ lock[r] # None /\ cache[lock[r]] # NoTree
       THEN /\ Goto(r, "restore") /\ todo' = [todo EXCEPT ![r] = Walked]
            /\ suspect' = IF lock[r] \in Unfinished THEN suspect \cup {r} ELSE suspect
       ELSE Goto(r, "install") /\ UNCHANGED <<todo, suspect>>
    /\ UNCHANGED <<lock, tree, cache>>

\* npm, yarn or pnpm: what looks installed for the lockfile it leaves alone, the
\* rest it installs; it may write the lockfile anew.
Install(r) ==
    /\ at[r] = "install" /\ Goto(r, "lookup")
    /\ \E l \in Locks :
         /\ lock' = [lock EXCEPT ![r] = l]
         /\ \E kept \in SUBSET {f \in Files : tree[r] # NoTree /\ tree[r][f] \in {None, Torn}} :
              tree' = [tree EXCEPT ![r] = [f \in Files |-> IF f \in kept THEN tree[r][f] ELSE l]]
    /\ UNCHANGED <<cache, key, todo, suspect>>

\* The package manager exits with an error or is killed: some files are installed,
\* cut off or removed by then, the others as they were.
InstallFails(r) ==
    /\ at[r] = "install" /\ Goto(r, "idle")
    /\ \E l \in Locks :
         /\ lock' \in {lock, [lock EXCEPT ![r] = l]}
         /\ \E t \in Trees :
              /\ \A f \in Files : \/ t[f] \in {l, None, Torn}
                                  \/ tree[r] # NoTree /\ t[f] = tree[r][f]
              /\ tree' = [tree EXCEPT ![r] = t]
    /\ suspect' = suspect \cup {r}
    /\ key' = [key EXCEPT ![r] = None]
    /\ UNCHANGED <<cache, todo>>

KeyOfRestore(r) ==  \* faulty: the key from before the install
    IF key[r] = None THEN lock[r] ELSE key[r]
KeyOf(r)        == lock[r]

\* save_cache: the key is computed from the lockfile as the install left it.
Lookup(r) ==
    /\ at[r] = "lookup"
    /\ IF cache[KeyOf(r)] = NoTree
       THEN /\ Goto(r, "save")
            /\ key' = [key EXCEPT ![r] = KeyOf(r)] /\ todo' = [todo EXCEPT ![r] = Walked]
            /\ suspect' = IF r \in suspect THEN suspect \cup {KeyOf(r)} ELSE suspect
       ELSE Goto(r, "package") /\ UNCHANGED <<key, todo, suspect>>
    /\ UNCHANGED <<lock, tree, cache>>

\* x is what the file f is at the place that is copied to.
Write(r, f, x) ==
    IF at[r] = "restore"
    THEN tree' = [tree EXCEPT ![r] = With(@, f, x)] /\ UNCHANGED cache
    ELSE cache' = [cache EXCEPT ![key[r]] = With(@, f, x)] /\ UNCHANGED tree

Source(r) == IF at[r] = "restore" THEN cache[key[r]] ELSE tree[r]
Target(r) == IF at[r] = "restore" THEN r ELSE key[r]
After(r)  == IF at[r] = "restore" THEN "install" ELSE "package"

Visited(r, f) ==
    /\ todo' = [todo EXCEPT ![r] = @ \ {f}]
    /\ IF todo[r] = {f} THEN Goto(r, After(r)) ELSE UNCHANGED at

\* copy_dir, one file in the order of the directory.
CopyFile(r) ==
    /\ at[r] \in {"restore", "save"}
    /\ \E f \in todo[r] : Visited(r, f) /\ Write(r, f, Source(r)[f])
    /\ UNCHANGED <<lock, key, suspect>>

\* What the walk cannot read, and what is behind a link to a directory, the copy
\* passes over without an error.
PassOver(r) ==
    /\ at[r] \in {"restore", "save"}
    /\ \E f \in todo[r] : Visited(r, f) /\ Write(r, f, None)
    /\ suspect' = suspect \cup {Target(r)}
    /\ UNCHANGED <<lock, key>>

TodoKept(r) == todo                         \* faulty: the next copy starts where this one stopped
NoTodo(r)   == [todo EXCEPT ![r] = {}]

\* The copy stops in a file: at an error, which is logged and forgotten, or with
\* the process.
CopyStops(r, next) ==
    /\ at[r] \in {"restore", "save"}
    /\ \E f \in todo[r] : Write(r, f, Torn)
    /\ suspect' = suspect \cup {Target(r)}
    /\ todo' = NoTodo(r) /\ Goto(r, next)
    /\ key' = [key EXCEPT ![r] = IF next = "idle" THEN None ELSE @]
    /\ UNCHANGED lock

\* The artifact is packaged from the tree, or the deploy ends before: the package
\* manager does not start, the process is killed.
Ends(r) ==
    /\ at[r] \in {"install", "lookup", "package"} /\ Goto(r, "idle")
    /\ key' = [key EXCEPT ![r] = None]
    /\ UNCHANGED <<lock, tree, cache, todo, suspect>>

-----------------------------------------------------------------------------
Init ==
    /\ lock \in [Roots -> Locks \cup {None}]
    /\ tree = [r \in Roots |-> NoTree] /\ cache = [l \in Locks |-> NoTree]
    /\ at = [r \in Roots |-> "idle"] /\ key = [r \in Roots |-> None]
    /\ todo = [r \in Roots |-> {}]
    /\ suspect = {}

Next == \E r \in Roots :
    \/ Edit(r) \/ Restore(r) \/ Install(r) \/ InstallFails(r) \/ Lookup(r)
    \/ CopyFile(r) \/ PassOver(r) \/ Ends(r)
    \/ CopyStops(r, After(r)) \/ CopyStops(r, "idle")

Spec == Init /\ [][Next]_vars

-----------------------------------------------------------------------------
\* Every variable has its type; only copies have files to visit.
TypeOK ==
    /\ lock \in [Roots -> Locks \cup {None}] /\ key \in [Roots -> Locks \cup {None}]
    /\ tree \in [Roots -> Trees \cup {NoTree}] /\ cache \in [Locks -> Trees \cup {NoTree}]
    /\ at \in [Roots -> {"idle", "restore", "install", "lookup", "save", "package"}]
    /\ todo \in [Roots -> SUBSET Files]
    /\ \A r \in Roots : todo[r] # {} => at[r] \in {"restore", "save"} /\ key[r] # None
    /\ suspect \subseteq Roots \cup Locks

\* The entry of a lockfile holds files of an install for that lockfile only,
\* although the install before the save may have rewritten the lockfile and
\* other projects read and fill the same entry.
CacheKeyed == \A l \in Locks : cache[l] # NoTree =>
    \A f \in Files : cache[l][f] \in {l, None, Torn}

\* Packaging starts from a whole install for the lockfile, unless it comes, through
\* any number of restores and saves, from an install that failed, or from a copy
\* that stopped, passed a file over or was read while it was being made.  (Of
\* such a tree or entry nothing is ever repaired.)
PackagedWhole == \A r \in Roots :
    at[r] = "package" => r \in suspect \/ tree[r] = Of(lock[r])
===============================================================================
