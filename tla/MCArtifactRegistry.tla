-------------------------- MODULE MCArtifactRegistry --------------------------
(***************************************************************************)
(* Instances of ArtifactRegistry for TLC.                                  *)
(***************************************************************************)
EXTENDS ArtifactRegistryClaims, TLC

CONSTANTS a1, a2, d1, d2, d3, junk, k1, k2, r1, r2, r3, u1, u2

MCSymmetry == Permutations(Reqs) \cup Permutations(Uploads)

MCSizeOf == [x \in Contents |-> IF x = junk THEN 2 ELSE 1]

Body(kind, app, digest, idem) ==
    [kind |-> kind, app |-> app, digest |-> digest, size |-> 1, idem |-> idem,
     signed |-> FALSE, upload |-> None]

Presigns(apps, digests) == {Body("presign", a, d, None) : a \in apps, d \in digests}
Inits(apps, digests)    == {Body("init", a, d, None) : a \in apps, d \in digests}

Completes(apps, digests, keys) ==
    {Body("complete", a, d, k) : a \in apps, d \in digests, k \in keys}

Multiparts(apps, digests, keys) ==
    {[Body("multipart", a, d, k) EXCEPT !.upload = u] :
        a \in apps, d \in digests, k \in keys, u \in Uploads}

Key(a, d) == <<a, d>>

NoPuts == {}

\* One digest of the run comes by the deprecated endpoint as well.
RegistryLegacy  == {[app |-> a1, digest |-> d3, size |-> 1, signed |-> FALSE]}

\* One digest as a multipart upload of two applications and as a single part, and
\* a completion that announces a size over the limit.
MultipartCalls == Inits({a1, a2}, {d1}) \cup Multiparts({a1}, {d1}, {k2})
                  \cup Completes({a1}, {d1}, {k1})
                  \cup {[Body("complete", a1, d1, None) EXCEPT !.size = 3]}
MultipartPuts  == {<<Key(a, d1), d1>> : a \in Apps}

\* Three clients of one application share two connections and a quota of one
\* artifact; two digests with one retry key, which only one of them can have, one of
\* these without a key too, and a third with another: all three can be stored.
QuotaCalls == Presigns({a1}, {d1}) \cup Completes({a1}, {d1, d2}, {k1})
              \cup Completes({a1}, {d3}, {k2}) \cup Completes({a1}, {d1}, {None})

\* One digest, every way to leave a row pending and to complete it; the object put
\* has another content, and the size of a completion that exceeds the byte quota.
LivenessCalls == Presigns({a1}, {d1}) \cup Inits({a1}, {d1})
                 \cup Completes({a1}, {d1}, {None}) \cup Multiparts({a1}, {d1}, {None})
                 \cup {[Body("complete", a1, d1, None) EXCEPT !.size = 2]}
LivenessPuts  == {<<Key(a1, d1), junk>>}

\* Three digests, two of them announced in any order, one application with retention.
RetentionCalls == Presigns({a1}, {d1, d2}) \cup Completes({a1}, Digests, {None})

\* Two applications and one digest are enough for the refuted claim.
SharedCalls == Presigns({a1, a2}, {d1}) \cup Completes({a1, a2}, {d1}, {None})
===============================================================================
