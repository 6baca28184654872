------------------------------ MODULE MCCliDeploy -----------------------------
(***************************************************************************)
(* Instances of CliDeploy for TLC.                                         *)
(***************************************************************************)
EXTENDS CliDeploy, TLC

CONSTANTS a1, d1, x1, x2, half, r1, r2, u1, u2

MCSymmetry == Permutations(Reqs) \cup Permutations(Uploads)

MCIdemKeys == {<<"idem", d>> : d \in Digests}

\* A digest is of the packaged files; x1, x2 are archives of two sizes, half is
\* what a PUT leaves of one that cannot be read to its end.
MCContents == Digests \cup {x1, x2, half}
MCSizeOf   == [x \in MCContents |-> CASE x = x2 -> 2 [] x = half -> 0 [] OTHER -> 1]

Package(d, x, multipart) == [app |-> a1, digest |-> d, archive |-> x, multipart |-> multipart]

\* One state of an application, packaged with two compression levels, one of
\* them on the multipart path.
MCProjects == {Package(d1, x1, FALSE), Package(d1, x2, TRUE)}

OneProject == {Package(d1, x1, FALSE)}

MCPuts  == {<<<<p.app, p.digest>>, body>> : p \in Projects, body \in MCContents \ Digests}
MCCalls == {Opening(p) : p \in Projects} \cup
           UNION {{Closing(p, u) : u \in IF p.multipart THEN Uploads ELSE {None}} : p \in Projects}
===============================================================================
