------------------------------ MODULE Artifact -------------------------------
(***************************************************************************)
(* internal/artifact/download.go: Download fetches a resource into a file  *)
(* of its own beside the destination and renames it there when all checks  *)
(* have passed.  A response is what a server (external) may answer; the    *)
(* digest of a body is the body itself (no collisions).                    *)
(***************************************************************************)
EXTENDS Naturals

CONSTANTS
  Bodies,      \* what servers may send
  SizeOf,      \* the size of each body
  MaxSize,     \* defaultMaxSize
  None

ASSUME ArtifactAssumption ==
  /\ SizeOf \in [Bodies -> Nat] /\ MaxSize \in Nat /\ None \notin Bodies

\* "secure": no redirect left HTTPS; "broken": the transfer stopped, stalled for
\* the idle timeout or exceeded the total one.  Responses without a length are
\* those that declare 0.
Responses == [secure : BOOLEAN, ok : BOOLEAN, declared : {0, MaxSize + 1},
              body : Bodies, broken : BOOLEAN]

\* Download's checks on the way to the rename, but for the digest.
Accepted(response) ==
  /\ response.secure /\ response.ok /\ response.declared <= MaxSize
  /\ ~response.broken
  /\ SizeOf[response.body] \in 1..MaxSize

AcceptedBodies == {response.body : response \in {r \in Responses : Accepted(r)}}

\* How a download may end when the server has one of these bodies: with a body
\* in the destination, or None (any response may be refused) and the
\* destination as it was; "expected" is a digest or None.
Outcomes(bodies, expected) ==
  {body \in bodies \cap AcceptedBodies : expected \in {None, body}} \cup {None}
=============================================================================
