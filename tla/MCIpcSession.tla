---------------------------- MODULE MCIpcSession ----------------------------
(* The instances of IpcSession that TLC checks. *)
EXTENDS IpcSession, TLC

CONSTANTS lle, hle

\* One place on the port of the HLE service, two on the other.
Limits == [p \in Port |-> IF p = lle THEN 2 ELSE 1]

Symmetry == Permutations(Client) \cup Permutations(Server) \cup Permutations(Session)

=============================================================================
