---------------------------- MODULE MCPeerSession ----------------------------
(***************************************************************************)
(* Constants for model checking PeerSession.                               *)
(***************************************************************************)
EXTENDS PeerSession, TLC

\* Connections differ only in their name, and so do attribute sets.
Symmetry == Permutations(Conn) \cup Permutations(Attr)

=============================================================================
