---------------------------- MODULE MCBgpManager ----------------------------
(***************************************************************************)
(* Constants for model checking BgpManager.                                *)
(***************************************************************************)
EXTENDS BgpManager, TLC

CONSTANTS a, b, w, p, q   \* addresses a, b and dynamic w; passwords p and q

At(addr, asn, pw) ==
    [addr |-> addr, asn |-> asn, pw |-> pw, dial |-> FALSE, enabled |-> TRUE]
Off(row) == [row EXCEPT !.enabled = FALSE]
Dialed(row) == [row EXCEPT !.dial = TRUE]

\* An address with two peers and two passwords, a peer that is dialed and has
\* none, a dynamic one, and a user that is disabled.
PasswordRows == {At(a, 1, p), At(a, 1, q), At(a, 2, p), Dialed(At(b, 1, NoPw)),
                 Off(Dialed(At(b, 1, NoPw))), At(w, 2, p)}
\* An address shared by two autonomous systems, and a dynamic peer.
SharedRows == {At(a, 1, p), At(a, 2, p), At(b, 1, NoPw), At(w, 2, p)}
\* Users that move between two peers, and one that is disabled.
MovingRows == {At(a, 1, NoPw), At(b, 1, NoPw), Off(At(b, 1, NoPw))}
\* Two users of one address that disagree about its password.
ConflictRows == {At(a, 1, p), At(a, 2, q), At(b, 1, p), Off(At(b, 1, p))}

Plain == [dial |-> TRUE, v6 |-> TRUE]
OneSetting == {Plain}
TwoSettings == {Plain, [dial |-> FALSE, v6 |-> FALSE]}

=============================================================================
