--------------------------- MODULE MCConfigImport ---------------------------
(***************************************************************************)
(* Imports for TLC: two users and a third who may be created, three peers  *)
(* one of which is the placeholder of the second user, a network, a mode   *)
(* and one that may be created, and two numbers.                           *)
(***************************************************************************)
EXTENDS ConfigImport, TLC

CONSTANTS n1, n2, n3, m, k, f, g, c, d, a, b, w, p, q, x

MCNames == <<n1, n2, n3>>
MCIds == (n1 :> 2) @@ (n2 :> 1) @@ (n3 :> 3)
MCPairs == <<c, d>>
MCPeers == {<<a, 1>>, <<b, 1>>, <<w, 11>>}

Row(peer, mode, nets, on, key) ==
    [peer |-> peer, mode |-> mode, nets |-> nets, on |-> on, auth |-> TRUE,
     key |-> key]

MCUsers ==
    {(n1 :> Row(<<a, 1>>, m, {x}, TRUE, p)) @@ (n3 :> NoUser)
        @@ (n2 :> Row(<<b, 1>>, m, {}, TRUE, q)),
     (n2 :> Row(<<a, 1>>, m, {x}, TRUE, NoKey)) @@ (n1 :> NoUser)
        @@ (n3 :> Row(<<w, 11>>, m, {}, FALSE, p))}
MCModes ==
    {(k :> NoMode) @@
     (m :> [on |-> TRUE, feeds |-> {f}, num |-> (c :> 1) @@ (d :> 2)])}

MCRows ==
    {Exported(Row(peer, mode, nets, TRUE, NoKey)) :
        peer \in MCPeers, mode \in {m, k}, nets \in {{}, {x}}}
    \cup {Exported(Row(<<a, 1>>, m, {x}, FALSE, NoKey))}
Parts(ns) == [ns -> MCRows]
ModePart(on, fs, num) == [on |-> on, feeds |-> fs, num |-> num]
NoModes == [mo \in {} |-> NoMode]
MCModeParts ==
    {k :> ModePart(TRUE, {f, g}, c :> 1),
     m :> ModePart(TRUE, {g}, (c :> 2) @@ (d :> 1)),
     (m :> ModePart(FALSE, {f}, c :> 2)) @@ (k :> ModePart(TRUE, {}, << >>))}
MCSnapshots ==
    {[users |-> us, modes |-> NoModes] :
        us \in UNION {Parts(ns) : ns \in SUBSET Names}}
    \cup {[users |-> us, modes |-> ms] :
        us \in Parts({n1}) \cup Parts({n1, n2}), ms \in MCModeParts}
MCReplaced ==
    {[users |-> n1 :> Exported(Row(<<w, 11>>, m, {}, TRUE, NoKey)),
      modes |-> NoModes]}
MCEdits == {Row(<<b, 1>>, m, {x}, TRUE, q), Row(<<w, 11>>, m, {}, TRUE, NoKey)}
=============================================================================
