-------------------------- MODULE MCSortedListing --------------------------
(***************************************************************************)
(* Namespaces over '-', '/' and '0' for SortedListing: the root may hold   *)
(* 0, 0- and 00, the first two as files or directories: by its name 0 is   *)
(* the first of them, as a directory it sorts between the other two.       *)
(***************************************************************************)
EXTENDS SortedListing

Dash == 45
Zero == 48

Z == <<Zero>>
ZD == <<Zero, Dash>>
ZZ == <<Zero, Zero>>

MCLeaf == {ZZ, ZD \o <<Slash, Zero>>, Z \o <<Slash, Zero, Slash, Zero>>}

MCPath == MCLeaf \cup {Z, ZD, Z \o <<Slash, Zero>>}

MCPrefixes == {Root, Z \o <<Slash>>, ZD}

MCMarkers == {NoMarker, Z \o <<Slash, Zero>>}

\* A smaller namespace, for two sessions: the file 0- sorts before what 0 holds.
MCSmallLeaf == {ZD, Z \o <<Slash, Zero>>}

MCSmallPath == MCSmallLeaf \cup {Z}

MCRootOnly == {Root}

MCNoMarker == {NoMarker}
=============================================================================
