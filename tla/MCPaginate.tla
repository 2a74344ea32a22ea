----------------------------- MODULE MCPaginate -----------------------------
(***************************************************************************)
(* Keys over '-', '/' and '0' for Paginate: names that are prefixes of     *)
(* each other and whose next byte is on either side of the slash.          *)
(***************************************************************************)
EXTENDS Paginate

Dash == 45
Zero == 48

\* 0  0-  0-0  00  -  in the root, 0 and 0- in the directory 0
MCNames == {<<Zero>>, <<Zero, Dash>>, <<Zero, Dash, Zero>>, <<Zero, Zero>>, <<Dash>>}

MCDirKeys == MCNames \cup {<<Zero, Slash>> \o n : n \in {<<Zero>>, <<Zero, Dash>>}}

MCFileKeys == MCDirKeys

\* No prefix, a name, a name below the others, a directory.
MCPrefixes == {<<>>, <<Zero>>, <<Dash>>, <<Zero, Slash>>}

MCDelimiters == {Slash, Dash}

MCMarkers == {NoMarker, <<Zero>>, <<Zero, Dash>>, <<Zero, Slash>>, <<Zero, Slash, Zero>>,
              <<Zero, Zero>>, <<Zero, Dash, Slash, Dash>>}
=============================================================================
