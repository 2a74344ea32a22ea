----------------------------- MODULE MCStartup -----------------------------
(* hdfs_root settings for Startup: "/", "/a", and "a/../a/" in need of      *)
(* normalization.                                                          *)
EXTENDS Startup

A == 97

MCRoots == {<<Slash>>, <<Slash, A>>, <<A, Slash, Dot, Dot, Slash, A, Slash>>}
=============================================================================
