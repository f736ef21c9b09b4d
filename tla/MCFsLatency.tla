---------------------------- MODULE MCFsLatency ----------------------------
(***************************************************************************)
(* Instances of FsLatency for TLC.                                         *)
(***************************************************************************)
EXTENDS FsLatency, TLC

(* Path fragments of two characters; the second prefix is a prefix of the  *)
(* first, so a sample may belong to both.                                  *)
MCPaths  == {<<"a", "b">>, <<"a", "c">>}
MCRets   == {-1, 3}    \* a failed call, and a successful one of 3 bytes
MCNests  == {<<"vfs_write", "vfs_fsync_range">>}    \* a write with O_SYNC
MCPath   == {<<"a", "b">>}
MCPrefix == [i \in 0 .. 1 |-> IF i = 0 THEN [pathlen |-> 1, path_prefix |-> <<"a", "">>]
                                       ELSE [pathlen |-> 2, path_prefix |-> <<"a", "b">>]]
MCPrefix1 == [i \in {0} |-> [pathlen |-> 1, path_prefix |-> <<"a", "">>]]

(* The threads are interchangeable.                                        *)
Symmetry == Permutations(Threads)
=============================================================================
