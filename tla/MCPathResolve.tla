---------------------------- MODULE MCPathResolve ----------------------------
(* Small instances of PathResolve. *)
EXTENDS PathResolve

(* The root file system holds /1/2/3/4/5; on /1 another one is mounted,    *)
(* with 6/7/11 and 6/8 in it, whose own root is dentry 9.  10 is the root  *)
(* of a pipe's pseudo file system.                                         *)
MCDentries   == 0 .. 11
MCMounts     == {"top", "fs", "pipe"}
MCMntRoot    == [m \in MCMounts |-> CASE m = "top" -> 0 [] m = "fs" -> 9 [] m = "pipe" -> 10]
MCMntParent  == [m \in MCMounts |-> IF m = "fs" THEN "top" ELSE m]
MCMountpoint == [m \in MCMounts |-> IF m = "fs" THEN 1 ELSE MCMntRoot[m]]
MCParent0    == [d \in MCDentries |-> CASE d \in 1 .. 5  -> d - 1
                                        [] d = 6         -> 9
                                        [] d \in {7, 8}  -> 6
                                        [] d = 11        -> 7
                                        [] OTHER         -> d]

Letters(c, n) == [i \in 1 .. n |-> c]

(* Short names, and names as long as the fragment or longer.               *)
Named(lens) == [d \in MCDentries |->
                  CASE d \in {0, 9, 10} -> <<"/">>
                    [] d = 1 -> Letters("a", lens[1]) [] d = 2 -> Letters("b", lens[2])
                    [] d = 3 -> Letters("c", lens[3]) [] d = 4 -> Letters("d", 1)
                    [] d = 5 -> Letters("e", 1)       [] d = 6 -> Letters("f", lens[2])
                    [] d = 7 -> Letters("g", 1)       [] d = 8 -> Letters("h", 2)
                    [] d = 11 -> Letters("k", 1)]

MCNamings == {Named(lens) : lens \in [1 .. 3 -> {1, 5, 7}]} \union {Named(<<2, 2, 2>>)}

MCFiles == ({"top"} \X (0 .. 5)) \union ({"fs"} \X {6, 7, 8, 9, 11}) \union {<<"pipe", 10>>}
MCRoots == {<<"top", 0>>, <<"top", 2>>, <<"fs", 6>>}
MCMoves == {<<6, 9, <<"x">>>>, <<7, 9, <<"g">>>>, <<8, 7, <<"h">>>>, <<8, 9, <<"y">>>>,
            <<7, 8, <<"g">>>>, <<7, 6, <<"z">>>>}
=============================================================================
