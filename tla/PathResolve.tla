----------------------------- MODULE PathResolve -----------------------------
(***************************************************************************)
(* How try_fslat_entry finds the first characters of a file's path:        *)
(* partial_d_path with its two bpf_loop callbacks, path_walk_step and      *)
(* assemble_pathfrag (vfslatency-common/src/lib.rs), on the scratch        *)
(* buffers PATHBUF and PATHBUFTMP of one CPU (maps.rs).  Calls follow each *)
(* other on the same buffers; other CPUs rename directories meanwhile,     *)
(* and the walk takes no lock against them.                                *)
(***************************************************************************)
EXTENDS Integers, Sequences, SequencesExt

CONSTANTS
  Dentries,
  Mounts,
  Namings,         \* the names the dentries may have at first
  Parent0,         \* d_parent at first; a root is its own parent
  MntRoot,         \* mnt.mnt_root of each mount
  MntParent,       \* mnt_parent; the top mount is its own parent
  Mountpoint,      \* mnt_mountpoint
  Files,           \* <<mount, dentry>> of the files operated on
  Roots,           \* <<mount, dentry>>: possible roots of the process
  Moves,           \* <<dentry, new parent, new name>>: renames, each in one mount
  PathFragLen,     \* PATHFRAGLEN
  PathCompLen,     \* PATHCOMPLEN
  NumComp,         \* NUM_COMP
  MaxParent,       \* MAX_PARENT
  MaxParentLoop,   \* MAX_PARENT_LOOP
  MaxCalls,        \* bound on the number of calls
  MaxRenames       \* bound on the number of renames

ASSUME ConstantsAssumption ==
  /\ Namings \subseteq [Dentries -> Seq(STRING)]
  /\ Parent0 \in [Dentries -> Dentries]
  /\ MntRoot \in [Mounts -> Dentries]
  /\ MntParent \in [Mounts -> Mounts]
  /\ Mountpoint \in [Mounts -> Dentries]
  /\ Files \subseteq Mounts \X Dentries
  /\ Roots \subseteq Mounts \X Dentries
  /\ Moves \subseteq Dentries \X Dentries \X Seq(STRING)
  /\ PathFragLen \in Nat \ {0}
  /\ PathCompLen \in Nat \ {0}
  /\ NumComp \in Nat \ {0}
  /\ MaxParent \in Nat
  /\ MaxParentLoop \in Nat
  /\ MaxCalls \in Nat
  /\ MaxRenames \in Nat

(* The sizes of vfslatency-common/src/lib.rs are 32, 32 and 16: a name that *)
(* is cut fills the fragment, and the ring holds enough components for it. *)
ASSUME SizesAssumption ==
  /\ PathCompLen >= 2 /\ PathCompLen >= PathFragLen
  /\ 2 * NumComp >= PathFragLen

(* Only a root may have an empty name, or one with a "/".                  *)
ProperName(s) == s # <<>> /\ s[1] # "/"

ASSUME NamesAssumption ==
  /\ \A nm \in Namings, d \in Dentries : Parent0[d] # d => ProperName(nm[d])
  /\ \A m \in Moves : ProperName(m[3])

(* Directories that are not renamed, and neither is one above them.        *)
Settled(ds) ==
  /\ \A m \in Moves : m[1] \notin ds
  /\ \A d \in ds : Parent0[d] \in ds

(* What is below the root of a mount, and stays there.                     *)
Holds(mt, ds) ==
  /\ \A f \in Files : f[1] = mt => f[2] \in ds
  /\ \A d \in ds \ {MntRoot[mt]} : Parent0[d] \in ds /\ Parent0[d] # d
  /\ \A m \in Moves : m[1] \in ds \ {MntRoot[mt]} => m[2] \in ds /\ m[2] # m[1]

(* Renames stay in their file system and below its root, and they leave    *)
(* the paths to the mount points alone.                                    *)
ASSUME MountsAssumption ==
  /\ \E ds \in SUBSET Dentries :
       Settled(ds) /\ \A mt \in Mounts :
         (IF MntParent[mt] # mt THEN Mountpoint[mt] ELSE MntRoot[mt]) \in ds
  /\ \A mt \in Mounts : \E ds \in SUBSET Dentries : Holds(mt, ds)

VARIABLES
  d_name, d_parent,    \* the dentries
  root,                \* fs->root of the process
  pc,                  \* where the handler is
  file,                \* the path argument: <<mount, dentry>>
  dentry, mnt,         \* PathWalkCtx
  parent,              \* local of path_walk_step
  iter,                \* the iteration of the current bpf_loop
  loop_ctr, mod_ctr, is_absolute,
  PATHBUFTMP,          \* components, a ring: [len, pathcomp]
  PATHBUF,             \* the fragment, PathFragLen characters
  start, copied, num_components,   \* AssembleCtx
  entryrec,            \* the path of the record that was inserted last
  calls, renames       \* history

tree   == <<d_name, d_parent, root>>
walk   == <<dentry, mnt, parent, loop_ctr, mod_ctr, is_absolute>>
assem  == <<start, copied, num_components>>
bufs   == <<PATHBUFTMP, PATHBUF>>
vars   == <<tree, pc, file, walk, iter, bufs, assem, entryrec, calls, renames>>

-----------------------------------------------------------------------------
ZeroBuf == [i \in 1 .. PathFragLen |-> ""]   \* "" is the NUL character

(* bpf_dynptr_write: all or nothing.                                       *)
DynptrWrite(buf, off, data) ==
  IF off + Len(data) > PathFragLen THEN buf
  ELSE [i \in DOMAIN buf |-> IF i \in (off + 1) .. (off + Len(data))
                             THEN data[i - off] ELSE buf[i]]

Least(a, b) == IF a <= b THEN a ELSE b

(* bpf_probe_read_kernel_str_bytes: the last byte of the buffer is NUL.    *)
ReadStrMutant(s) == SubSeq(s, 1, Least(Len(s), PathCompLen))   \* mutant: no NUL
ReadStr(s) == SubSeq(s, 1, Least(Len(s), PathCompLen - 1))

(* ModNumC: arithmetic modulo NUM_COMP.                                    *)
Mod(n) == n % NumComp

Init ==
  /\ d_name \in Namings
  /\ d_parent = Parent0
  /\ root \in Roots
  /\ pc = "idle"
  /\ file = <<>>
  /\ dentry = root[2] /\ mnt = root[1] /\ parent = root[2]
  /\ iter = 0
  /\ loop_ctr = 0 /\ mod_ctr = 0 /\ is_absolute = FALSE
  /\ PATHBUFTMP = [i \in 0 .. (NumComp - 1) |-> [len |-> 0, pathcomp |-> <<>>]]
  /\ PATHBUF = ZeroBuf
  /\ start = 0 /\ copied = 0 /\ num_components = 0
  /\ entryrec = <<>>
  /\ calls = 0 /\ renames = 0

(* The probe is entered for a file: partial_d_path up to its first loop.   *)
Enter(f) ==
  /\ pc = "idle"
  /\ calls < MaxCalls
  /\ calls' = calls + 1
  /\ file' = f
  /\ mnt' = f[1]
  /\ dentry' = f[2]
  /\ iter' = 0
  /\ loop_ctr' = 0
  /\ mod_ctr' = 0
  /\ is_absolute' = FALSE
  /\ entryrec' = <<>>
  /\ pc' = "walk"
  /\ UNCHANGED <<tree, parent, bufs, assem, renames>>

(* path_walk_step up to the read of the name: one read of d_parent, then   *)
(* the tests of fs/d_path.c.                                               *)
AtRoot == dentry = root[2] /\ mnt = root[1]
AtMountRoot == dentry = MntRoot[mnt] /\ mnt # MntParent[mnt]

WalkRoot ==
  /\ pc = "walk" /\ iter < MaxParentLoop
  /\ AtRoot \/ (~ AtMountRoot /\ dentry = d_parent[dentry])
  /\ is_absolute' = TRUE
  /\ pc' = "walked"
  /\ UNCHANGED <<tree, file, dentry, mnt, parent, loop_ctr, mod_ctr, iter, bufs, assem,
                 entryrec, calls, renames>>

WalkMountMutant ==   \* mutant: mnt_mountpoint is forgotten
  /\ pc = "walk" /\ iter < MaxParentLoop
  /\ ~ AtRoot /\ AtMountRoot
  /\ mnt' = MntParent[mnt]
  /\ iter' = iter + 1
  /\ UNCHANGED <<tree, pc, file, dentry, parent, loop_ctr, mod_ctr, is_absolute, bufs, assem,
                 entryrec, calls, renames>>

WalkMount ==
  /\ pc = "walk" /\ iter < MaxParentLoop
  /\ ~ AtRoot /\ AtMountRoot
  /\ dentry' = Mountpoint[mnt]
  /\ mnt' = MntParent[mnt]
  /\ iter' = iter + 1
  /\ UNCHANGED <<tree, pc, file, parent, loop_ctr, mod_ctr, is_absolute, bufs, assem,
                 entryrec, calls, renames>>

WalkParent ==
  /\ pc = "walk" /\ iter < MaxParentLoop
  /\ ~ AtRoot /\ ~ AtMountRoot /\ dentry # d_parent[dentry]
  /\ parent' = d_parent[dentry]
  /\ pc' = "name"
  /\ UNCHANGED <<tree, file, dentry, mnt, loop_ctr, mod_ctr, is_absolute, iter, bufs, assem,
                 entryrec, calls, renames>>

WalkOut ==
  /\ pc = "walk" /\ iter >= MaxParentLoop
  /\ pc' = "walked"
  /\ UNCHANGED <<tree, file, walk, iter, bufs, assem, entryrec, calls, renames>>

(* The rest of path_walk_step: the name goes into the ring of components.  *)
WalkName ==
  /\ pc = "name"
  /\ PATHBUFTMP' = [PATHBUFTMP EXCEPT ![mod_ctr] =
                      [len |-> Len(ReadStr(d_name[dentry])),
                       pathcomp |-> ReadStr(d_name[dentry])]]
  /\ dentry' = parent
  /\ loop_ctr' = loop_ctr + 1
  /\ mod_ctr' = Mod(mod_ctr + 1)
  /\ iter' = iter + 1
  /\ pc' = IF loop_ctr' > MaxParent THEN "walked" ELSE "walk"
  /\ UNCHANGED <<tree, file, mnt, parent, is_absolute, PATHBUF, assem, entryrec, calls,
                 renames>>

(* partial_d_path between its loops.                                       *)
StartIndexMutant == mod_ctr   \* mutant: the element to be filled next
StartIndex == Mod(mod_ctr - 1)

StartAssembly ==
  /\ pc = "walked"
  /\ start' = StartIndex
  /\ num_components' = Least(NumComp, loop_ctr)
  /\ copied' = IF is_absolute THEN 1 ELSE 0
  /\ PATHBUF' = IF is_absolute THEN DynptrWrite(PATHBUF, 0, <<"/">>) ELSE PATHBUF
  /\ iter' = 0
  /\ pc' = "assemble"
  /\ UNCHANGED <<tree, file, walk, PATHBUFTMP, entryrec, calls, renames>>

(* assemble_pathfrag.  The "/" is written behind the whole component, even *)
(* when only a part of it fitted: then that write fails.                   *)
AssembleStep ==
  LET elem == Mod(start - iter)
      comp == PATHBUFTMP[elem]
      len  == Least(comp.len, PathFragLen)
      n    == Least(len, PathFragLen - copied)
      last == iter >= num_components - 1
      buf  == DynptrWrite(PATHBUF, copied, SubSeq(comp.pathcomp, 1, n))
  IN  /\ pc = "assemble" /\ iter < num_components
      /\ copied \in 0 .. PathFragLen
      /\ PATHBUF' = IF last THEN buf ELSE DynptrWrite(buf, copied + len, <<"/">>)
      /\ copied' = copied + n + (IF last THEN 0 ELSE 1)
      /\ PATHBUFTMP' = [PATHBUFTMP EXCEPT ![elem].len = 0]
      /\ iter' = iter + 1
      /\ UNCHANGED <<tree, pc, file, walk, start, num_components, entryrec, calls, renames>>

(* The loop is over, or the fragment is full.  The entry record gets a     *)
(* copy of PATHBUF, which is cleared for the next call.                    *)
ClearMutant == UNCHANGED PATHBUF   \* mutant: the scratch buffer is not cleared
Clear == PATHBUF' = ZeroBuf

Finish ==
  /\ pc = "assemble"
  /\ iter >= num_components \/ copied \notin 0 .. PathFragLen
  /\ entryrec' = PATHBUF
  /\ Clear
  /\ pc' = "idle"
  /\ UNCHANGED <<tree, file, walk, iter, PATHBUFTMP, assem, calls, renames>>

(* Another CPU renames a directory while a walk may be under way; not into *)
(* its own subtree.                                                        *)
Ancestors[n \in Nat, d \in Dentries] ==
  IF n = 0 THEN {d} ELSE {d} \union Ancestors[n - 1, d_parent[d]]

AncestorsOf(d) == Ancestors[Cardinality(Dentries), d]

Rename(m) ==
  /\ renames < MaxRenames
  /\ renames' = renames + 1
  /\ d_parent[m[1]] # m[2] \/ d_name[m[1]] # m[3]
  /\ m[1] \notin AncestorsOf(m[2])
  /\ d_parent' = [d_parent EXCEPT ![m[1]] = m[2]]
  /\ d_name' = [d_name EXCEPT ![m[1]] = m[3]]
  /\ UNCHANGED <<root, pc, file, walk, iter, bufs, assem, entryrec, calls>>

Next ==
  \/ \E f \in Files : Enter(f)
  \/ WalkRoot \/ WalkMount \/ WalkParent \/ WalkOut \/ WalkName
  \/ StartAssembly \/ AssembleStep \/ Finish
  \/ \E m \in Moves : Rename(m)

Spec == Init /\ [][Next]_vars

-----------------------------------------------------------------------------
Component == [len : Nat, pathcomp : Seq(STRING)]

(* The scratch buffers never change size, and every index the handler uses *)
(* on them (the ring of components, the offset of the next write) is one   *)
(* the map or the dynptr has, or is caught before it is used.              *)
TypeOK ==
  /\ d_name \in [Dentries -> Seq(STRING)]
  /\ d_parent \in [Dentries -> Dentries]
  /\ pc \in {"idle", "walk", "name", "walked", "assemble"}
  /\ dentry \in Dentries /\ parent \in Dentries /\ mnt \in Mounts
  /\ iter \in Nat
  /\ loop_ctr \in 0 .. (MaxParent + 1)
  /\ mod_ctr \in 0 .. (NumComp - 1)
  /\ is_absolute \in BOOLEAN
  /\ PATHBUFTMP \in [0 .. (NumComp - 1) -> Component]
  /\ \A i \in 0 .. (NumComp - 1) : /\ Len(PATHBUFTMP[i].pathcomp) < PathCompLen
                                   /\ PATHBUFTMP[i].len <= Len(PATHBUFTMP[i].pathcomp)
  /\ DOMAIN PATHBUF = 1 .. PathFragLen
  /\ start \in 0 .. (NumComp - 1)
  /\ copied \in 0 .. (PathFragLen + 1)

(* The reference: the components of a path from the root of the process    *)
(* down, by the definition of a path.  rt is that root, par and nm the     *)
(* parents and names of the dentries; n bounds the steps from p upwards.   *)
Positions == Mounts \X Dentries
Crosses(p) == p[2] = MntRoot[p[1]] /\ MntParent[p[1]] # p[1]
Ends(rt, par, p) == p = rt \/ (~ Crosses(p) /\ par[p[2]] = p[2])
Up(par, p) ==
  IF Crosses(p) THEN <<MntParent[p[1]], Mountpoint[p[1]]>> ELSE <<p[1], par[p[2]]>>

Components(rt, par, nm) ==
  LET comps[n \in Nat] ==
        [p \in Positions |->
           IF n = 0 \/ Ends(rt, par, p) THEN <<>>
           ELSE IF Crosses(p) THEN comps[n - 1][Up(par, p)]
           ELSE Append(comps[n - 1][Up(par, p)], nm[p[2]])]
  IN  comps

(* Whether a walk of n steps from p, the one at the root too, gets there.  *)
Reaches(rt, par) ==
  LET reach[n \in Nat] ==
        [p \in Positions |-> n > 0 /\ (Ends(rt, par, p) \/ reach[n - 1][Up(par, p)])]
  IN  reach

PathOf(f) == Components(root, d_parent, d_name)[MaxParentLoop][f]

InReach(f) ==
  /\ Reaches(root, d_parent)[MaxParentLoop][f]
  /\ Len(PathOf(f)) <= MaxParent

(* A path's characters; its first ones, with NUL behind its end.           *)
Characters(comps) ==
  IF comps = <<>> THEN <<"/">>
  ELSE FlattenSeq([i \in DOMAIN comps |-> <<"/">> \o comps[i]])

Fragment(comps) ==
  LET chars == Characters(comps)
  IN  [i \in 1 .. PathFragLen |-> IF i <= Len(chars) THEN chars[i] ELSE ""]

Resolved == pc = "idle" /\ entryrec # <<>>

(* With nobody renaming, a path of at most MAX_PARENT components is        *)
(* resolved to exactly its first characters: however long its names are,   *)
(* however often the ring of components wrapped, across mounts and in a    *)
(* chroot, and whatever the calls before left in the scratch buffers.  A   *)
(* path out of the walk's reach yields a fragment without the leading "/", *)
(* which no prefix matches: never the fragment of another path.            *)
ResolvedExact ==
  Resolved /\ renames = 0 =>
    IF InReach(file) THEN entryrec = Fragment(PathOf(file)) ELSE entryrec[1] # "/"

(* Renames race with the walk, which may put together a path that never    *)
(* was.  But a rename stays in its file system: whatever part of the path  *)
(* it garbles, an absolute fragment starts with the path where the file's  *)
(* file system is mounted, so the sample goes to the right file system     *)
(* (one that holds the root of the process has no such path).              *)
MountedRight ==
  Resolved /\ entryrec[1] = "/" /\ file[1] # root[1] =>
    LET at == Fragment(PathOf(<<file[1], MntRoot[file[1]]>>))
    IN  \A i \in DOMAIN at : at[i] # "" => entryrec[i] = at[i]
=============================================================================
