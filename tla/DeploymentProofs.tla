-------------------------- MODULE DeploymentProofs --------------------------
(* The two services agree on the ring, and no stats map is left with a     *)
(* part of the list, for any number of starts.                             *)
EXTENDS Deployment, TLAPS

(***************************************************************************)
(* While the daemon's service is active, the pin is the ring it created,   *)
(* and whoever has a ring has that one: the producer holds none when the   *)
(* service starts, because its stop comes first, and takes it from the pin *)
(* afterwards.                                                             *)
(***************************************************************************)
RingInv ==
  /\ rings \in Nat
  /\ prod_ring # 0 => vfs \in {"load", "attach", "running"}
  /\ ldms = "create" => vfs = "stopped"
  /\ ldms = "active" => pin # 0
  /\ ldms_ring # 0 => ldms = "active" /\ ldms_ring = pin
  /\ ldms = "active" /\ prod_ring # 0 => prod_ring = pin

(* After a start that found a ring pinned there is no producer to pin      *)
(* another before the pin is removed.                                      *)
BlockInv ==
  /\ blocked \in {0, 1}
  /\ blocked = 1 => /\ vfs = "stopped"
                    /\ ldms \in {"stopped", "create", "post"}
                    /\ ldms # "post" => pin = 0

Inv == RingInv /\ BlockInv

(* The steps of ebpf-ldms.service. *)
LEMMA LdmsKeepsInv ==
  ASSUME Inv, \/ StartLdms \/ CreateRing \/ CreateFails \/ OpenRing \/ LdmsEnds \/ StopLdms
              \/ RemovePin
  PROVE  Inv'
<1>. USE DEF Inv, RingInv, BlockInv, vfsVars, postVars
<1>1. CASE StartLdms
  BY <1>1 DEF StartLdms
<1>2. CASE CreateRing
  BY <1>2 DEF CreateRing
<1>3. CASE CreateFails
  BY <1>3 DEF CreateFails
<1>4. CASE OpenRing
  BY <1>4 DEF OpenRing
<1>5. CASE LdmsEnds
  BY <1>5 DEF LdmsEnds
<1>6. CASE StopLdms
  BY <1>6 DEF StopLdms
<1>7. CASE RemovePin
  BY <1>7 DEF RemovePin
<1>. QED  BY <1>1, <1>2, <1>3, <1>4, <1>5, <1>6, <1>7

(* The steps of vfslatency.service and of main. *)
LEMMA VfsKeepsInv ==
  ASSUME Inv, StartVfs \/ PinSeen \/ StopVfs \/ VfsEnds \/ Reap \/ StartTimeout \/ VfsMain
  PROVE  Inv'
<1>. USE DEF Inv, RingInv, BlockInv, ldmsVars, postVars
<1>1. CASE StartVfs \/ PinSeen
  BY <1>1 DEF StartVfs, PinSeen
<1>2. CASE StopVfs \/ Reap \/ StartTimeout
  BY <1>2 DEF StopVfs, Reap, StartTimeout, VfsGone
<1>5. CASE CheckFails \/ LoadFails \/ VfsEnds
  BY <1>5 DEF CheckFails, LoadFails, VfsEnds, MainGone
<1>3. CASE LoadRing
  BY <1>3 DEF LoadRing
<1>4. CASE Check \/ (\E m \in Maps : LoadMap(m)) \/ Loaded \/ Attach
  BY <1>4 DEF Check, LoadMap, Loaded, Attach
<1>. QED  BY <1>1, <1>2, <1>3, <1>4, <1>5 DEF VfsMain

(* The steps of the script. *)
LEMMA ScriptKeepsInv == ASSUME Inv, Script PROVE Inv'
<1>. USE DEF Inv, RingInv, BlockInv, ldmsVars, vfsVars
<1>1. CASE ScriptRefuses \/ ScriptUpdateFails
  BY <1>1 DEF ScriptRefuses, ScriptUpdateFails
<1>2. CASE MapSeen \/ ScriptMap \/ ScriptUpdate \/ ScriptNext \/ ScriptDone
  BY <1>2 DEF MapSeen, ScriptMap, ScriptUpdate, ScriptNext, ScriptDone
<1>. QED  BY <1>1, <1>2 DEF Script

(* Every step keeps the invariant, which holds at first. *)
LEMMA Inductive == Spec => []Inv
<1>1. Init => Inv
  BY DEF Init, Inv, RingInv, BlockInv
<1>2. Inv /\ [Next]_vars => Inv'
  <2>. SUFFICES ASSUME Inv, [Next]_vars PROVE Inv'
    OBVIOUS
  <2>1. CASE UNCHANGED vars
    BY <2>1 DEF vars, ldmsVars, vfsVars, Inv, RingInv, BlockInv
  <2>. QED  BY <2>1, LdmsKeepsInv, VfsKeepsInv, ScriptKeepsInv DEF Next
<1>. QED  BY <1>1, <1>2, PTL DEF Spec

(* The daemon never reads another ring than the one the probes write to,   *)
(* whatever the order of starts, stops and crashes.                        *)
THEOREM RingsAgree == Spec => []SameRing
<1>1. Inv => SameRing
  BY DEF Inv, RingInv, SameRing
<1>. QED  BY <1>1, Inductive, PTL

(* A ring that was left pinned fails at most one start of the daemon.      *)
THEOREM BlockedAtMostOnce == Spec => []BlockedOnce
<1>1. Inv => BlockedOnce
  BY DEF Inv, BlockInv, BlockedOnce
<1>. QED  BY <1>1, Inductive, PTL

-----------------------------------------------------------------------------
(* Where the script is, beside the types: it runs only after ExecStartPre, *)
(* a map it is writing has a name, and only that map may have a part of    *)
(* the list, until the script fails.                                       *)
ListInv ==
  /\ TypeOK
  /\ vfs \in {"stopped", "pre"} => post = "none"
  /\ post = "update" => name <= Len(StatsMaps) /\ key <= prefixes
  /\ \A m \in Maps : \/ written[m] \in {0, prefixes}
                     \/ post = "update" /\ m = StatsMaps[name] /\ written[m] = key
                     \/ post = "failed"

(* The name that the script is at is that of a stats map. *)
LEMMA NameOfMap ==
  /\ Len(StatsMaps) \in Nat
  /\ \A i \in 1 .. Len(StatsMaps) : StatsMaps[i] \in Maps
BY ConstantsAssumption DEF Maps

(* The one Boolean is kept apart: the SMT encoding does not see that FALSE *)
(* is in BOOLEAN.                                                          *)
LEMMA JobBoolean == ASSUME stopjob \in BOOLEAN, [Next]_vars PROVE stopjob' \in BOOLEAN
<1>1. CASE UNCHANGED vars
  BY <1>1 DEF vars, vfsVars
<1>2. CASE StopVfs \/ Reap \/ StartTimeout
  BY <1>2, Zenon DEF StopVfs, Reap, StartTimeout, VfsGone
<1>5. CASE CheckFails \/ LoadFails \/ VfsEnds \/ ScriptRefuses \/ ScriptUpdateFails
  BY <1>5 DEF CheckFails, LoadFails, VfsEnds, MainGone, ScriptRefuses, ScriptUpdateFails,
     vfsVars
<1>3. CASE LdmsEnds \/ StopLdms
  BY <1>3, Zenon DEF LdmsEnds, StopLdms
<1>4. CASE \/ StartLdms \/ CreateRing \/ CreateFails \/ OpenRing \/ RemovePin \/ StartVfs
           \/ PinSeen \/ Check \/ LoadRing \/ (\E m \in Maps : LoadMap(m)) \/ Loaded \/ Attach
           \/ MapSeen \/ ScriptMap \/ ScriptUpdate \/ ScriptNext \/ ScriptDone
  BY <1>4 DEF StartLdms, CreateRing, CreateFails, OpenRing, RemovePin, StartVfs, PinSeen,
     Check, LoadRing, LoadMap, Loaded, Attach, MapSeen, ScriptMap, ScriptUpdate, ScriptNext,
     ScriptDone, vfsVars
<1>. QED  BY <1>1, <1>2, <1>3, <1>4, <1>5 DEF Next, VfsMain, Script

(* Neither service touches what the script wrote, save by ending it. *)
LEMMA LdmsKeepsLists ==
  ASSUME ListInv, stopjob' \in BOOLEAN
  PROVE  \/ StartLdms \/ CreateRing \/ CreateFails \/ OpenRing \/ LdmsEnds \/ StopLdms
         \/ RemovePin
         => ListInv'
<1>. USE ConstantsAssumption, NameOfMap DEF ListInv, TypeOK
<1>1. ASSUME StartLdms PROVE ListInv'
  BY <1>1 DEF StartLdms, vfsVars, postVars
<1>2. ASSUME CreateRing PROVE ListInv'
  BY <1>2 DEF CreateRing, vfsVars, postVars
<1>3. ASSUME CreateFails PROVE ListInv'
  BY <1>3 DEF CreateFails, vfsVars, postVars
<1>4. ASSUME OpenRing PROVE ListInv'
  BY <1>4 DEF OpenRing, vfsVars, postVars
<1>5. ASSUME LdmsEnds PROVE ListInv'
  BY <1>5 DEF LdmsEnds, postVars
<1>6. ASSUME StopLdms PROVE ListInv'
  BY <1>6 DEF StopLdms, postVars
<1>7. ASSUME RemovePin PROVE ListInv'
  BY <1>7 DEF RemovePin, vfsVars, postVars
<1>. QED  BY <1>1, <1>2, <1>3, <1>4, <1>5, <1>6, <1>7, Zenon

LEMMA VfsKeepsLists ==
  ASSUME ListInv, stopjob' \in BOOLEAN
  PROVE  StartVfs \/ PinSeen \/ StopVfs \/ VfsEnds \/ Reap \/ StartTimeout \/ VfsMain
         => ListInv'
<1>. USE ConstantsAssumption, NameOfMap DEF ListInv, TypeOK
<1>1. ASSUME StartVfs PROVE ListInv'
  BY <1>1 DEF StartVfs, ldmsVars, postVars
<1>2. ASSUME PinSeen PROVE ListInv'
  BY <1>2 DEF PinSeen, ldmsVars
<1>3. ASSUME VfsGone, UNCHANGED <<ldmsVars, prefixes>> PROVE ListInv'
  <2>1. /\ \A m \in Maps : written'[m] = 0
        /\ written' \in [Maps -> 0 .. NumPathPrefix]
    BY <1>3 DEF VfsGone
  <2>. QED  BY <1>3, <2>1 DEF VfsGone, ldmsVars
<1>4. ASSUME LoadRing PROVE ListInv'
  BY <1>4 DEF LoadRing, postVars
<1>5. ASSUME Check \/ Loaded \/ (\E m \in Maps : LoadMap(m)) PROVE ListInv'
  BY <1>5 DEF Check, Loaded, LoadMap, ldmsVars, postVars
<1>6. ASSUME Attach PROVE ListInv'
  BY <1>6 DEF Attach, ldmsVars, postVars
<1>7. ASSUME StopVfs \/ Reap \/ StartTimeout PROVE ListInv'
  BY <1>3, <1>7, Zenon DEF StopVfs, Reap, StartTimeout
<1>8. ASSUME MainGone PROVE ListInv'
  <2>1. /\ \A m \in Maps : written'[m] = 0
        /\ written' \in [Maps -> 0 .. NumPathPrefix]
    BY <1>8 DEF MainGone
  <2>. QED  BY <1>8, <2>1 DEF MainGone, ldmsVars
<1>9. ASSUME CheckFails \/ LoadFails \/ VfsEnds PROVE ListInv'
  BY <1>8, <1>9, Zenon DEF CheckFails, LoadFails, VfsEnds
<1>. QED  BY <1>1, <1>2, <1>4, <1>5, <1>6, <1>7, <1>9, Zenon DEF VfsMain

(* The script leaves a map only with the whole list in it, or fails. *)
LEMMA ScriptKeepsLists == ASSUME ListInv, Script, stopjob' \in BOOLEAN PROVE ListInv'
<1>. USE ConstantsAssumption, NameOfMap DEF ListInv, TypeOK
<1>1. CASE ScriptRefuses \/ ScriptUpdateFails
  BY <1>1 DEF ScriptRefuses, ScriptUpdateFails, ldmsVars, vfsVars
<1>2. CASE MapSeen \/ ScriptDone
  BY <1>2 DEF MapSeen, ScriptDone, ldmsVars, vfsVars
<1>3. CASE ScriptMap
  BY <1>3 DEF ScriptMap, ldmsVars, vfsVars
<1>4. CASE ScriptUpdate
  BY <1>4 DEF ScriptUpdate, ldmsVars, vfsVars
<1>5. CASE ScriptNext
  BY <1>5 DEF ScriptNext, ldmsVars, vfsVars
<1>. QED  BY <1>1, <1>2, <1>3, <1>4, <1>5 DEF Script

LEMMA ListInductive == Spec => []ListInv
<1>1. Init => ListInv
  <2>. SUFFICES ASSUME Init PROVE ListInv
    OBVIOUS
  <2>1. stopjob \in BOOLEAN
    BY Zenon DEF Init
  <2>. QED  BY <2>1, ConstantsAssumption, NameOfMap DEF Init, ListInv, TypeOK
<1>2. ListInv /\ [Next]_vars => ListInv'
  <2>. SUFFICES ASSUME ListInv, [Next]_vars PROVE ListInv'
    OBVIOUS
  <2>1. CASE UNCHANGED vars
    BY <2>1 DEF vars, ldmsVars, vfsVars, postVars, ListInv, TypeOK
  <2>2. stopjob' \in BOOLEAN
    BY JobBoolean DEF ListInv, TypeOK
  <2>. QED  BY <2>1, <2>2, LdmsKeepsLists, VfsKeepsLists, ScriptKeepsLists DEF Next
<1>. QED  BY <1>1, <1>2, PTL DEF Spec

(* The types, and with them that the script writes no prefix past the end  *)
(* of a stats map, whatever the number of words in PREFIXES.               *)
THEOREM DeploymentTyped == Spec => []TypeOK
<1>1. ListInv => TypeOK
  BY DEF ListInv
<1>. QED  BY <1>1, ListInductive, PTL

(* When the script is done, each stats map has the whole list of prefixes  *)
(* or nothing, for every list and every number of maps, although the check *)
(* of the script lets a list through that is one prefix too long.          *)
THEOREM NoPartOfAList == Spec => []WholeLists
<1>1. ListInv => WholeLists
  BY DEF ListInv, WholeLists
<1>. QED  BY <1>1, ListInductive, PTL
=============================================================================
