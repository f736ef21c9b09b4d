----------------------------- MODULE Deployment -----------------------------
(***************************************************************************)
(* Start and stop of the two services: ebpf-ldms.service, which creates    *)
(* and removes the pinned ring around the daemon; vfslatency.service,      *)
(* bound to it; main of vfslatency, which loads the eBPF object and        *)
(* attaches the probes; and vfslatency_load_prefixes.sh, which writes the  *)
(* prefixes while the probes are being attached.  systemd, bpftool and aya *)
(* appear as these files use them.                                         *)
(***************************************************************************)
EXTENDS Integers, Sequences, FiniteSets

CONSTANTS
  StatsMaps,       \* names of the stats maps, in the script's order
  LastWaited,      \* the last name of the unit's MAP_NAMES
  NumProbes,       \* pairs of probes vfslatency attaches
  PrefixCounts,    \* how many words PREFIXES may have
  NumPathPrefix,   \* NUM_PATH_PREFIX: entries of a stats map
  MaxStarts        \* bound on the starts of ebpf-ldms.service

Maps == {StatsMaps[i] : i \in DOMAIN StatsMaps}

ASSUME ConstantsAssumption ==
  /\ StatsMaps \in Seq(STRING)
  /\ LastWaited \in Maps
  /\ NumProbes \in Nat
  /\ PrefixCounts \subseteq Nat
  /\ NumPathPrefix \in Nat \ {0}
  /\ MaxStarts \in Nat

VARIABLES
  ldms,        \* ebpf-ldms.service
  pin,         \* /sys/fs/bpf/LDMS_SHARED_STREAM: 0 or the number of a ring
  rings,       \* rings created so far
  ldms_ring,   \* the ring the daemon reads, 0 for none
  vfs,         \* vfslatency.service and its main process; "exited": only the service
  stopjob,     \* systemd is to stop vfslatency.service
  prod_ring,   \* the ring the probes write to, 0 for none
  maps,        \* the stats maps created
  attached,    \* probes attached, entry and exit probes alternating
  post,        \* ExecStartPost of vfslatency.service
  name,        \* the script: position in StatsMaps
  key,         \* the script: the prefix it writes next
  prefixes,    \* words in PREFIXES of vfslatency.service
  written,     \* written[m]: prefixes in stats map m
  starts,      \* history: starts of ebpf-ldms.service
  blocked      \* history: starts in a row that found a ring pinned

ldmsVars == <<ldms, pin, rings, ldms_ring, starts, blocked>>
vfsVars  == <<vfs, stopjob, prod_ring, maps, attached>>
postVars == <<post, name, key, written>>
vars     == <<ldmsVars, vfsVars, postVars, prefixes>>

Init ==
  /\ ldms = "stopped"
  /\ pin = 0 /\ rings = 0 /\ ldms_ring = 0
  /\ vfs = "stopped" /\ stopjob = FALSE /\ prod_ring = 0 /\ maps = {} /\ attached = 0
  /\ post = "none" /\ name = 1 /\ key = 0 /\ written = [m \in Maps |-> 0]
  /\ prefixes \in PrefixCounts
  /\ starts = 0 /\ blocked = 0

-----------------------------------------------------------------------------
(* ebpf-ldms.service.  vfslatency.service is ordered After it, so a start  *)
(* waits for a pending stop of vfslatency.                                 *)
StartLdmsMutant ==   \* mutant: vfslatency.service lacks After
  /\ ldms = "stopped" /\ starts < MaxStarts
  /\ starts' = starts + 1
  /\ ldms' = "create"
  /\ UNCHANGED <<pin, rings, ldms_ring, blocked, vfsVars, postVars, prefixes>>

StartLdms ==
  /\ ldms = "stopped" /\ starts < MaxStarts
  /\ vfs = "stopped"
  /\ starts' = starts + 1
  /\ ldms' = "create"
  /\ UNCHANGED <<pin, rings, ldms_ring, blocked, vfsVars, postVars, prefixes>>

(* ExecStartPre: bpftool map create, which fails on an existing pin.       *)
CreateRing ==
  /\ ldms = "create" /\ pin = 0
  /\ rings' = rings + 1
  /\ pin' = rings'
  /\ blocked' = 0
  /\ ldms' = "active"
  /\ UNCHANGED <<ldms_ring, starts, vfsVars, postVars, prefixes>>

CreateFails ==
  /\ ldms = "create" /\ pin # 0
  /\ blocked' = blocked + 1
  /\ ldms' = "post"
  /\ UNCHANGED <<pin, rings, ldms_ring, starts, vfsVars, postVars, prefixes>>

(* The daemon takes the map from its pin.                                  *)
OpenRing ==
  /\ ldms = "active" /\ ldms_ring = 0 /\ pin # 0
  /\ ldms_ring' = pin
  /\ UNCHANGED <<ldms, pin, rings, starts, blocked, vfsVars, postVars, prefixes>>

(* The daemon ends by itself, at any moment.  BindsTo stops vfslatency.    *)
LdmsEnds ==
  /\ ldms = "active"
  /\ ldms' = "post"
  /\ ldms_ring' = 0
  /\ stopjob' = (vfs # "stopped")
  /\ UNCHANGED <<pin, rings, starts, blocked, vfs, prod_ring, maps, attached,
                 postVars, prefixes>>

(* systemctl stop: vfslatency first.                                       *)
StopLdms ==
  /\ ldms = "active"
  /\ \/ /\ vfs # "stopped" /\ ~ stopjob
        /\ stopjob' = TRUE
        /\ UNCHANGED <<ldms, ldms_ring>>
     \/ /\ vfs = "stopped"
        /\ ldms' = "post"
        /\ ldms_ring' = 0
        /\ UNCHANGED stopjob
  /\ UNCHANGED <<pin, rings, starts, blocked, vfs, prod_ring, maps, attached,
                 postVars, prefixes>>

(* ExecStopPost, which systemd runs after a failed start, too.             *)
RemovePinMutant ==   \* mutant: only after a start that succeeded
  /\ ldms = "post"
  /\ pin' = IF blocked = 0 THEN 0 ELSE pin
  /\ ldms' = "stopped"
  /\ UNCHANGED <<rings, ldms_ring, starts, blocked, vfsVars, postVars, prefixes>>

RemovePin ==
  /\ ldms = "post"
  /\ pin' = 0
  /\ ldms' = "stopped"
  /\ UNCHANGED <<rings, ldms_ring, starts, blocked, vfsVars, postVars, prefixes>>

-----------------------------------------------------------------------------
(* vfslatency.service.  ExecStartPre waits for the pin.                    *)
StartVfs ==
  /\ vfs = "stopped" /\ ldms = "active"
  /\ vfs' = "pre"
  /\ UNCHANGED <<stopjob, prod_ring, maps, attached, ldmsVars, postVars, prefixes>>

PinSeen ==
  /\ vfs = "pre" /\ pin # 0
  /\ vfs' = "check"
  /\ post' = "wait"
  /\ UNCHANGED <<stopjob, prod_ring, maps, attached, ldmsVars, name, key, written, prefixes>>

(* The service is over: the process is gone, and with it the links of the  *)
(* probes and the maps that are not pinned.                                *)
VfsGone ==
  /\ vfs' = "stopped" /\ stopjob' = FALSE /\ prod_ring' = 0 /\ maps' = {}
  /\ attached' = 0
  /\ post' = "none" /\ name' = 1 /\ key' = 0 /\ written' = [m \in Maps |-> 0]

(* Only the main process is gone.  While a command of ExecStartPost runs,  *)
(* systemd waits for that.                                                 *)
MainGone ==
  /\ vfs' = "exited" /\ prod_ring' = 0 /\ maps' = {} /\ attached' = 0
  /\ written' = [m \in Maps |-> 0]
  /\ UNCHANGED <<stopjob, post, name, key, ldmsVars, prefixes>>

StopVfs ==
  /\ stopjob
  /\ VfsGone
  /\ UNCHANGED <<ldmsVars, prefixes>>

(* main: without a pin, give up.                                           *)
Check ==
  /\ vfs = "check" /\ pin # 0
  /\ vfs' = "load"
  /\ UNCHANGED <<stopjob, prod_ring, maps, attached, ldmsVars, postVars, prefixes>>

CheckFails ==
  /\ vfs = "check" /\ pin = 0
  /\ MainGone

(* load_ebpf: aya creates the maps in any order.  The ring is pinned by    *)
(* name: it is taken from its pin, or else created and pinned.             *)
LoadRing ==
  /\ vfs = "load" /\ prod_ring = 0
  /\ \/ /\ pin # 0
        /\ prod_ring' = pin
        /\ UNCHANGED <<pin, rings>>
     \/ /\ pin = 0
        /\ rings' = rings + 1
        /\ pin' = rings'
        /\ prod_ring' = rings'
  /\ UNCHANGED <<ldms, ldms_ring, starts, blocked, vfs, stopjob, maps, attached,
                 postVars, prefixes>>

LoadMap(m) ==
  /\ vfs = "load" /\ m \notin maps
  /\ maps' = maps \union {m}
  /\ UNCHANGED <<vfs, stopjob, prod_ring, attached, ldmsVars, postVars, prefixes>>

Loaded ==
  /\ vfs = "load" /\ prod_ring # 0 /\ maps = Maps
  /\ vfs' = "attach"
  /\ UNCHANGED <<stopjob, prod_ring, maps, attached, ldmsVars, postVars, prefixes>>

(* attach_probe_pair for every function, the entry probe first.            *)
Attach ==
  /\ vfs = "attach" /\ attached < 2 * NumProbes
  /\ attached' = attached + 1
  /\ vfs' = IF attached' = 2 * NumProbes THEN "running" ELSE "attach"
  /\ UNCHANGED <<stopjob, prod_ring, maps, ldmsVars, postVars, prefixes>>

(* An error of load or attach leaves main, which detaches what it attached.*)
LoadFails ==
  /\ vfs \in {"load", "attach"}
  /\ MainGone

(* So does an error of set_handler, Ctrl-C, or a kill.                     *)
VfsEnds ==
  /\ vfs = "running"
  /\ MainGone

(* systemd ends the service when the main process is gone and the commands *)
(* of ExecStartPost are done, or when one of these failed.                 *)
Reap ==
  /\ post = "failed" \/ (vfs = "exited" /\ post = "done")
  /\ VfsGone
  /\ UNCHANGED <<ldmsVars, prefixes>>

(* The unit sets no TimeoutStartSec, so a command of ExecStartPre or       *)
(* ExecStartPost that takes longer than systemd's default is killed, and   *)
(* the main process with it.                                               *)
Starting == vfs = "pre" \/ post \in {"wait", "script", "update"}

StartTimeoutMutant ==   \* mutant: TimeoutStartSec=infinity, as in ebpf-ldms.service
  /\ Starting /\ FALSE
  /\ UNCHANGED vars

StartTimeout ==
  /\ Starting
  /\ VfsGone
  /\ UNCHANGED <<ldmsVars, prefixes>>

-----------------------------------------------------------------------------
(* ExecStartPost.  The status of `for` is that of its last grep, so only   *)
(* the last of the names is waited for, for ever if the loader is gone.    *)
MapSeen ==
  /\ post = "wait" /\ LastWaited \in maps
  /\ post' = "script"
  /\ UNCHANGED <<name, key, written, ldmsVars, vfsVars, prefixes>>

(* The script: it compares the number of prefixes, less one, with 8.       *)
TooMany == prefixes - 1 > NumPathPrefix

ScriptRefuses ==
  /\ post = "script" /\ TooMany
  /\ post' = "failed"
  /\ UNCHANGED <<name, key, written, ldmsVars, vfsVars, prefixes>>

MapThere == StatsMaps[name] \in maps

(* Look up the map of the next name; without one, nothing is written.      *)
ScriptMap ==
  /\ post = "script" /\ ~ TooMany
  /\ name <= Len(StatsMaps)
  /\ IF MapThere
     THEN post' = "update" /\ key' = 0 /\ UNCHANGED name
     ELSE name' = name + 1 /\ UNCHANGED <<post, key>>
  /\ UNCHANGED <<written, ldmsVars, vfsVars, prefixes>>

(* One bpftool map update.  Past the end of the array, or when the loader  *)
(* is gone and its maps with it, it fails, and so does the script (bash    *)
(* -e).                                                                    *)
ScriptUpdateMutant ==   \* mutant: an array without bound
  /\ post = "update" /\ key < prefixes /\ MapThere
  /\ written' = [written EXCEPT ![StatsMaps[name]] = key + 1]
  /\ key' = key + 1
  /\ UNCHANGED <<post, name, ldmsVars, vfsVars, prefixes>>

ScriptUpdate ==
  /\ post = "update" /\ key < prefixes /\ key < NumPathPrefix /\ MapThere
  /\ written' = [written EXCEPT ![StatsMaps[name]] = key + 1]
  /\ key' = key + 1
  /\ UNCHANGED <<post, name, ldmsVars, vfsVars, prefixes>>

ScriptUpdateFailsMutant ==   \* mutant: without bash -e
  /\ post = "update" /\ key < prefixes
  /\ key >= NumPathPrefix \/ ~ MapThere
  /\ name' = name + 1
  /\ post' = "script"
  /\ UNCHANGED <<key, written, ldmsVars, vfsVars, prefixes>>

ScriptUpdateFails ==
  /\ post = "update" /\ key < prefixes
  /\ key >= NumPathPrefix \/ ~ MapThere
  /\ post' = "failed"
  /\ UNCHANGED <<name, key, written, ldmsVars, vfsVars, prefixes>>

ScriptNext ==
  /\ post = "update" /\ key >= prefixes
  /\ name' = name + 1
  /\ post' = "script"
  /\ UNCHANGED <<key, written, ldmsVars, vfsVars, prefixes>>

ScriptDone ==
  /\ post = "script" /\ ~ TooMany /\ name > Len(StatsMaps)
  /\ post' = "done"
  /\ UNCHANGED <<name, key, written, ldmsVars, vfsVars, prefixes>>

Script ==
  \/ MapSeen \/ ScriptRefuses \/ ScriptMap \/ ScriptUpdate \/ ScriptUpdateFails
  \/ ScriptNext \/ ScriptDone

VfsMain ==
  \/ Check \/ CheckFails \/ LoadRing \/ (\E m \in Maps : LoadMap(m)) \/ Loaded \/ Attach
  \/ LoadFails

Next ==
  \/ StartLdms \/ CreateRing \/ CreateFails \/ OpenRing \/ LdmsEnds \/ StopLdms \/ RemovePin
  \/ StartVfs \/ PinSeen \/ StopVfs \/ VfsEnds \/ Reap \/ StartTimeout
  \/ VfsMain
  \/ Script

Spec == Init /\ [][Next]_vars

(* Processes that are running run on, systemd gets to a stop it owes, and  *)
(* its timer for a start goes off.                                         *)
Fairness ==
  /\ WF_vars(VfsMain)
  /\ WF_vars(Script)
  /\ WF_vars(StopVfs)
  /\ WF_vars(Reap)
  /\ WF_vars(StartTimeout)

FairSpec == Spec /\ Fairness

-----------------------------------------------------------------------------
(* Every variable keeps its type; no prefix is written past a stats map.   *)
TypeOK ==
  /\ ldms \in {"stopped", "create", "active", "post"}
  /\ rings \in Nat
  /\ pin \in 0 .. rings /\ ldms_ring \in 0 .. rings /\ prod_ring \in 0 .. rings
  /\ vfs \in {"stopped", "pre", "check", "load", "attach", "running", "exited"}
  /\ stopjob \in BOOLEAN
  /\ maps \subseteq Maps
  /\ attached \in 0 .. (2 * NumProbes)
  /\ post \in {"none", "wait", "script", "update", "done", "failed"}
  /\ name \in 1 .. (Len(StatsMaps) + 1)
  /\ key \in 0 .. NumPathPrefix
  /\ written \in [Maps -> 0 .. NumPathPrefix]
  /\ prefixes \in PrefixCounts
  /\ starts \in Nat /\ blocked \in Nat

(* Whenever the daemon and the probes have both a ring, it is the same     *)
(* one: no order of starts, stops and crashes, not even a ring that the    *)
(* producer created itself, leaves the probes writing where nobody reads.  *)
SameRing == ldms_ring # 0 /\ prod_ring # 0 => ldms_ring = prod_ring

(* A ring that was left pinned keeps the daemon from starting only once:   *)
(* the failed start removes the pin.                                       *)
BlockedOnce == blocked <= 1

(* A producer that came up has in each stats map the whole list of         *)
(* prefixes or, where the script found no map, nothing: never a part of    *)
(* it, although the script's check lets one prefix too many through.       *)
WholeLists == post = "done" => \A m \in Maps : written[m] \in {0, prefixes}

(* A start of the producer comes to an end: it runs with the script done,  *)
(* or it is stopped.  A loader that gives up does not end the loop that    *)
(* waits for its maps; the start timeout has to.                           *)
Settles == (vfs # "stopped") ~> (vfs = "stopped" \/ (vfs = "running" /\ post = "done"))

(* "the script uses bpftool to write the prefix list into the              *)
(* per-vfs-function BPF array map of each active probe".                   *)
AllMapsWritten ==
  post = "done" /\ vfs = "running" => \A m \in Maps : written[m] = prefixes
=============================================================================
