--------------------------- MODULE TorrentFSService ---------------------------
(***************************************************************************)
(* The node.Service wrapper of src/torrentfs/torrentfs.go.  The node calls *)
(* New, then Start, then Stop.  Start builds a TorrentManager and a        *)
(* Monitor and runs the monitor in a goroutine of its own; nothing keeps   *)
(* a handle to it.  Stop only logs.                                        *)
(***************************************************************************)
EXTENDS Naturals

VARIABLES
    svc,        \* where the node is in the service's life
    managers,   \* TorrentManagers created by Start
    monitors    \* monitor goroutines running (go m.Start())

vars == <<svc, managers, monitors>>

(* New: config, the version history and an unused quit channel.            *)
Init ==
    /\ svc = "new"
    /\ managers = 0
    /\ monitors = 0

(* Start: NewTorrentManager, NewMonitor, SetDownloader, go m.Start(),      *)
(* return nil.                                                             *)
Start ==
    /\ svc = "new"
    /\ svc' = "started"
    /\ managers' = managers + 1
    /\ monitors' = monitors + 1

(* Stop: log "TorrentFS stopped" and return nil.                           *)
Stop ==
    /\ svc = "started"
    /\ svc' = "stopped"
    /\ UNCHANGED <<managers, monitors>>

Next == Start \/ Stop

Spec == Init /\ [][Next]_vars

(* Stop's comment: "Wait until every goroutine terminates".  Once Stop has *)
(* returned, no goroutine started by Start is still running.               *)
NoGoroutineAfterStop == svc = "stopped" => monitors = 0

=============================================================================
