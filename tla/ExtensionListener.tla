-------------------------- MODULE ExtensionListener --------------------------
(***************************************************************************)
(* How an extension process listens, pkg/extension/option.go: the address  *)
(* GetListenAddress picks, and the life of the listener that CreateRunner, *)
(* CreateMonitor and CreateExtensionRunner open: remove an old socket      *)
(* file, listen, serve, and on the stop signal remove the socket file and  *)
(* close the listener.                                                     *)
(*                                                                         *)
(* Instances are processes of one extension started with the same flags,  *)
(* so they share one address: a restart that overlaps the old process's    *)
(* shutdown, or a second copy started by hand.  A unix socket file is      *)
(* identified by the instance whose listen created it; a connection to the *)
(* path reaches that instance only while its listener is open.  The model  *)
(* is of a Unix-like system (net.Listen); on Windows CreateRunner uses     *)
(* npipe.Listen whatever the protocol.                                     *)
(***************************************************************************)
EXTENDS Naturals

CONSTANTS
    Instances,  \* extension processes sharing the flags
    Socket,     \* the --socket flag is set (else --port is used)
    NoFile      \* no socket file at the path, no owner of the port

ASSUME Socket \in BOOLEAN

VARIABLES
    st,       \* per instance: "down", "removed" (old file removed, not yet
              \* listening), "serving", "stopping" (signal received),
              \* or "closing" (socket removed, listener not yet closed)
    file,     \* the socket file at the --socket path: its creator, or NoFile
    port      \* the instance whose TCP listener holds the port, or NoFile

vars == <<st, file, port>>

\* GetListenAddress: the socket when set, else (no --pipe) ":port".
Protocol == IF Socket THEN "unix" ELSE "tcp"

Init ==
    /\ st = [i \in Instances |-> "down"]
    /\ file = NoFile
    /\ port = NoFile

(* The start of CreateRunner: "remove the exist socket file", whoever      *)
(* created it, before net.Listen.                                          *)
RemoveOldSocket(i) ==
    /\ st[i] = "down"
    /\ st' = [st EXCEPT ![i] = "removed"]
    /\ file' = IF Socket THEN NoFile ELSE file
    /\ UNCHANGED port

\* The address net.Listen binds: the socket file's creator or the port's.
Holder == IF Protocol = "unix" THEN file ELSE port

(* net.Listen: it fails with EADDRINUSE when the path exists or the port   *)
(* is held, and CreateRunner returns that error, which ends the process.   *)
Listen(i) ==
    /\ st[i] = "removed"
    /\ IF Holder = NoFile
       THEN /\ st' = [st EXCEPT ![i] = "serving"]
            /\ file' = IF Protocol = "unix" THEN i ELSE file
            /\ port' = IF Protocol = "tcp" THEN i ELSE port
       ELSE /\ st' = [st EXCEPT ![i] = "down"]
            /\ UNCHANGED <<file, port>>

\* SIGINT or SIGTERM reaches a serving process.
Signal(i) ==
    /\ st[i] = "serving"
    /\ st' = [st EXCEPT ![i] = "stopping"]
    /\ UNCHANGED <<file, port>>

(* The stop callback, first line: os.Remove(ext.Socket), of whatever file *)
(* is at the path now.                                                     *)
StopRemove(i) ==
    /\ st[i] = "stopping"
    /\ st' = [st EXCEPT ![i] = "closing"]
    /\ file' = IF Socket THEN NoFile ELSE file
    /\ UNCHANGED port

(* Then lis.Close(): a unix listener net.Listen created unlinks its path  *)
(* (once) before closing the descriptor, again whoever made the file now; *)
(* a TCP listener frees the port.  Serve returns and the process exits.   *)
Close(i) ==
    /\ st[i] = "closing"
    /\ st' = [st EXCEPT ![i] = "down"]
    /\ file' = IF Socket THEN NoFile ELSE file
    /\ port' = IF port = i THEN NoFile ELSE port

(* The process is killed, or a handler panics: the kernel closes the       *)
(* listener and frees the port, the socket file stays.                     *)
Crash(i) ==
    /\ st[i] \in {"serving", "stopping", "closing"}
    /\ st' = [st EXCEPT ![i] = "down"]
    /\ port' = IF port = i THEN NoFile ELSE port
    /\ UNCHANGED file

Next ==
    \E i \in Instances :
        \/ RemoveOldSocket(i) \/ Listen(i) \/ Signal(i)
        \/ StopRemove(i) \/ Close(i) \/ Crash(i)

Spec == Init /\ [][Next]_vars

-----------------------------------------------------------------------------
TypeOK ==
    /\ st \in [Instances -> {"down", "removed", "serving", "stopping", "closing"}]
    /\ file \in Instances \cup {NoFile}
    /\ port \in Instances \cup {NoFile}

(* A serving extension can be reached at its address: the socket file at  *)
(* the path is the one its own listen created (or it holds the port).     *)
(* Another process's start removes the file before binding its own, and   *)
(* another process's stop callback removes whatever file is there.        *)
Reachable ==
    \A i \in Instances :
        st[i] = "serving" =>
            Holder = i
=============================================================================
