---------------------------- MODULE ProcessWatch ----------------------------
(***************************************************************************)
(* The workers of the desktop and their owner: the watch of the owner's    *)
(* process (service/parent_watchdog.py), the monitor of a worker, and the  *)
(* wrapper of a native model server (service/process_watchdog.py).         *)
(***************************************************************************)
EXTENDS Naturals

VARIABLES
  host,     \* "windows" or "posix"
  owner,    \* the desktop: "alive", "gone", or "recycled": another process has its id
  watch,    \* "none", "handle", "probe" (no handle was granted), "exited"
  kind,     \* what watches: a "worker", a "wrapper", or a worker without a watch
  worker,   \* "none", "spawned", "polling", "terminating", "gone"
  child,    \* of a wrapper: "none", "running", "ended"
  stop,     \* request_stop was called
  why       \* why the worker ended

vars == <<host, owner, watch, kind, worker, child, stop, why>>

TypeOK ==
  /\ host \in {"none", "windows", "posix"} /\ owner \in {"alive", "gone", "recycled"}
  /\ watch \in {"none", "handle", "probe", "exited"} /\ kind \in {"none", "worker", "wrapper", "unwatched"}
  /\ worker \in {"none", "spawned", "polling", "terminating", "gone"}
  /\ child \in {"none", "running", "ended"} /\ stop \in BOOLEAN
  /\ why \in {"none", "owner", "stop", "child", "signal"}

Init ==
  /\ host = "none" /\ owner = "alive" /\ watch = "none" /\ kind = "none" /\ worker = "none"
  /\ child = "none" /\ stop = FALSE /\ why = "none"

OwnerExits ==
  /\ owner = "alive" /\ owner' = "gone" /\ UNCHANGED <<host, watch, kind, worker, child, stop, why>>
PidRecycled ==
  /\ owner = "gone" /\ owner' = "recycled" /\ UNCHANGED <<host, watch, kind, worker, child, stop, why>>

\* Opening the owner's process: a handle pins what has the id now, access may be denied.
Opened == IF owner = "gone" THEN {"exited"} ELSE {"handle", "probe"}

\* A worker that was not told its owner, or only itself, is not watched.
StartWorker ==
  /\ kind = "none" /\ worker' = "polling" /\ UNCHANGED <<owner, child, stop, why>>
  /\ \E h \in {"windows", "posix"} :
       /\ host' = h
       /\ \/ kind' = "unwatched" /\ watch' = "none"
          \/ kind' = "worker" /\ watch' \in (IF h = "windows" THEN Opened ELSE {"probe"})

\* The watch is set up before the child starts.
StartWrapper ==
  /\ kind = "none" /\ kind' = "wrapper" /\ worker' = "spawned" /\ child' = "running"
  /\ \E h \in {"windows", "posix"} :
       host' = h /\ watch' \in (IF h = "windows" THEN Opened ELSE {"probe"})
  /\ UNCHANGED <<owner, stop, why>>

InstallHandlers ==
  /\ worker = "spawned" /\ worker' = "polling" /\ UNCHANGED <<host, owner, watch, kind, child, stop, why>>

\* Before the handlers are installed a signal ends the wrapper.
Signal ==
  /\ kind = "wrapper" /\ worker \in {"spawned", "polling", "terminating"}
  /\ IF worker = "spawned" THEN worker' = "gone" /\ why' = "signal" /\ UNCHANGED stop
     ELSE stop' = TRUE /\ UNCHANGED <<worker, why>>
  /\ UNCHANGED <<host, owner, watch, kind, child>>
----------------------------------------------------------------------------
Probe == IF owner = "gone" THEN {TRUE, FALSE} ELSE {TRUE}

\* A failed wait is unknown as well.
Alive ==
  IF watch = "exited" THEN {FALSE}
  ELSE IF watch = "handle" THEN IF owner = "alive" THEN {TRUE} ELSE {TRUE, FALSE}
  ELSE Probe

\* The handle of a process that exited is closed, and never asked again.
Watched(alive) == watch' = IF watch = "handle" /\ ~alive THEN "exited" ELSE watch

\* monitor: os._exit.
WorkerPolls ==
  /\ kind = "worker" /\ worker = "polling"
  /\ \E alive \in Alive :
       /\ Watched(alive)
       /\ IF alive THEN UNCHANGED <<worker, why>> ELSE worker' = "gone" /\ why' = "owner"
  /\ UNCHANGED <<host, owner, kind, child, stop>>

Returns(reason) == worker' = "gone" /\ why' = reason

\* A round of the wrapper's loop.
WrapperPolls ==
  /\ kind = "wrapper" /\ worker = "polling" /\ UNCHANGED <<host, owner, kind, child, stop>>
  /\ IF child = "ended" THEN Returns("child") /\ UNCHANGED watch
     ELSE IF stop THEN worker' = "terminating" /\ why' = "stop" /\ UNCHANGED watch
     ELSE \E alive \in Alive :
            /\ Watched(alive)
            /\ IF alive THEN UNCHANGED <<worker, why>> ELSE worker' = "terminating" /\ why' = "owner"

ChildEnds ==
  /\ child = "running" /\ child' = "ended" /\ UNCHANGED <<host, owner, watch, kind, worker, stop, why>>

\* wait: the child ended in time, or it is killed.
WaitEnds ==
  /\ worker = "terminating" /\ worker' = "gone" /\ child' = "ended"
  /\ UNCHANGED <<host, owner, watch, kind, stop, why>>

Next ==
  \/ OwnerExits \/ PidRecycled \/ StartWorker \/ StartWrapper \/ InstallHandlers \/ Signal
  \/ WorkerPolls \/ WrapperPolls \/ ChildEnds \/ WaitEnds

Spec == Init /\ [][Next]_vars
----------------------------------------------------------------------------
(* "Run a native model server and reap it": the wrapper leaves no child,   *)
(* unless a signal reached it before it had its handlers (see the README). *)
WrapperReapsChild == kind = "wrapper" /\ worker = "gone" /\ why # "signal" => child = "ended"

(* "must not end a session": no worker ends while its owner lives, whatever *)
(* its probes return, unless it was told to stop or its child ended.       *)
OwnerKeepsWorkers == why = "owner" => owner # "alive"
=============================================================================
