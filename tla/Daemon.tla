------------------------------- MODULE Daemon -------------------------------
(***************************************************************************)
(* Start and end of a daemon (lib/daemon.c, lib/fatal-signal.c,            *)
(* lib/socket-util.c and the flags of lib/netdev.c), as the datapath's     *)
(* main() runs them: it binds its listening socket, opens its network      *)
(* devices, checks the pid file, forks when it was told to detach, and     *)
(* writes the pid file; then it runs until a signal ends it.               *)
(*                                                                         *)
(* Several daemons share one pid file (its default name is the program's)  *)
(* and have each a socket and a device of their own.  Between any two      *)
(* steps a daemon can catch a fatal signal, which runs the registered      *)
(* hooks and ends it, or be killed outright, and be started again.         *)
(***************************************************************************)
EXTENDS Naturals, Sequences, SequencesExt

CONSTANTS Daemons,      \* the daemons that share the pid file
          Detached,     \* those started with --detach
          Forced,       \* those started with --force
          MaxStarts     \* how many processes are started in all

ASSUME DaemonAssumption ==
    MaxStarts \in Nat \ {0} /\ Detached \union Forced \subseteq Daemons

VARIABLES
    proc,       \* the process of each daemon
    disk        \* the files and the state of the devices

daemonVars == <<proc, disk>>

(* Every start of a daemon has a process id of its own. *)
Life(d) == proc[d].pid

NoLife == 0

(* proc[d].at is the next statement of main(); .files and .hooks are the   *)
(* arrays of fatal-signal.c; .todo is what the hooks have still to undo;   *)
(* .found says that the device was up when it was opened (save_flags);     *)
(* .parent is the process that forked and waits.                           *)
NotStarted == [at |-> "dead", pid |-> NoLife, files |-> <<>>, hooks |-> <<>>,
               todo |-> <<>>, parent |-> "none",
               found |-> FALSE, failed |-> FALSE]

DaemonInit ==
    /\ proc = [d \in Daemons |-> NotStarted]
    /\ disk = [pids |-> 0, pidfile |-> NoLife, tmp |-> {}, written |-> {},
               locked |-> {}, sockets |-> {}, devices_up |-> {}, killed |-> {}]

(* Names a daemon registers for unlinking. *)
Socket == "socket"
Tmpfile == "tmpfile"
Pidfile == "pidfile"

Goto(d, where) == proc' = [proc EXCEPT ![d].at = where]

-----------------------------------------------------------------------------
(* fatal-signal.c.  The two functions below run with the fatal signals     *)
(* blocked, so each is one step for the hooks.                             *)

WithHook(p, hook) ==
    IF Contains(p.hooks, hook) THEN p ELSE [p EXCEPT !.hooks = Append(@, hook)]

fatal_signal_add_file_to_unlink(p, file) ==
    [WithHook(p, "unlink_files") EXCEPT !.files = Append(@, file)]

(* The last element takes the place of the one that goes. *)
fatal_signal_remove_file_to_unlink(p, file) ==
    IF ~Contains(p.files, file) THEN p
    ELSE LET i == CHOOSE i \in DOMAIN p.files :
                      /\ p.files[i] = file
                      /\ \A j \in 1 .. i - 1 : p.files[j] # file
             last == Len(p.files)
         IN [p EXCEPT !.files = Front([@ EXCEPT ![i] = p.files[last]])]

(* What call_hooks will do: every hook in the order it was added. *)
call_hooks(p) ==
    FlattenSeq([i \in DOMAIN p.hooks |->
        IF p.hooks[i] = "unlink_files" THEN p.files
        ELSE <<"restore_all_flags">>])

(* The device goes back to the flags it had when it was opened. *)
restore_flags(d, fs) ==
    [fs EXCEPT !.devices_up = IF proc[d].found THEN @ ELSE @ \ {d}]

(* One step of a hook: a name goes, whatever file it names by now, or the  *)
(* flags are put back.                                                     *)
Undone(d, what) ==
    CASE what = Socket -> [disk EXCEPT !.sockets = @ \ {d}]
      [] what = Tmpfile -> [disk EXCEPT !.tmp = @ \ {Life(d)}]
      [] what = Pidfile -> [disk EXCEPT !.pidfile = NoLife]
      [] what = "restore_all_flags" -> restore_flags(d, disk)

(* The handlers are installed by the first fatal_signal_block. *)
Installed(p) == p.hooks # <<>>

Ending(p) == p.at = "ending"

Alive(d) == proc[d].at # "dead"

(* A process that is gone holds no lock. *)
Gone(d, fs) == [fs EXCEPT !.locked = @ \ {Life(d)}]

(* fatal_signal_handler: the hooks run, then the default handling ends the *)
(* process.  A second signal finds the hooks already running (recurse) and *)
(* ends the process at once.                                               *)
fatal_signal_handler(d) ==
    /\ Alive(d)
    /\ \/ /\ Installed(proc[d]) /\ ~Ending(proc[d])
          /\ proc' = [proc EXCEPT ![d].at = "ending",
                                  ![d].todo = call_hooks(proc[d])]
          /\ UNCHANGED disk
       \/ /\ ~Installed(proc[d]) \/ Ending(proc[d])
          /\ Goto(d, "dead")
          /\ disk' = [Gone(d, disk) EXCEPT
                         !.killed = IF Ending(proc[d])
                                    THEN @ \union {Life(d)} ELSE @]

RunHooks(d) ==
    /\ Ending(proc[d])
    /\ IF proc[d].todo = <<>>
       THEN /\ Goto(d, "dead")
            /\ disk' = Gone(d, disk)
       ELSE /\ proc' = [proc EXCEPT ![d].todo = Tail(@)]
            /\ disk' = Undone(d, Head(proc[d].todo))

(* SIGKILL, or the machine's memory running out. *)
Killed(d) ==
    /\ Alive(d)
    /\ Goto(d, "dead")
    /\ disk' = [Gone(d, disk) EXCEPT !.killed = @ \union {Life(d)}]

-----------------------------------------------------------------------------
(* main(): the socket, the devices and the check of the pid file.          *)

Start(d) ==
    /\ proc[d].at = "dead" /\ disk.pids < MaxStarts
    /\ proc[d].parent \notin {"forked", "waiting"}
    /\ proc' = [proc EXCEPT ![d] = [NotStarted EXCEPT
                    !.at = "make_unix_socket", !.pid = disk.pids + 1]]
    /\ disk' = [disk EXCEPT !.pids = @ + 1]

(* A socket left over is removed before the name is registered and bound. *)
make_unix_socket(d) ==
    \/ /\ proc[d].at = "make_unix_socket"
       /\ proc' = [proc EXCEPT ![d] =
              [fatal_signal_add_file_to_unlink(@, Socket) EXCEPT !.at = "bind"]]
       /\ disk' = [disk EXCEPT !.sockets = @ \ {d}]
    \/ /\ proc[d].at = "bind"
       /\ Goto(d, "init_netdev")
       /\ disk' = [disk EXCEPT !.sockets = @ \union {d}]

init_netdev(d) ==
    /\ proc[d].at = "init_netdev"
    /\ proc' = [proc EXCEPT ![d] =
           [WithHook(@, "restore_all_flags") EXCEPT
               !.at = "set_flags", !.found = d \in disk.devices_up]]
    /\ UNCHANGED disk

netdev_set_flags(d) ==
    /\ proc[d].at = "set_flags"
    /\ Goto(d, "check")
    /\ disk' = [disk EXCEPT !.devices_up = @ \union {d}]

already_running == disk.pidfile # NoLife /\ disk.pidfile \in disk.locked

(* ofp_fatal exits, and exit() runs the hooks. *)
die_if_already_running(d) ==
    /\ proc[d].at = "check"
    /\ IF already_running /\ d \notin Forced
       THEN proc' = [proc EXCEPT ![d].at = "ending",
                                 ![d].todo = call_hooks(proc[d])]
       ELSE Goto(d, "daemonize")
    /\ UNCHANGED disk

-----------------------------------------------------------------------------
(* make_pidfile(), one action per call that can be interrupted or fail.    *)

AddTmpfile(d) ==
    /\ proc[d].at = "make_pidfile"
    /\ proc' = [proc EXCEPT ![d] =
           [fatal_signal_add_file_to_unlink(@, Tmpfile) EXCEPT !.at = "open"]]
    /\ UNCHANGED disk

(* A call that fails closes the file and goes to the end of the function. *)
GiveUp(d) ==
    proc' = [proc EXCEPT ![d].at = "remove_tmpfile", ![d].failed = TRUE]

OpenTmpfile(d) ==
    /\ proc[d].at = "open"
    /\ \/ /\ Goto(d, "lock")
          /\ disk' = [disk EXCEPT !.tmp = @ \union {Life(d)}]
       \/ GiveUp(d) /\ UNCHANGED disk

LockTmpfile(d) ==
    /\ proc[d].at = "lock"
    /\ \/ /\ Goto(d, "write")
          /\ disk' = [disk EXCEPT !.locked = @ \union {Life(d)}]
       \/ GiveUp(d) /\ UNCHANGED disk

(* What a slip in the order would do: the name appears before the pid. *)
WriteTmpfile(d) ==
    /\ proc[d].at = "write"
    /\ \/ /\ Goto(d, "add_pidfile")
          /\ disk' = [disk EXCEPT !.written = @ \union {Life(d)}]
       \/ /\ GiveUp(d)
          /\ disk' = [disk EXCEPT !.locked = @ \ {Life(d)}]

AddPidfile(d) ==
    /\ proc[d].at = "add_pidfile"
    /\ proc' = [proc EXCEPT ![d] =
           [fatal_signal_add_file_to_unlink(@, Pidfile) EXCEPT !.at = "rename"]]
    /\ UNCHANGED disk

RenameTmpfile(d) ==
    /\ proc[d].at = "rename"
    /\ \/ /\ Goto(d, "remove_tmpfile")
          /\ disk' = [disk EXCEPT !.pidfile = Life(d), !.tmp = @ \ {Life(d)}]
       \/ /\ proc' = [proc EXCEPT ![d] =
                 [fatal_signal_remove_file_to_unlink(@, Pidfile) EXCEPT
                     !.at = "remove_tmpfile", !.failed = TRUE]]
          /\ disk' = [disk EXCEPT !.locked = @ \ {Life(d)}]

RemoveTmpfile(d) ==
    /\ proc[d].at = "remove_tmpfile"
    /\ proc' = [proc EXCEPT ![d] =
           [fatal_signal_remove_file_to_unlink(@, Tmpfile) EXCEPT
               !.at = IF d \in Detached THEN "signal_parent" ELSE "run"]]
    /\ UNCHANGED disk

make_pidfile(d) ==
    \/ AddTmpfile(d) \/ OpenTmpfile(d) \/ LockTmpfile(d) \/ WriteTmpfile(d)
    \/ AddPidfile(d) \/ RenameTmpfile(d) \/ RemoveTmpfile(d)

-----------------------------------------------------------------------------
(* daemonize(): the child goes on, the parent waits for it.                *)

daemonize(d) ==
    \/ /\ proc[d].at = "daemonize"
       /\ proc' = [proc EXCEPT ![d].at = "make_pidfile",
               ![d].parent = IF d \in Detached THEN "forked" ELSE "none"]
       /\ UNCHANGED disk
    \/ /\ proc[d].at = "signal_parent"
       /\ Goto(d, "run")
       /\ UNCHANGED disk

\* Mutant: the parent keeps its hooks.
ForkKeepsHooks(d) ==
    /\ proc[d].parent = "forked"
    /\ proc' = [proc EXCEPT ![d].parent = "waiting"]
    /\ disk' = [restore_flags(d, disk) EXCEPT !.sockets = @ \ {d}]

(* The hooks of the parent are disabled. *)
fatal_signal_fork(d) ==
    /\ proc[d].parent = "forked"
    /\ proc' = [proc EXCEPT ![d].parent = "waiting"]
    /\ UNCHANGED disk

(* The parent leaves when the child has written to the pipe, or is gone. *)
ParentExits(d) ==
    /\ proc[d].parent = "waiting"
    /\ proc[d].at \in {"run", "dead"}
    /\ proc' = [proc EXCEPT ![d].parent = "exited"]
    /\ UNCHANGED disk

(* A fatal signal that reaches the parent between fork() and               *)
(* fatal_signal_fork() runs the hooks it shares with the child.            *)
ParentCaught(d) ==
    /\ proc[d].parent = "forked"
    /\ proc' = [proc EXCEPT ![d].parent = "caught"]
    /\ disk' = [restore_flags(d, disk) EXCEPT !.sockets = @ \ {d}]

DaemonNext ==
    \E d \in Daemons :
        \/ Start(d) \/ make_unix_socket(d) \/ init_netdev(d)
        \/ netdev_set_flags(d) \/ die_if_already_running(d)
        \/ daemonize(d) \/ make_pidfile(d)
        \/ fatal_signal_fork(d) \/ ParentExits(d) \/ ParentCaught(d)
        \/ fatal_signal_handler(d) \/ RunHooks(d) \/ Killed(d)

DaemonSpec == DaemonInit /\ [][DaemonNext]_daemonVars

-----------------------------------------------------------------------------
(* daemon.c:154 "observers never see an empty pidfile or an unlocked       *)
(* pidfile": the pid file holds a whole pid and is locked by the daemon    *)
(* that wrote it, unless that daemon was killed before its hooks were done. *)
ObserversSeeLocked ==
    disk.pidfile # NoLife =>
        /\ disk.pidfile \in disk.written
        /\ disk.pidfile \in disk.locked \union disk.killed

(* While a daemon runs its socket is there and its device is up, although  *)
(* its parent has exited; when it has ended, by a signal or by exit(), the *)
(* socket, the pid file it wrote and (unless a call of make_pidfile        *)
(* failed) its temporary file are gone and the device is as it was found.  *)
(* Excepted are a daemon killed in the middle, and a parent caught by a    *)
(* signal before it called fatal_signal_fork().                            *)
FilesFollowProcess ==
    \A d \in Daemons :
        /\ proc[d].at = "run" /\ proc[d].parent # "caught" =>
               d \in disk.sockets \cap disk.devices_up
        /\ proc[d].at = "dead" /\ Life(d) \notin disk.killed
           /\ Installed(proc[d]) =>
               /\ d \notin disk.sockets
               /\ Contains(proc[d].hooks, "restore_all_flags") =>
                      (d \in disk.devices_up <=> proc[d].found)
               /\ disk.pidfile # Life(d)
               /\ ~proc[d].failed => Life(d) \notin disk.tmp

(* A daemon that runs with its pid file written is found by                *)
(* already_running(): true of one daemon, not of two.                      *)
RunningIsSeen ==
    \A d \in Daemons : proc[d].at = "run" /\ ~proc[d].failed => already_running

=============================================================================
