------------------------------ MODULE EventLoop ------------------------------
(***************************************************************************)
(* The main loop of a daemon and the signal handlers that interrupt it:    *)
(* lib/poll-loop.c, lib/timeval.c, lib/signals.c and lib/process.c.        *)
(*                                                                         *)
(* The program starts its child processes and then, in every iteration,    *)
(* asks process_exited() and signal_poll(), registers what it waits for    *)
(* with process_wait(), signal_wait() and poll_timer_wait(), and calls     *)
(* poll_block().  Each access to what a handler shares is a step of its    *)
(* own, and a handler runs between any two steps unless its signal is      *)
(* blocked.  A signal that is raised twice before it is delivered is       *)
(* delivered once.  A tick of time is one SIGALRM.                         *)
(***************************************************************************)
EXTENDS Integers, Sequences, SequencesExt

CONSTANTS
    Kids,          \* sequence of the child processes the program starts
    UserSignals,   \* sequence of the signals registered with signal_register()
    PollTimeout,   \* what poll_timer_wait() is given in each iteration
    Deadlines,     \* what time_alarm() was given; 0 is no deadline
    PipeRoom,      \* bytes that a pipe holds
    MaxRaises,     \* bound on the signals sent by others
    MaxNow         \* bound on time

ASSUME EventLoopAssumption ==
    /\ {PollTimeout, PipeRoom, MaxNow} \subseteq Nat \ {0}
    /\ MaxRaises \in Nat /\ Deadlines \subseteq Nat

VARIABLES
    loop,      \* the main program
    kid,       \* its child processes
    sig,       \* signals pending, blocked and noted by the handlers
    time       \* the time, and what is known of it

loopVars == <<loop, kid, sig, time>>

TheKids == Range(Kids)
TheSignals == Range(UserSignals)

Each(s, ops) == FlattenSeq([i \in DOMAIN s |-> [j \in DOMAIN ops |-> [op |-> ops[j], of |-> s[i]]]])

Once(op) == <<[op |-> op, of |-> "main"]>>

\* The program: its first part starts the children, the rest is repeated.
Prologue == Each(Kids, <<"block_sigchld", "fork", "list_push_back", "unblock_sigchld">>)

Program ==
    Prologue \o Each(Kids, <<"process_exited", "process_read">>)
             \o Each(UserSignals, <<"signal_read", "signal_test", "signal_reset">>)
             \o Each(Kids, <<"process_wait">>) \o Each(UserSignals, <<"signal_wait">>)
             \o Once("poll_timer_wait") \o Once("time_poll") \o Once("poll")

At(op) == loop.at > 0 /\ Program[loop.at].op = op

Of == Program[loop.at].of

Goto(n) == loop' = [loop EXCEPT !.at = n]

Onward == Goto(loop.at + 1)

LoopInit ==
    /\ loop = [at |-> 1, waits |-> {}, timeout |-> -1, until |-> 0, start |-> 0]
    /\ kid = [k \in TheKids |-> [is |-> "none", listed |-> FALSE, exited |-> FALSE,
                                 noticed |-> FALSE]]
    /\ sig = [pending |-> {}, blocked |-> {}, signaled |-> {}, owed |-> {}, raises |-> 0,
              bytes |-> [process |-> 0, signal |-> 0]]
    /\ \E d \in Deadlines : time = [now |-> 0, deadline |-> d]

-----------------------------------------------------------------------------
(* process.c *)

\* Mutant: the signal may come at any time.
NotBlocked ==
    /\ At("block_sigchld")
    /\ Onward /\ UNCHANGED <<kid, sig, time>>

block_sigchld ==
    /\ At("block_sigchld")
    /\ sig' = [sig EXCEPT !.blocked = @ \cup {"SIGCHLD"}]
    /\ Onward /\ UNCHANGED <<kid, time>>

unblock_sigchld ==
    /\ At("unblock_sigchld")
    /\ sig' = [sig EXCEPT !.blocked = @ \ {"SIGCHLD"}]
    /\ Onward /\ UNCHANGED <<kid, time>>

process_start ==
    /\ \/ At("fork") /\ kid' = [kid EXCEPT ![Of].is = "running"]
       \/ At("list_push_back") /\ kid' = [kid EXCEPT ![Of].listed = TRUE]
    /\ Onward /\ UNCHANGED <<sig, time>>

\* The process is destroyed when it has exited; otherwise the pipe is emptied.
process_exited ==
    \/ /\ At("process_exited")
       /\ IF kid[Of].exited \/ kid[Of].noticed
          THEN /\ kid' = [kid EXCEPT ![Of].noticed = TRUE, ![Of].listed = FALSE]
               /\ Goto(loop.at + 2)
          ELSE Onward /\ UNCHANGED kid
       /\ UNCHANGED <<sig, time>>
    \/ /\ At("process_read")
       /\ sig' = [sig EXCEPT !.bytes.process = 0]
       /\ Onward /\ UNCHANGED <<kid, time>>

poll_immediate_wake == [loop EXCEPT !.timeout = 0, !.at = @ + 1]

Registered(fd) == [loop EXCEPT !.waits = @ \cup {fd}, !.at = @ + 1]

process_wait ==
    /\ At("process_wait")
    /\ IF kid[Of].noticed THEN Onward
       ELSE IF kid[Of].exited THEN loop' = poll_immediate_wake
       ELSE loop' = Registered("process")
    /\ UNCHANGED <<kid, sig, time>>

WriteByte(s, pipe) == [s EXCEPT !.bytes[pipe] = IF @ < PipeRoom THEN @ + 1 ELSE @]

\* Every child in the list that has ended is waited for.
sigchld_handler(s) ==
    /\ kid' = [k \in TheKids |->
                 IF kid[k].listed /\ ~kid[k].exited /\ kid[k].is = "zombie"
                 THEN [kid[k] EXCEPT !.exited = TRUE, !.is = "reaped"] ELSE kid[k]]
    /\ sig' = WriteByte(s, "process")

-----------------------------------------------------------------------------
(* signals.c *)

signal_poll ==
    \/ /\ At("signal_read")
       /\ sig' = [sig EXCEPT !.bytes.signal = 0]
       /\ Onward /\ UNCHANGED <<kid, time>>
    \/ /\ At("signal_test")
       /\ IF Of \in sig.signaled THEN Onward ELSE Goto(loop.at + 2)
       /\ UNCHANGED <<kid, sig, time>>
    \/ /\ At("signal_reset")
       /\ sig' = [sig EXCEPT !.signaled = @ \ {Of}, !.owed = @ \ {Of}]
       /\ Onward /\ UNCHANGED <<kid, time>>

signal_wait ==
    /\ At("signal_wait")
    /\ IF Of \in sig.signaled THEN loop' = poll_immediate_wake
       ELSE loop' = Registered("signal")
    /\ UNCHANGED <<kid, sig, time>>

signal_handler(s, signr) ==
    /\ sig' = WriteByte([s EXCEPT !.signaled = @ \cup {signr}], "signal")
    /\ UNCHANGED kid

-----------------------------------------------------------------------------
(* poll-loop.c and timeval.c *)

poll_timer_wait ==
    /\ At("poll_timer_wait")
    /\ loop' = [loop EXCEPT !.at = @ + 1,
                   !.timeout = IF @ < 0 \/ PollTimeout < @ THEN PollTimeout ELSE @]
    /\ UNCHANGED <<kid, sig, time>>

\* How long poll() sleeps: what is left of the timeout.
time_left(l) ==
    IF l.timeout <= 0 THEN l.timeout
    ELSE LET elapsed == time.now - l.start
         IN  IF l.timeout >= elapsed THEN l.timeout - elapsed ELSE 0

Sleep(l) == [l EXCEPT !.until = time.now + time_left(l)]

time_poll ==
    /\ At("time_poll")
    /\ loop' = Sleep([loop EXCEPT !.start = time.now, !.at = @ + 1])
    /\ UNCHANGED <<kid, sig, time>>

Ready ==
    \/ \E fd \in loop.waits : sig.bytes[fd] > 0
    \/ loop.timeout >= 0 /\ time.now >= loop.until

\* poll() returns; the registrations were good for one call.
poll_block ==
    /\ At("poll") /\ Ready
    /\ loop' = [loop EXCEPT !.waits = {}, !.timeout = -1, !.until = 0, !.start = 0,
                            !.at = Len(Prologue) + 1]
    /\ sig' = [sig EXCEPT !.blocked = @ \ {"SIGALRM"}]
    /\ UNCHANGED <<kid, time>>

\* The deadline of time_alarm() ends the program.
sigalrm_handler == time.deadline # 0 /\ time.now > time.deadline

\* The handler of a signal runs.  It interrupts poll(), which is called again for
\* the time that is left, with SIGALRM blocked unless there is a deadline.
Interrupted(signr) ==
    /\ loop.at > 0 /\ signr \in sig.pending \ sig.blocked
    /\ LET s == [sig EXCEPT !.pending = @ \ {signr},
                            !.blocked = IF At("poll") /\ time.deadline = 0
                                        THEN @ \cup {"SIGALRM"} ELSE @]
       IN  CASE signr = "SIGCHLD" -> sigchld_handler(s)
             [] signr = "SIGALRM" -> sig' = s /\ UNCHANGED kid
             [] OTHER -> signal_handler(s, signr)
    /\ loop' = IF signr = "SIGALRM" /\ sigalrm_handler THEN [loop EXCEPT !.at = 0]
               ELSE IF At("poll") THEN Sleep(loop) ELSE loop
    /\ UNCHANGED time

-----------------------------------------------------------------------------
(* What happens around the program. *)

KidExits(k) ==
    /\ loop.at > 0 /\ kid[k].is = "running"
    /\ kid' = [kid EXCEPT ![k].is = "zombie"]
    /\ sig' = [sig EXCEPT !.pending = @ \cup {"SIGCHLD"}]
    /\ UNCHANGED <<loop, time>>

Raise(s) ==
    /\ loop.at > 0 /\ sig.raises < MaxRaises
    /\ sig' = [sig EXCEPT !.pending = @ \cup {s}, !.owed = @ \cup {s}, !.raises = @ + 1]
    /\ UNCHANGED <<loop, kid, time>>

\* Time passes while the program sleeps: its steps take none.
LoopTick ==
    /\ At("poll") /\ ~Ready /\ sig.pending \subseteq sig.blocked
    /\ time.now < MaxNow
    /\ time' = [time EXCEPT !.now = @ + 1]
    /\ sig' = [sig EXCEPT !.pending = @ \cup {"SIGALRM"}]
    /\ UNCHANGED <<loop, kid>>

MainStep ==
    \/ block_sigchld \/ unblock_sigchld \/ process_start
    \/ process_exited \/ process_wait
    \/ signal_poll \/ signal_wait
    \/ poll_timer_wait \/ time_poll \/ poll_block

AllSignals == TheSignals \cup {"SIGCHLD", "SIGALRM"}

LoopNext ==
    \/ MainStep
    \/ \E s \in AllSignals : Interrupted(s)
    \/ \E k \in TheKids : KidExits(k)
    \/ \E s \in TheSignals : Raise(s)
    \/ LoopTick

\* The program and the kernel's delivery of signals go on; time need not.
LoopSpec ==
    /\ LoopInit /\ [][LoopNext]_loopVars
    /\ WF_loopVars(MainStep) /\ WF_loopVars(\E s \in AllSignals : Interrupted(s))

-----------------------------------------------------------------------------
(* Properties. *)

\* A child that has exited is noticed by process_exited(), and a signal that was
\* raised is reported by signal_poll(), though no time passes: poll_block() never
\* sleeps on what a handler has already noted.  ("Causes the next call to poll_block()
\* to wake up when process 'p' has exited", process.c; the same for signal_wait().)
NothingMissed ==
    /\ \A k \in TheKids : (kid[k].is = "zombie") ~> (kid[k].noticed \/ loop.at = 0)
    /\ \A s \in TheSignals : (s \in sig.owed) ~> (s \notin sig.owed \/ loop.at = 0)

\* "If interrupted by a signal, retries automatically until the original 'timeout'
\* expires" (timeval.c, time_poll): however often it is interrupted, poll_block()
\* sleeps no longer than the shortest time registered.
SleepsNoLonger == At("poll") /\ loop.timeout >= 0 => time.now <= loop.start + loop.timeout
=============================================================================
