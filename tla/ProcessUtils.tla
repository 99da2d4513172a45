---------------------------- MODULE ProcessUtils ----------------------------
(***************************************************************************)
(* The functions of resetprop's utilities that deal with other processes   *)
(* (tools/resetprop/utils/misc.c): exec_command and exec_command_sync,     *)
(* fork_dont_care, wait_till_exists and check_proc_name.  Process 1 calls  *)
(* them one after another; forks, images and the kernel take their steps   *)
(* in between.                                                             *)
(***************************************************************************)
EXTENDS Integers, Sequences

CONSTANTS
    MaxCalls,   \* calls of process 1
    MaxFiles    \* files another process creates in the watched directory

VARIABLES
    proc,       \* per process: at (its place in the code), parent, by (the call that forked it)
    call,       \* the function process 1 is in
    awaited,    \* the pid its waitpid names, ANY for -1
    pipes,      \* how many read and write ends process 1 has open
    exists,     \* the target of wait_till_exists
    watch,      \* "none", "set"; and the events that can be read
    events,
    subject,    \* the process check_proc_name looks at: "alive" or "dead"
    crashed,
    hist,       \* history: what has gone wrong so far
    calls, files

vars == <<proc, call, awaited, pipes, exists, watch, events, subject, crashed, hist, calls, files>>

Main == 1
Pids == DOMAIN proc
INIT == 0
ANY  == -1

Init ==
    /\ proc = <<[at |-> "caller", parent |-> INIT, by |-> "none"]>>
    /\ call = "none" /\ awaited = ANY /\ pipes = [read |-> 0, write |-> 0]
    /\ exists = FALSE /\ watch = "none" /\ events = 0 /\ subject = "alive"
    /\ crashed = FALSE /\ hist = {} /\ calls = 0 /\ files = 0

others == <<exists, watch, events, subject, crashed, files>>

At(p, place) == [proc EXCEPT ![p].at = place]
\* xfork: the child is a new process at the same place, or there is none.
Forked(p, here, there, by) == Append(At(p, here), [at |-> there, parent |-> p, by |-> by])
NewCall(name) ==
    /\ proc[Main].at = "caller" /\ calls < MaxCalls /\ ~crashed
    /\ calls' = calls + 1 /\ call' = name

-----------------------------------------------------------------------------
(* exec_array *)

\* The parent's pipes after the fork, whether or not it worked.
ParentPipes(async) == IF async THEN [pipes EXCEPT !.read = @ + 1] ELSE pipes

\* exec_command with *fd < 0, or exec_command_sync, up to the fork.
exec_array(async) ==
    LET name == IF async THEN "exec_command" ELSE "exec_command_sync" IN
    /\ NewCall(name)
    /\ \/ /\ async                                        \* xpipe2 fails
          /\ hist' = hist \cup {"pipe"}
          /\ UNCHANGED <<proc, pipes, awaited>>
       \/ /\ hist' = hist \cup {"fork"}                     \* xfork fails
          /\ pipes' = ParentPipes(async)
          /\ UNCHANGED <<proc, awaited>>
       \/ /\ proc' = Forked(Main, IF async THEN "caller" ELSE "waitpid", "execvp", name)
          /\ awaited' = IF async THEN awaited ELSE Len(proc) + 1
          /\ pipes' = ParentPipes(async)
          /\ UNCHANGED hist
    /\ UNCHANGED others

\* The child becomes another program, or returns -1 into the caller's code.
execvp(p) ==
    /\ proc[p].at = "execvp"
    /\ \/ proc' = At(p, "image") /\ UNCHANGED hist
       \/ proc' = At(p, "caller") /\ hist' = hist \cup {"execvp"}
    /\ UNCHANGED <<call, awaited, pipes, calls, others>>

\* The end of a program, of a detached worker or of a child that came back.
\* Its children belong to init from then on, which reaps them.
Exit(p) ==
    /\ p # Main /\ proc[p].at \in {"image", "worker", "caller", "exit"}
    /\ proc' = [q \in Pids |->
                  IF q = p THEN [proc[p] EXCEPT !.at = IF proc[p].parent = INIT THEN "gone" ELSE "zombie"]
                  ELSE IF proc[q].parent = p
                    THEN [proc[q] EXCEPT !.parent = INIT,
                                         !.at = IF @ = "zombie" THEN "gone" ELSE @]
                  ELSE proc[q]]
    /\ UNCHANGED <<call, awaited, pipes, hist, calls, others>>

\* Fault: a call made without a pid looks for any child.
Awaits_Any == {p \in Pids : proc[p].parent = Main /\ proc[p].at # "gone"}

\* The children a waitpid can reap: the one it names, or any with -1.
Awaits == {p \in Pids : proc[p].parent = Main /\ proc[p].at # "gone" /\ awaited \in {p, ANY}}

\* It returns with a child that has ended, or at once if there is none to wait for.
waitpid ==
    /\ proc[Main].at = "waitpid"
    /\ \/ \E p \in Awaits : proc[p].at = "zombie" /\ proc' = [At(p, "gone") EXCEPT ![Main].at = "caller"]
       \/ Awaits = {} /\ proc' = At(Main, "caller")
    /\ UNCHANGED <<call, awaited, pipes, hist, calls, others>>

-----------------------------------------------------------------------------
(* fork_dont_care *)

\* When the fork has failed, waitpid is called with the -1 it returned.
fork_dont_care ==
    /\ NewCall("fork_dont_care")
    /\ \/ /\ proc' = Forked(Main, "waitpid", "middle", "fork_dont_care")
          /\ awaited' = Len(proc) + 1 /\ UNCHANGED hist
       \/ proc' = At(Main, "waitpid") /\ awaited' = ANY /\ hist' = hist \cup {"fork"}
    /\ UNCHANGED <<pipes, others>>

\* The child forks again and exits.
middle(p) == Forked(p, "exit", "worker", "fork_dont_care")

\* The child exits with success when its fork has failed, too.
SecondFork(p) ==
    /\ proc[p].at = "middle"
    /\ \/ proc' = middle(p) /\ UNCHANGED hist
       \/ proc' = At(p, "exit") /\ hist' = hist \cup {"secondFork"}
    /\ UNCHANGED <<call, awaited, pipes, calls, others>>

-----------------------------------------------------------------------------
(* wait_till_exists *)

unwatched == <<pipes, awaited, subject, crashed, calls>>

wait_till_exists ==
    /\ NewCall("wait_till_exists")
    /\ watch' = "none" /\ events' = 0
    /\ proc' = IF exists THEN proc ELSE At(Main, "watch")
    /\ UNCHANGED <<pipes, awaited, exists, subject, crashed, hist, files>>

\* inotify_init, inotify_add_watch
AddWatch ==
    /\ proc[Main].at = "watch"
    /\ watch' = "set"
    /\ proc' = At(Main, "read")
    /\ UNCHANGED <<call, exists, events, files, hist, unwatched>>

\* access() after an event
Seen == exists

\* The first read waits for an event but is too short for one and leaves it in
\* the queue; the second has the length of an event that was never filled in,
\* and takes any number of events out.
ReadEvent ==
    /\ proc[Main].at = "read" /\ events > 0
    /\ events' \in 0 .. events
    /\ IF Seen THEN proc' = At(Main, "caller") /\ watch' = "none"
       ELSE UNCHANGED <<proc, watch>>
    /\ UNCHANGED <<call, exists, files, hist, unwatched>>

\* Another process creates a file in the directory, the target or another one.
OtherCreates ==
    /\ files < MaxFiles
    /\ files' = files + 1
    /\ exists' \in {exists, TRUE}
    /\ events' = IF watch = "set" THEN events + 1 ELSE events
    /\ hist' = IF exists' /\ proc[Main].at = "watch" THEN hist \cup {"unwatched"} ELSE hist
    /\ UNCHANGED <<proc, call, watch, unwatched>>

-----------------------------------------------------------------------------
(* check_proc_name *)

check_proc_name ==
    /\ NewCall("check_proc_name")
    /\ proc' = At(Main, "comm")
    /\ UNCHANGED <<awaited, pipes, hist, others>>

\* /proc/pid/comm: a process that is gone already has another name.  The line
\* ends with a newline, so that no plain name equals it.
comm == /\ UNCHANGED crashed
        /\ proc' = At(Main, IF subject = "dead" THEN "caller" ELSE "cmdline")

\* /proc/pid/cmdline is read although it may not have been opened; exe is
\* looked at with access() first.
cmdline == /\ crashed' = (subject = "dead")
           /\ proc' = IF subject = "dead" THEN proc ELSE At(Main, "caller")

Look ==
    /\ ~crashed
    /\ \/ proc[Main].at = "comm" /\ comm
       \/ proc[Main].at = "cmdline" /\ cmdline
    /\ UNCHANGED <<call, awaited, pipes, exists, watch, events, subject, hist, calls, files>>

SubjectDies ==
    /\ subject = "alive" /\ subject' = "dead"
    /\ hist' = IF proc[Main].at = "cmdline" THEN hist \cup {"diedBetween"} ELSE hist
    /\ UNCHANGED <<proc, call, awaited, pipes, exists, watch, events, crashed, calls, files>>

Next ==
    \/ \E async \in BOOLEAN : exec_array(async)
    \/ \E p \in Pids : execvp(p) \/ Exit(p) \/ SecondFork(p)
    \/ waitpid \/ fork_dont_care
    \/ wait_till_exists \/ AddWatch \/ ReadEvent \/ OtherCreates
    \/ check_proc_name \/ Look \/ SubjectDies
Spec == Init /\ [][Next]_vars

-----------------------------------------------------------------------------
(* Properties *)

\* exec_array returns in the child when execvp has failed; otherwise no second
\* process ever runs the caller's code.
OneCaller == (\E p \in Pids \ {Main} : proc[p].at = "caller") => "execvp" \in hist

\* exec_command_sync and fork_dont_care leave no zombie behind; a program that
\* exec_command has started is left for its caller to wait for, except by a
\* fork_dont_care that could not fork and waits for any child.
Reaping ==
    \A p \in Pids : proc[p].parent = Main =>
        /\ (proc[p].at = "zombie" /\ proc[Main].at # "waitpid") => proc[p].by = "exec_command"
        /\ (proc[p].at = "gone" /\ proc[p].by = "exec_command") => "fork" \in hist

\* exec_command: the caller keeps no write end, so that a reader comes to the
\* end of the output when the program has ended; it gets one read end a call.
PipeEnds == pipes.write = 0 /\ pipes.read <= calls

\* fork_dont_care: the worker is a child of init as soon as the caller goes on,
\* and there is one unless a fork has failed.
Detached ==
    /\ \A p \in Pids : (proc[p].at = "worker" /\ proc[Main].at # "waitpid") => proc[p].parent # Main
    /\ (call = "fork_dont_care" /\ proc[Main].at = "caller" /\ hist \cap {"fork", "secondFork"} = {}) =>
         \E p \in Pids : proc[p].parent = INIT /\ proc[p].by = "fork_dont_care"

\* check_proc_name survives a process that ends before it is looked at; one that
\* ends between two looks is the exception.
LooksSafely == crashed => "diedBetween" \in hist

\* wait_till_exists does not block on with the target there and no event left to
\* wake it, unless the target was created between access() and the watch.
WakesUp == (proc[Main].at = "read" /\ exists /\ events = 0) => "unwatched" \in hist

\* The helpers of misc.c around fork, pipes and watches do what their callers rely on,
\* for every failure of a system call; the failures they do not survive are named.
ProcessInv ==
    /\ OneCaller
    /\ Reaping
    /\ PipeEnds
    /\ Detached
    /\ LooksSafely
    /\ WakesUp
=============================================================================
