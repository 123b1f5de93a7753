------------------------------- MODULE Shell --------------------------------
(***************************************************************************)
(* The job-control shell tsh.c: its main loop, its signal handlers and the *)
(* kernel and children around it.                                          *)
(*                                                                         *)
(* The main loop and the handlers run in one process.  A pending signal    *)
(* that is not blocked may be delivered between any two steps; its handler *)
(* is a frame on top of the interrupted code, and blocks only its own kind *)
(* (Signal installs every handler with an empty sa_mask), so handlers nest.*)
(* A step reads or writes the job list once: addjob fills pid before state *)
(* and deletejob runs with every signal blocked, so a handler never sees   *)
(* half of either.                                                         *)
(*                                                                         *)
(* Children are the processes the shell forks.  They take the default      *)
(* action on SIGINT, SIGTSTP and SIGCONT once they have called execve, and *)
(* until then they run the shell's handlers, which find no foreground job. *)
(***************************************************************************)
EXTENDS JobTable, Sequences, FiniteSets

CONSTANTS Commands,   \* the kinds of command line the user types
          KeysTyped,  \* the keys the user types: ctrl-c, ctrl-z, ctrl-\
          JidLimit    \* bounds nextjid: no command is run past it
ASSUME CommandsAssumption ==
    Commands \subseteq {"run", "run &", "bg pid", "bg %jid",
                        "fg pid", "fg %jid", "quit"}
ASSUME JidLimitAssumption == JidLimit \in Nat

Keys == {"INT", "TSTP"}        \* what ctrl-c and ctrl-z send
ASSUME KeysAssumption == KeysTyped \subseteq Keys \cup {"QUIT"}
Signals == Keys \cup {"CHLD"}

VARIABLES
    jobs, nextjid,   \* the job list
    pc,              \* where the main loop is
    argv,            \* the command line being evaluated
    pid,             \* local pid of eval, do_bgfg and waitfg
    job,             \* local job of do_bgfg: a slot or NULL
    blocked,         \* signal mask of the shell
    pending,         \* signals generated for the shell and not delivered
    frames,          \* active handlers, the innermost last
    child,           \* life of every child
    unreported       \* stopped children that waitpid has not reported

shellVars == <<jobs, nextjid, pc, argv, pid, job>>
vars == <<jobs, nextjid, pc, argv, pid, job, blocked, pending, frames,
          child, unreported>>
-----------------------------------------------------------------------------
(* Children.  forked: not yet in a group of its own; grouped: leads group  *)
(* pid but has not called execve; doomed: stopped, with a SIGINT pending   *)
(* that kills it when it is continued; zombie: dead and not waited for;    *)
(* free: no such process.                                                  *)
ChildStates ==
    {"free", "forked", "grouped", "running", "stopped", "doomed", "zombie"}

Children == {p \in PIDs : child[p] # "free"}
Running(p) == p \in PIDs /\ child[p] \in {"forked", "grouped", "running"}
Waitable == {p \in PIDs : child[p] = "zombie"} \cup unreported

(* The effect of a signal sent to the process or the process group p. *)
Interrupted(p) == CASE child[p] = "running" -> "zombie"
                    [] child[p] = "stopped" -> "doomed"
                    [] OTHER -> child[p]
Suspended(p) == IF child[p] = "running" THEN "stopped" ELSE child[p]
Continued(p) == CASE child[p] = "stopped" -> "running"
                  [] child[p] = "doomed" -> "zombie"
                  [] OTHER -> child[p]

(* Child p moves to state st; the kernel tells the shell by a SIGCHLD when *)
(* a child dies, stops or continues.                                       *)
Move(p, st) ==
    /\ child' = [child EXCEPT ![p] = st]
    /\ unreported' = IF st = "stopped" THEN unreported \cup {p}
                     ELSE IF st = "doomed" THEN unreported
                     ELSE unreported \ {p}
    /\ pending' = IF st \in {"zombie", "stopped"} \/ child[p] = "stopped"
                  THEN pending \cup {"CHLD"}
                  ELSE pending

NobodyMoves == UNCHANGED <<child, unreported, pending>>

(* kill(2) by pid: one without such a process is refused (ESRCH), and 0    *)
(* is the shell's own group, where nobody is stopped.                      *)
Kill(p, sig) ==
    LET after == CASE sig = "INT"  -> Interrupted(p)
                   [] sig = "TSTP" -> Suspended(p)
                   [] sig = "CONT" -> Continued(p)
    IN  IF p \in PIDs /\ after # child[p] THEN Move(p, after) ELSE NobodyMoves
-----------------------------------------------------------------------------
LocalsCleared == argv' = "none" /\ pid' = NoPid /\ job' = NULL

Init ==
    /\ jobs = initjobs /\ nextjid = 1
    /\ pc = "prompt" /\ argv = "none" /\ pid = NoPid /\ job = NULL
    /\ blocked = {} /\ pending = {} /\ frames = <<>>
    /\ child = [p \in PIDs |-> "free"] /\ unreported = {}

Alive == pc \notin {"exited", "crashed"}

(* The main loop moves only when no handler is active. *)
MainAt(label) == frames = <<>> /\ pc = label
Goto(label) == pc' = label

(* Mutant: eval forgets to block SIGCHLD before it forks. *)
ForkUnblocked(p, cmd) ==
    /\ MainAt("prompt") /\ cmd \in Commands \cap {"run", "run &"}
    /\ nextjid <= JidLimit
    /\ child[p] = "free"
    /\ child' = [child EXCEPT ![p] = "forked"]
    /\ argv' = cmd /\ pid' = p /\ Goto("addjob")
    /\ UNCHANGED <<jobs, nextjid, job, blocked, pending, frames, unreported>>

(* eval of a command that is no builtin: SIGCHLD is blocked, then fork. *)
Fork(p, cmd) ==
    /\ MainAt("prompt") /\ cmd \in Commands \cap {"run", "run &"}
    /\ nextjid <= JidLimit
    /\ child[p] = "free"
    /\ child' = [child EXCEPT ![p] = "forked"]
    /\ blocked' = blocked \cup {"CHLD"}
    /\ argv' = cmd /\ pid' = p /\ Goto("addjob")
    /\ UNCHANGED <<jobs, nextjid, job, pending, frames, unreported>>

ForkFails(cmd) ==
    /\ MainAt("prompt") /\ cmd \in Commands \cap {"run", "run &"}
    /\ blocked' = blocked \cup {"CHLD"}
    /\ argv' = cmd /\ pid' = ForkError /\ Goto("addjob")
    /\ UNCHANGED <<jobs, nextjid, job, pending, frames, child, unreported>>

(* Mutant: eval swaps the two states. *)
AddJobSwapped ==
    /\ MainAt("addjob")
    /\ LET added == addjob(jobs, nextjid, pid, IF argv = "run" THEN "BG" ELSE "FG")
       IN  jobs' = added.jobs /\ nextjid' = added.nextjid
    /\ Goto(IF argv = "run" THEN "waitfg" ELSE "unblock")
    /\ UNCHANGED <<argv, pid, job, blocked, frames>> /\ NobodyMoves

(* The result of addjob is ignored: a full job list loses the job. *)
AddJob ==
    /\ MainAt("addjob")
    /\ LET added == addjob(jobs, nextjid, pid, IF argv = "run" THEN "FG" ELSE "BG")
       IN  jobs' = added.jobs /\ nextjid' = added.nextjid
    /\ Goto(IF argv = "run" THEN "waitfg" ELSE "unblock")
    /\ UNCHANGED <<argv, pid, job, blocked, frames>> /\ NobodyMoves

(* Mutant: waitfg unblocks SIGCHLD and then sleeps, in two steps. *)
TestFgUnblocks ==
    /\ MainAt("waitfg")
    /\ Goto(IF pid = fgpid(jobs) THEN "sigsuspend" ELSE "unblock")
    /\ blocked' = {}
    /\ UNCHANGED <<jobs, nextjid, argv, pid, job, frames>> /\ NobodyMoves

(* waitfg: the loop test, then sigsuspend, which opens the mask and sleeps *)
(* in one step.  Deliver takes it back to the loop test.                   *)
TestFg ==
    /\ MainAt("waitfg")
    /\ Goto(IF pid = fgpid(jobs) THEN "sigsuspend" ELSE "unblock")
    /\ UNCHANGED <<jobs, nextjid, argv, pid, job, blocked, frames>> /\ NobodyMoves

Sigsuspend ==
    /\ MainAt("sigsuspend")
    /\ Goto("asleep")
    /\ UNCHANGED <<jobs, nextjid, argv, pid, job, blocked, frames>> /\ NobodyMoves

(* The mask saved before fork, or by fg, is restored: nothing is blocked. *)
Unblock ==
    /\ MainAt("unblock")
    /\ blocked' = {}
    /\ LocalsCleared /\ Goto("prompt")
    /\ UNCHANGED <<jobs, nextjid, frames>> /\ NobodyMoves

(* do_bgfg, a pid argument: getjobpid, with SIGCHLD deliverable. *)
FindByPid(cmd, p) ==
    /\ MainAt("prompt") /\ cmd \in Commands \cap {"bg pid", "fg pid"}
    /\ getjobpid(jobs, p) # NULL
    /\ argv' = cmd /\ pid' = p /\ job' = getjobpid(jobs, p)
    /\ Goto(IF cmd = "bg pid" THEN "bg kill" ELSE "fg kill")
    /\ UNCHANGED <<jobs, nextjid, blocked, frames>> /\ NobodyMoves

(* A job ID argument: getjobjid finds the slot, and its pid is read next. *)
FindByJid(cmd, jid) ==
    /\ MainAt("prompt") /\ cmd \in Commands \cap {"bg %jid", "fg %jid"}
    /\ getjobjid(jobs, jid) # NULL
    /\ argv' = cmd /\ job' = getjobjid(jobs, jid) /\ Goto("read pid")
    /\ UNCHANGED <<jobs, nextjid, pid, blocked, frames>> /\ NobodyMoves

ReadPid ==
    /\ MainAt("read pid")
    /\ pid' = jobs[job].pid
    /\ Goto(IF argv = "bg %jid" THEN "bg kill" ELSE "fg kill")
    /\ UNCHANGED <<jobs, nextjid, argv, job, blocked, frames>> /\ NobodyMoves

(* bg: kill and the write of the state run with SIGCHLD deliverable. *)
BgKill ==
    /\ MainAt("bg kill")
    /\ Kill(pid, "CONT") /\ Goto("bg state")
    /\ UNCHANGED <<jobs, nextjid, argv, pid, job, blocked, frames>>

BgState ==
    /\ MainAt("bg state")
    /\ jobs' = [jobs EXCEPT ![job].state = "BG"]
    /\ LocalsCleared /\ Goto("prompt")
    /\ UNCHANGED <<nextjid, blocked, frames>> /\ NobodyMoves

(* fg: SIGCHLD is blocked only now, after the job was looked up. *)
FgKill ==
    /\ MainAt("fg kill")
    /\ blocked' = blocked \cup {"CHLD"}
    /\ Kill(pid, "CONT") /\ Goto("fg state")
    /\ UNCHANGED <<jobs, nextjid, argv, pid, job, frames>>

FgState ==
    /\ MainAt("fg state")
    /\ jobs' = [jobs EXCEPT ![job].state = "FG"] /\ Goto("waitfg")
    /\ UNCHANGED <<nextjid, argv, pid, job, blocked, frames>> /\ NobodyMoves

(* quit or the end of the input at the prompt, or a SIGQUIT at any time. *)
Quit ==
    /\ \/ MainAt("prompt") /\ "quit" \in Commands
       \/ Alive /\ "QUIT" \in KeysTyped
    /\ Goto("exited")
    /\ UNCHANGED <<jobs, nextjid, argv, pid, job, blocked, frames>> /\ NobodyMoves
-----------------------------------------------------------------------------
(* Signals.  The shell asleep in sigsuspend has every signal unblocked; a  *)
(* handler that wakes it returns to the mask from before sigsuspend.       *)
Asleep == MainAt("asleep")
Mask == IF Asleep THEN {} ELSE blocked

Top == frames[Len(frames)]
HandlerAt(sig, label) ==
    Alive /\ frames # <<>> /\ Top.sig = sig /\ Top.at = label
Below == SubSeq(frames, 1, Len(frames) - 1)
InFrame(label, p) ==
    frames' = Append(Below, [Top EXCEPT !.at = label, !.pid = p])
Return == frames' = Below /\ blocked' = Top.saved

(* Mutant: waitfg tests with if instead of while. *)
DeliverEndsWaitfg(sig) ==
    /\ Alive /\ sig \in pending \ Mask
    /\ pending' = pending \ {sig}
    /\ frames' = Append(frames, [sig |-> sig, at |-> "entered",
                                 pid |-> NoPid, saved |-> blocked])
    /\ blocked' = Mask \cup {sig}
    /\ pc' = IF Asleep THEN "unblock" ELSE pc
    /\ UNCHANGED <<jobs, nextjid, argv, pid, job, child, unreported>>

Deliver(sig) ==
    /\ Alive /\ sig \in pending \ Mask
    /\ pending' = pending \ {sig}
    /\ frames' = Append(frames, [sig |-> sig, at |-> "entered",
                                 pid |-> NoPid, saved |-> blocked])
    /\ blocked' = Mask \cup {sig}
    /\ pc' = IF Asleep THEN "waitfg" ELSE pc
    /\ UNCHANGED <<jobs, nextjid, argv, pid, job, child, unreported>>

(* sigint_handler and sigtstp_handler: read fgpid, then kill its group. *)
ReadFgpid(sig) ==
    /\ HandlerAt(sig, "entered")
    /\ fgpid(jobs) \in PIDs
    /\ InFrame("forward", fgpid(jobs))
    /\ UNCHANGED <<shellVars, blocked>> /\ NobodyMoves

NoForeground(sig) ==
    /\ HandlerAt(sig, "entered")
    /\ fgpid(jobs) \notin PIDs
    /\ Return
    /\ UNCHANGED shellVars /\ NobodyMoves

Forward(sig) ==
    /\ HandlerAt(sig, "forward")
    /\ Kill(Top.pid, sig) /\ Return
    /\ UNCHANGED shellVars

(* sigchld_handler: waitpid with WNOHANG and WUNTRACED reports any child   *)
(* that died or stopped, until there is none.                              *)
ReapDead(p) ==
    /\ HandlerAt("CHLD", "entered")
    /\ child[p] = "zombie"
    /\ child' = [child EXCEPT ![p] = "free"]
    /\ InFrame("dead", p)
    /\ UNCHANGED <<shellVars, blocked, pending, unreported>>

ReportStopped(p) ==
    /\ HandlerAt("CHLD", "entered")
    /\ p \in unreported
    /\ unreported' = unreported \ {p}
    /\ InFrame("stopped", p)
    /\ UNCHANGED <<shellVars, blocked, pending, child>>

NoMoreChildren ==
    /\ HandlerAt("CHLD", "entered")
    /\ Waitable = {}
    /\ Return
    /\ UNCHANGED shellVars /\ NobodyMoves

(* Mutant: sigchld_handler reaps one child only. *)
DeleteJobOnce ==
    /\ HandlerAt("CHLD", "dead")
    /\ LET deleted == deletejob(jobs, nextjid, Top.pid)
       IN  jobs' = deleted.jobs /\ nextjid' = deleted.nextjid
    /\ Return
    /\ UNCHANGED <<pc, argv, pid, job>> /\ NobodyMoves

(* The rest of the loop body runs with every signal blocked: one step. *)
DeleteJob ==
    /\ HandlerAt("CHLD", "dead")
    /\ LET deleted == deletejob(jobs, nextjid, Top.pid)
       IN  jobs' = deleted.jobs /\ nextjid' = deleted.nextjid
    /\ InFrame("entered", NoPid)
    /\ UNCHANGED <<pc, argv, pid, job, blocked>> /\ NobodyMoves

(* Mutants: the stopped job counts as a background job; its state is kept. *)
StopJobInBackground ==
    /\ HandlerAt("CHLD", "stopped")
    /\ LET stopped == getjobpid(jobs, Top.pid)
       IN  /\ stopped # NULL
           /\ jobs' = [jobs EXCEPT ![stopped].state = "BG"]
    /\ InFrame("entered", NoPid)
    /\ UNCHANGED <<nextjid, pc, argv, pid, job, blocked>> /\ NobodyMoves
StopJobIgnored ==
    /\ HandlerAt("CHLD", "stopped")
    /\ InFrame("entered", NoPid)
    /\ UNCHANGED <<shellVars, blocked>> /\ NobodyMoves

StopJob ==
    /\ HandlerAt("CHLD", "stopped")
    /\ LET stopped == getjobpid(jobs, Top.pid)
       IN  /\ stopped # NULL
           /\ jobs' = [jobs EXCEPT ![stopped].state = "ST"]
    /\ InFrame("entered", NoPid)
    /\ UNCHANGED <<nextjid, pc, argv, pid, job, blocked>> /\ NobodyMoves

(* job->state through a NULL job: the shell dies of a segmentation fault. *)
StopUnlisted ==
    /\ HandlerAt("CHLD", "stopped")
    /\ getjobpid(jobs, Top.pid) = NULL
    /\ Goto("crashed")
    /\ UNCHANGED <<jobs, nextjid, argv, pid, job, blocked, frames>> /\ NobodyMoves
-----------------------------------------------------------------------------
(* The keyboard, and the children on their own. *)
Type(sig) ==
    /\ Alive
    /\ sig \notin pending
    /\ pending' = pending \cup {sig}
    /\ UNCHANGED <<shellVars, blocked, frames, child, unreported>>

SetPgid(p) ==
    /\ Alive /\ child[p] = "forked" /\ Move(p, "grouped")
    /\ UNCHANGED <<shellVars, blocked, frames>>

Exec(p) ==
    /\ Alive /\ child[p] = "grouped" /\ Move(p, "running")
    /\ UNCHANGED <<shellVars, blocked, frames>>

(* execve fails, the program ends, or somebody kills it. *)
Dies(p) ==
    /\ Alive /\ child[p] \in {"grouped", "running", "stopped", "doomed"}
    /\ Move(p, "zombie")
    /\ UNCHANGED <<shellVars, blocked, frames>>

(* The program, or somebody else, sends it a SIGTSTP or a SIGSTOP. *)
StopsItself(p) ==
    /\ Alive /\ child[p] = "running" /\ Move(p, "stopped")
    /\ UNCHANGED <<shellVars, blocked, frames>>

(* Somebody else sends it a SIGCONT.  The kernel tells the shell, but       *)
(* waitpid, not asked with WCONTINUED, has nothing to report: the job keeps *)
(* its state on the list.                                                  *)
Continues(p) ==
    /\ Alive /\ child[p] = "stopped" /\ Move(p, "running")
    /\ UNCHANGED <<shellVars, blocked, frames>>

(* The shell is gone; what its children still do is not looked at. *)
Gone == ~Alive /\ UNCHANGED vars

(* The main loop at the prompt, and then up to the next prompt. *)
Command ==
    \/ \E p \in PIDs, cmd \in Commands : Fork(p, cmd) \/ FindByPid(cmd, p)
    \/ \E cmd \in Commands :
          ForkFails(cmd) \/ \E s \in Slots : FindByJid(cmd, jobs[s].jid)
    \/ Quit

MainStep == AddJob \/ TestFg \/ Sigsuspend \/ Unblock
            \/ ReadPid \/ BgKill \/ BgState \/ FgKill \/ FgState

KeyStep(sig) == ReadFgpid(sig) \/ NoForeground(sig) \/ Forward(sig)

ChldStep == \/ \E p \in PIDs : ReapDead(p) \/ ReportStopped(p)
            \/ NoMoreChildren \/ DeleteJob \/ StopJob \/ StopUnlisted

Environment ==
    \/ \E sig \in Keys \cap KeysTyped : Type(sig)
    \/ \E p \in PIDs :
          SetPgid(p) \/ Exec(p) \/ Dies(p) \/ StopsItself(p) \/ Continues(p)

Next == \/ Command \/ MainStep \/ ChldStep \/ Environment \/ Gone
        \/ \E sig \in Keys : KeyStep(sig)
        \/ \E sig \in Signals : Deliver(sig)

Spec == Init /\ [][Next]_vars

(* The scheduler runs the shell, and the kernel delivers a pending signal  *)
(* at the latest when it is unblocked.  Handlers of ctrl-c and ctrl-z can  *)
(* interrupt the main loop and each other again and again, so a step is    *)
(* enabled on and off: that keys do not hold it up for ever is strong      *)
(* fairness.  Nothing is assumed of the children once they run, and        *)
(* nothing of the user.                                                    *)
Fairness == /\ SF_vars(MainStep) /\ SF_vars(ChldStep)
            /\ \A sig \in Keys : SF_vars(KeyStep(sig))
            /\ SF_vars(Deliver("CHLD"))

(* Nobody else stops and continues a child for ever: one who did, in step  *)
(* with sigchld_handler's loop, would keep that loop from ending.          *)
ContinuesEnd == \A p \in PIDs : <>[][~Continues(p)]_vars

FairSpec == Spec /\ Fairness /\ ContinuesEnd
-----------------------------------------------------------------------------
Frame == [sig : Signals, at : {"entered", "forward", "dead", "stopped"},
          pid : PIDs \cup {NoPid}, saved : SUBSET Signals]

Labels == {"prompt", "addjob", "waitfg", "sigsuspend", "asleep", "unblock",
           "read pid", "bg kill", "bg state", "fg kill", "fg state",
           "exited", "crashed"}

TypeOK ==
    /\ jobs \in [Slots -> Job] /\ nextjid \in Nat \ {0}
    /\ pc \in Labels /\ argv \in Commands \cup {"none"}
    /\ pid \in PIDs \cup {NoPid, ForkError} /\ job \in Slots \cup {NULL}
    /\ blocked \subseteq Signals /\ pending \subseteq Signals
    /\ frames \in Seq(Frame)
    /\ child \in [PIDs -> ChildStates] /\ unreported \subseteq PIDs

Waiting == pc \in {"waitfg", "sigsuspend", "asleep"}
Listed(p) == \E s \in Slots : jobs[s].pid = p
Handling(sig) == \E i \in 1 .. Len(frames) : frames[i].sig = sig
BeingDeleted(p) ==
    \E i \in 1 .. Len(frames) : frames[i].at = "dead" /\ frames[i].pid = p

(* The job list names children only, each once: a listed pid is that of a  *)
(* child the shell has not waited for, or of the one sigchld_handler has   *)
(* just reaped and is about to delete (eval, sigchld_handler, addjob,      *)
(* deletejob).                                                             *)
ListedAreChildren ==
    /\ \A s \in Slots : jobs[s].pid \in PIDs =>
          child[jobs[s].pid] # "free" \/ BeingDeleted(jobs[s].pid)
    /\ \A s, t \in Slots : jobs[s].pid \in PIDs /\ jobs[s].pid = jobs[t].pid => s = t

(* With no more children than slots every child is on the list, but for    *)
(* the one eval has forked and not added: SIGCHLD cannot overtake addjob   *)
(* (eval, sigchld_handler).                                                *)
ChildrenAreListed ==
    Alive => \A p \in Children : Listed(p) \/ (pc = "addjob" /\ pid = p)

(* sigchld_handler finds the job of every stopped child: no NULL job.      *)
NeverCrashes == pc # "crashed"

(* A dead or newly stopped child is never forgotten: a SIGCHLD is pending, *)
(* or sigchld_handler is active and will ask waitpid again.                *)
NoChildForgotten == Waitable # {} => "CHLD" \in pending \/ Handling("CHLD")

(* No lost wake-up: while the shell sleeps in waitfg and no SIGCHLD is     *)
(* pending, the job it sleeps for is alive and not stopped (waitfg).       *)
SleepsForLiveJob ==
    Asleep /\ "CHLD" \notin pending /\ pid \in PIDs =>
        Running(pid)

(* At most 1 job can be in the FG state (the comment on job states).       *)
AtMostOneFG == Cardinality({s \in Slots : jobs[s].state = "FG"}) <= 1

(* A foreground job is one the main loop is waiting for (eval, do_bgfg).   *)
ForegroundIsWaitedFor ==
    Alive => \A s \in Slots : jobs[s].state = "FG" => Waiting /\ jobs[s].pid = pid

(* eval and do_bgfg give the prompt back only when the job they put in the *)
(* foreground is off the list (it died, or a full list lost it) or on it   *)
(* as stopped.  One exception is the code's: while another slot is in      *)
(* state FG, which only fg can leave behind, fgpid may answer its pid and  *)
(* waitfg end at once.                                                     *)
ForegroundCommands == {"run", "fg pid", "fg %jid"}
LetGo(p) ==
    \A s \in Slots : jobs[s].pid = p =>
        jobs[s].state = "ST" \/ \E t \in Slots \ {s} : jobs[t].state = "FG"
WaitsForForeground ==
    [][pc = "unblock" /\ argv \in ForegroundCommands /\ pid \in PIDs /\ pc' = "prompt"
       => LetGo(pid)]_vars

(* ctrl-c and ctrl-z never touch a job in the background.                  *)
KeysSpareBackground ==
    [][\A sig \in Keys, s \in Slots :
          HandlerAt(sig, "forward") /\ jobs[s].state = "BG" /\ jobs[s].pid \in PIDs
          /\ frames' = Below
          => child'[jobs[s].pid] = child[jobs[s].pid]]_vars

(* A new job is lost only when every slot is taken by another child (eval, *)
(* addjob).                                                                *)
OnlyAFullListLosesJobs ==
    [][pc = "addjob" /\ pid \in PIDs /\ pc' \in {"waitfg", "unblock"}
       => Listed(pid)' \/ \A s \in Slots : jobs[s].pid \in Children \ {pid}]_vars

(* waitfg does not wait for a process that does not run: it ends when that *)
(* has died, or stopped and is not continued by somebody else before       *)
(* sigchld_handler asks about it (waitfg, sigchld_handler).                *)
WaitfgEnds == (Waiting /\ ~Running(pid)) ~> (~Waiting \/ Running(pid))

(* Every dead child is reaped while the shell lives (sigchld_handler).     *)
ZombiesReaped == \A p \in PIDs : child[p] = "zombie" ~> child[p] = "free" \/ ~Alive

(* Without fg a listed job changes its state in three ways: a foreground   *)
(* job stops, a stopped one goes on in the background, and a background    *)
(* one stops.  The comment on job states (31-34) does not draw the last    *)
(* one, which is what sigchld_handler does to a background job that is     *)
(* sent a SIGSTOP or SIGTSTP.  A foreground job never becomes a background *)
(* one, and a stopped one never a foreground one by itself (do_bgfg,       *)
(* sigchld_handler).                                                       *)
TransitionsWithoutFg ==
    [][\A s \in Slots : jobs[s].pid \in PIDs /\ jobs'[s].pid = jobs[s].pid
        => \/ jobs'[s].state = jobs[s].state
           \/ <<jobs[s].state, jobs'[s].state>> \in
                 {<<"FG", "ST">>, <<"ST", "BG">>, <<"BG", "ST">>}]_vars

(* Once every SIGCHLD has been handled, a job on the list is alive and one *)
(* that is shown in the foreground runs (sigchld_handler, do_bgfg).  One   *)
(* shown as stopped may run, when somebody else continued it, and one      *)
(* shown in the background may be stopped, when that happened between bg's *)
(* kill and its write of the state.                                        *)
Settled == Alive /\ frames = <<>> /\ "CHLD" \notin pending
ListIsUpToDate ==
    Settled => \A s \in Slots : jobs[s].pid \in PIDs =>
        /\ child[jobs[s].pid] \notin {"free", "zombie"}
        /\ jobs[s].state = "FG" => Running(jobs[s].pid)

(* bg and fg write to the slot of the job they signal or, when that job    *)
(* was deleted since they looked it up, to a slot that is still free:      *)
(* never to that of another job (do_bgfg).                                 *)
SlotIsOwn ==
    pc \in {"bg kill", "fg kill", "bg state", "fg state"} =>
        job \in Slots /\ jobs[job].pid \in {pid, NoPid}

(* Every job ID handed out is new: nextjid is above the job IDs in use,    *)
(* unless these have reached MAXJOBS, where nextjid wraps around (addjob,  *)
(* deletejob).                                                             *)
NextJidFresh == nextjid > maxjid(jobs) \/ maxjid(jobs) >= MAXJOBS

(* The job list is a set of jobs: whatever slots and job IDs it uses, and  *)
(* whichever handler runs when, jobs start, change and end by pid, and a   *)
(* full list refuses a new one (eval, do_bgfg, sigchld_handler).           *)
ListedPids == {jobs[s].pid : s \in Slots} \ {NoPid}
live == [p \in ListedPids |-> jobs[getjobpid(jobs, p)].state]
JS == INSTANCE JobSet WITH live <- live
IsJobSet == JS!Spec
(* The list tells the truth about who lives: it names the children, all of *)
(* them (while there are no more than slots), so that sigchld_handler      *)
(* finds every job it looks for; no job on it is dead and the foreground   *)
(* job runs once the signals are handled; and do_bgfg's pointer is never   *)
(* to another job's slot (eval, do_bgfg, sigchld_handler).                 *)
ListIsTrue ==
    ListedAreChildren /\ ChildrenAreListed /\ NeverCrashes /\ ListIsUpToDate /\ SlotIsOwn

(* Without fg, a job is lost only when the list is full, and changes its   *)
(* state only by stopping and by bg (eval, do_bgfg, sigchld_handler).      *)
JobsChangeWithoutFg == OnlyAFullListLosesJobs /\ TransitionsWithoutFg

=============================================================================
