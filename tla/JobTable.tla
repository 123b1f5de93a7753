------------------------------ MODULE JobTable ------------------------------
(***************************************************************************)
(* The helper routines of tsh.c that manipulate the job list, as operators *)
(* on a job table (a function from slots to job records) and the global    *)
(* nextjid.                                                                *)
(*                                                                         *)
(* Process IDs are opaque: only equality and the tests pid < 1 and         *)
(* pid == 0 matter, so 0 and -1 are the constants NoPid and ForkError.     *)
(* The command line of a job is not kept: no routine reads it but to print.*)
(***************************************************************************)
EXTENDS Naturals, FiniteSetsExt

CONSTANTS MAXJOBS,    \* slots of the job list
          PIDs,       \* the process IDs of children, all >= 1
          NoPid,      \* the pid 0 of a cleared slot
          ForkError   \* the pid -1 of a fork that failed

ASSUME MAXJOBSAssumption == MAXJOBS \in Nat \ {0}
ASSUME PIDsAssumption == /\ NoPid \notin PIDs
                         /\ ForkError \notin PIDs
                         /\ NoPid # ForkError

Slots == 1 .. MAXJOBS

NULL == 0   \* a NULL struct job_t *; any other job pointer is its slot

JobStates == {"UNDEF", "FG", "BG", "ST"}

Job == [pid : PIDs \cup {NoPid}, jid : Nat, state : JobStates]

ClearedJob == [pid |-> NoPid, jid |-> 0, state |-> "UNDEF"]

initjobs == [s \in Slots |-> ClearedJob]

SlotsWithPid(jobs, pid) == {s \in Slots : jobs[s].pid = pid}

SlotsWithJid(jobs, jid) == {s \in Slots : jobs[s].jid = jid}

(* Every routine scans the slots upwards and takes the first match. *)
FirstOrNULL(S) == IF S = {} THEN NULL ELSE Min(S)

getjobpid(jobs, pid) ==
    IF pid \in PIDs THEN FirstOrNULL(SlotsWithPid(jobs, pid)) ELSE NULL

getjobjid(jobs, jid) ==
    IF jid >= 1 THEN FirstOrNULL(SlotsWithJid(jobs, jid)) ELSE NULL

(* Mutant: a job in the background counts as a foreground job. *)
fgpidOfAnyRunning(jobs) ==
    LET s == FirstOrNULL({t \in Slots : jobs[t].state \in {"FG", "BG"}})
    IN  IF s = NULL THEN NoPid ELSE jobs[s].pid

(* A slot in state FG answers with whatever pid it holds. *)
fgpid(jobs) ==
    LET s == FirstOrNULL({t \in Slots : jobs[t].state = "FG"})
    IN  IF s = NULL THEN NoPid ELSE jobs[s].pid

maxjid(jobs) == Max({0} \cup {jobs[s].jid : s \in Slots})

(* addjob and deletejob return the new job list and the new nextjid.       *)
(* AddedAt fills slot s with the next job ID, which wraps around past wrap.*)
AddedAt(jobs, nextjid, pid, state, s, wrap) ==
    IF pid \in PIDs /\ s # NULL
    THEN [jobs    |-> [jobs EXCEPT ![s] =
                          [pid |-> pid, jid |-> nextjid, state |-> state]],
          nextjid |-> IF nextjid + 1 > wrap THEN 1 ELSE nextjid + 1]
    ELSE [jobs |-> jobs, nextjid |-> nextjid]
FirstFree(jobs) == FirstOrNULL(SlotsWithPid(jobs, NoPid))

(* Mutants: nextjid wraps one job early; a full list loses its last job to *)
(* the new one.                                                            *)
addjobWrapsEarly(jobs, nextjid, pid, state) ==
    AddedAt(jobs, nextjid, pid, state, FirstFree(jobs), MAXJOBS - 1)
addjobOverwrites(jobs, nextjid, pid, state) ==
    AddedAt(jobs, nextjid, pid, state,
            IF FirstFree(jobs) = NULL THEN MAXJOBS ELSE FirstFree(jobs), MAXJOBS)

addjob(jobs, nextjid, pid, state) ==
    AddedAt(jobs, nextjid, pid, state, FirstFree(jobs), MAXJOBS)

(* Mutant: nextjid is the largest job ID in use. *)
deletejobReusesMax(jobs, nextjid, pid) ==
    LET s == getjobpid(jobs, pid)
        cleared == [jobs EXCEPT ![s] = ClearedJob]
    IN  IF s # NULL
        THEN [jobs |-> cleared, nextjid |-> maxjid(cleared)]
        ELSE [jobs |-> jobs, nextjid |-> nextjid]

deletejob(jobs, nextjid, pid) ==
    LET s == getjobpid(jobs, pid)
        cleared == [jobs EXCEPT ![s] = ClearedJob]
    IN  IF s # NULL
        THEN [jobs |-> cleared, nextjid |-> maxjid(cleared) + 1]
        ELSE [jobs |-> jobs, nextjid |-> nextjid]
=============================================================================
