---------------------------- MODULE Shell_proofs ----------------------------
(***************************************************************************)
(* Proofs about the shell for every number of slots, every set of children *)
(* and every set of commands and keys.                                     *)
(* 1. What the job list routines return.                                   *)
(* 2. Type correctness, and that no child is forgotten.                    *)
(* 3. The list names the children, when it has room for every one: what    *)
(*    handlers know holds until they act on it.                            *)
(* 4. Whatever slots it uses, the list is a set of jobs (Shell!IsJobSet).  *)
(* 5. Keys reach no background job (Shell!KeysSpareBackground).            *)
(* 6. No wake-up is lost (Shell!SleepsForLiveJob), and the list tells the  *)
(*    truth about who lives (Shell!ListIsTrue).                            *)
(* 7. The prompt comes back when it should (Shell!WaitsForForeground), and *)
(*    without fg jobs change in few ways (Shell!JobsChangeWithoutFg).      *)
(***************************************************************************)
EXTENDS Shell, NatLemmas, SequenceTheorems, FiniteSetTheorems

(* What the job list routines return, for every size of the job list.      *)

(* The first slot of a set, if there is one.                               *)
LEMMA FirstOrNULLSpec ==
  ASSUME NEW S, S \subseteq Slots
  PROVE  /\ S = {} => FirstOrNULL(S) = NULL
         /\ S # {} => FirstOrNULL(S) \in S /\ FirstOrNULL(S) # NULL
<1>1. S \subseteq Nat /\ 0 \notin S
  BY DEF Slots
<1>2. CASE S = {}
  BY <1>2 DEF FirstOrNULL
<1>3. CASE S # {}
  <2>1. Min(S) \in S
    BY <1>1, <1>3, MinNat
  <2> QED
    BY <2>1, <1>1, <1>3 DEF FirstOrNULL, NULL
<1> QED
  BY <1>2, <1>3

(* getjobpid finds a slot that holds the pid whenever there is one. *)
LEMMA getjobpidSpec ==
  ASSUME NEW list, NEW who
  PROVE  /\ getjobpid(list, who) \in Slots \cup {NULL}
         /\ getjobpid(list, who) # NULL =>
               who \in PIDs /\ list[getjobpid(list, who)].pid = who
         /\ who \in PIDs /\ getjobpid(list, who) = NULL =>
               \A s \in Slots : list[s].pid # who
<1>1. SlotsWithPid(list, who) \subseteq Slots
  BY DEF SlotsWithPid
<1>2. CASE who \in PIDs
  BY <1>1, <1>2, FirstOrNULLSpec DEF getjobpid, SlotsWithPid
<1>3. CASE who \notin PIDs
  BY <1>3 DEF getjobpid
<1> QED
  BY <1>2, <1>3

(* A slot number is not NULL. *)
LEMMA SlotsNotNULL == NULL \notin Slots
  BY DEF NULL, Slots

(* getjobjid finds a slot with the job ID, if any.                         *)
LEMMA getjobjidSpec ==
  ASSUME NEW list, NEW jid
  PROVE  /\ getjobjid(list, jid) \in Slots \cup {NULL}
         /\ getjobjid(list, jid) # NULL => list[getjobjid(list, jid)].jid = jid
<1>1. SlotsWithJid(list, jid) \subseteq Slots
  BY DEF SlotsWithJid
<1> QED
  BY <1>1, FirstOrNULLSpec DEF getjobjid, SlotsWithJid

(* fgpid answers with the pid of a slot in state FG, or NoPid if none is. *)
LEMMA fgpidSpec ==
  ASSUME NEW list
  PROVE  \/ \E s \in Slots : list[s].state = "FG" /\ fgpid(list) = list[s].pid
         \/ fgpid(list) = NoPid /\ \A s \in Slots : list[s].state # "FG"
<1> DEFINE F == {t \in Slots : list[t].state = "FG"}
<1>1. F \subseteq Slots
  OBVIOUS
<1>2. fgpid(list) = IF FirstOrNULL(F) = NULL THEN NoPid
                    ELSE list[FirstOrNULL(F)].pid
  BY DEF fgpid
<1>3. \/ F = {} /\ FirstOrNULL(F) = NULL
      \/ FirstOrNULL(F) \in F /\ FirstOrNULL(F) # NULL
  BY <1>1, FirstOrNULLSpec
<1>4. CASE F = {} /\ FirstOrNULL(F) = NULL
  BY <1>2, <1>4
<1>5. CASE FirstOrNULL(F) \in F /\ FirstOrNULL(F) # NULL
  BY <1>2, <1>5
<1> QED
  BY <1>3, <1>4, <1>5

(* maxjid is the largest job ID. *)
LEMMA maxjidSpec ==
  ASSUME NEW list \in [Slots -> Job]
  PROVE  /\ maxjid(list) \in Nat
         /\ \A s \in Slots : list[s].jid <= maxjid(list)
         /\ maxjid(list) # 0 => \E s \in Slots : list[s].jid = maxjid(list)
<1> DEFINE S == {0} \cup {list[s].jid : s \in Slots}
           jid == [s \in 1..MAXJOBS |-> list[s].jid]
<1>1. jid \in [1..MAXJOBS -> Nat] /\ MAXJOBS \in Nat
  BY MAXJOBSAssumption DEF Slots, Job
<1>2. PICK b \in Nat : \A s \in 1..MAXJOBS : jid[s] <= b
  BY <1>1, BoundedOnInterval
<1>3. S \subseteq Nat /\ S # {} /\ \A y \in S : y <= b
  BY <1>1, <1>2 DEF Slots, Job
<1>4. Max(S) \in S /\ \A y \in S : Max(S) >= y
  <2> HIDE DEF S
  <2> QED
    BY <1>3, MaxNat
<1>5. maxjid(list) = Max(S)
  BY DEF maxjid
<1> QED
  BY <1>3, <1>4, <1>5

(* addjob fills one free slot, or changes nothing: the pid is not one, or  *)
(* no slot is free.                                                        *)
LEMMA addjobSpec ==
  ASSUME NEW list, NEW njid, NEW who, NEW state
  PROVE  LET r == addjob(list, njid, who, state)
         IN  \/ /\ who \in PIDs
                /\ \E s \in Slots :
                      /\ list[s].pid = NoPid
                      /\ r.jobs = [list EXCEPT ![s] =
                            [pid |-> who, jid |-> njid, state |-> state]]
                /\ r.nextjid = IF njid + 1 > MAXJOBS THEN 1 ELSE njid + 1
             \/ /\ r.jobs = list /\ r.nextjid = njid
                /\ who \notin PIDs \/ \A s \in Slots : list[s].pid # NoPid
<1> DEFINE s == FirstFree(list)
<1>1. SlotsWithPid(list, NoPid) \subseteq Slots
  BY DEF SlotsWithPid
<1>2. \/ s = NULL /\ \A t \in Slots : list[t].pid # NoPid
      \/ s # NULL /\ s \in Slots /\ list[s].pid = NoPid
  BY <1>1, FirstOrNULLSpec DEF FirstFree, SlotsWithPid
<1> QED
  BY <1>2 DEF addjob, AddedAt

(* deletejob clears the slot that holds the pid and renumbers, or changes  *)
(* nothing: no slot holds it.                                              *)
LEMMA deletejobSpec ==
  ASSUME NEW list, NEW njid, NEW who
  PROVE  LET r == deletejob(list, njid, who)
         IN  \/ /\ \E s \in Slots :
                      /\ list[s].pid = who
                      /\ r.jobs = [list EXCEPT ![s] = ClearedJob]
                /\ who \in PIDs
                /\ r.nextjid = maxjid(r.jobs) + 1
             \/ /\ r.jobs = list /\ r.nextjid = njid
                /\ who \in PIDs => \A s \in Slots : list[s].pid # who
<1>1. CASE getjobpid(list, who) = NULL
  BY <1>1, getjobpidSpec DEF deletejob
<1>2. CASE getjobpid(list, who) # NULL
  BY <1>2, getjobpidSpec DEF deletejob
<1> QED
  BY <1>1, <1>2
-----------------------------------------------------------------------------
(* The parts of TypeOK that the kernel, the job list and the handlers have *)
(* to themselves.                                                          *)
KernelTyped ==
    /\ child \in [PIDs -> ChildStates] /\ unreported \subseteq PIDs
    /\ pending \subseteq Signals
ListTyped == jobs \in [Slots -> Job] /\ nextjid \in Nat \ {0}
LocalsTyped ==
    /\ pc \in Labels /\ argv \in Commands \cup {"none"}
    /\ pid \in PIDs \cup {NoPid, ForkError} /\ job \in Slots \cup {NULL}
FramesTyped == blocked \subseteq Signals /\ frames \in Seq(Frame)

(* do_bgfg uses job only once it has found one. *)
JobFound == pc = "read pid" => job \in Slots

LEMMA TypeOKParts ==
  /\ TypeOK <=> KernelTyped /\ ListTyped /\ LocalsTyped /\ FramesTyped
  /\ TypeOK' <=> KernelTyped' /\ ListTyped' /\ LocalsTyped' /\ FramesTyped'
  BY DEF TypeOK, KernelTyped, ListTyped, LocalsTyped, FramesTyped

(* A child that moves, or is sent a signal, keeps the kernel's type. *)
LEMMA MoveTyped ==
  ASSUME KernelTyped, NEW p \in PIDs, NEW st \in ChildStates, Move(p, st)
  PROVE  KernelTyped'
  BY DEF KernelTyped, Move, Signals

LEMMA KillTyped ==
  ASSUME KernelTyped, NEW p, NEW sig \in {"INT", "TSTP", "CONT"}, Kill(p, sig)
  PROVE  KernelTyped'
<1>1. CASE NobodyMoves
  BY <1>1 DEF KernelTyped, NobodyMoves
<1>2. CASE p \in PIDs /\ \E st \in ChildStates : Move(p, st)
  BY <1>2, MoveTyped
<1>3. p \in PIDs => {Interrupted(p), Suspended(p), Continued(p)} \subseteq ChildStates
  BY DEF KernelTyped, Interrupted, Suspended, Continued, ChildStates
<1> QED
  BY <1>1, <1>2, <1>3 DEF Kill

(* The first n elements of a sequence. *)
LEMMA PrefixOfSeq ==
  ASSUME NEW S, NEW q \in Seq(S), NEW n \in Nat, n <= Len(q)
  PROVE  /\ SubSeq(q, 1, n) \in Seq(S)
         /\ Len(SubSeq(q, 1, n)) = n
         /\ \A i \in 1 .. n : SubSeq(q, 1, n)[i] = q[i]
<1>1. \A i \in 1 .. n : q[i] \in S
  <2>1. TAKE i \in 1 .. n
  <2>2. i \in 1 .. Len(q)
    BY LenProperties
  <2> QED
    BY <2>2, ElementOfSeq
<1>2. /\ SubSeq(q, 1, n) \in Seq(S)
      /\ Len(SubSeq(q, 1, n)) = IF 1 <= n THEN n - 1 + 1 ELSE 0
      /\ \A i \in 1 .. n - 1 + 1 : SubSeq(q, 1, n)[i] = q[1 + i - 1]
  BY <1>1, SubSeqProperties
<1>3. Len(SubSeq(q, 1, n)) = n
  BY <1>2
<1>4. \A i \in 1 .. n : SubSeq(q, 1, n)[i] = q[i]
  <2>1. TAKE i \in 1 .. n
  <2>2. i \in 1 .. n - 1 + 1 /\ 1 + i - 1 = i
    OBVIOUS
  <2> QED
    BY <2>2, <1>2, Zenon
<1> QED
  BY <1>2, <1>3, <1>4

(* The innermost handler and those below it. *)
LEMMA TopAndBelow ==
  ASSUME FramesTyped, frames # <<>>
  PROVE  /\ Len(frames) \in Nat \ {0}
         /\ Top \in Frame
         /\ Below \in Seq(Frame) /\ Len(Below) = Len(frames) - 1
         /\ \A i \in 1 .. Len(Below) : Below[i] = frames[i]
<1>1. Len(frames) \in Nat \ {0}
  BY EmptySeq DEF FramesTyped
<1>2. Len(frames) \in 1 .. Len(frames)
  BY <1>1
<1>3. Top \in Frame
  BY <1>2, ElementOfSeq DEF FramesTyped, Top
<1>4. Len(frames) - 1 \in Nat /\ Len(frames) - 1 <= Len(frames)
  BY <1>1
<1>5. /\ Below \in Seq(Frame) /\ Len(Below) = Len(frames) - 1
      /\ \A i \in 1 .. Len(frames) - 1 : Below[i] = frames[i]
  BY <1>4, PrefixOfSeq DEF FramesTyped, Below
<1> QED
  BY <1>1, <1>3, <1>5

LEMMA ReturnTyped ==
  ASSUME FramesTyped, frames # <<>>, Return
  PROVE  FramesTyped'
  BY TopAndBelow DEF FramesTyped, Return, Frame

LEMMA InFrameTyped ==
  ASSUME FramesTyped, frames # <<>>, NEW p \in PIDs \cup {NoPid},
         NEW label \in {"entered", "forward", "dead", "stopped"},
         InFrame(label, p), UNCHANGED blocked
  PROVE  FramesTyped'
<1>1. [Top EXCEPT !.at = label, !.pid = p] \in Frame
  BY TopAndBelow DEF Frame
<1> QED
  BY <1>1, TopAndBelow, AppendProperties DEF FramesTyped, InFrame

(* What the steps leave alone, part by part. *)
LEMMA FrameOfStep ==
  /\ KernelTyped /\ NobodyMoves => KernelTyped'
  /\ ListTyped /\ UNCHANGED <<jobs, nextjid>> => ListTyped'
  /\ FramesTyped /\ UNCHANGED <<blocked, frames>> => FramesTyped'
  /\ LocalsTyped /\ UNCHANGED <<pc, argv, pid, job>> => LocalsTyped'
  BY DEF KernelTyped, NobodyMoves, ListTyped, FramesTyped, LocalsTyped

LEMMA addjobTyped ==
  ASSUME ListTyped, NEW p, NEW st \in {"FG", "BG"}
  PROVE  LET r == addjob(jobs, nextjid, p, st)
         IN  r.jobs \in [Slots -> Job] /\ r.nextjid \in Nat \ {0}
<1> DEFINE r == addjob(jobs, nextjid, p, st)
<1>0. \/ /\ p \in PIDs
         /\ \E s \in Slots : r.jobs = [jobs EXCEPT ![s] =
                                [pid |-> p, jid |-> nextjid, state |-> st]]
         /\ r.nextjid = IF nextjid + 1 > MAXJOBS THEN 1 ELSE nextjid + 1
      \/ r.jobs = jobs /\ r.nextjid = nextjid
  BY addjobSpec
<1>1. ASSUME p \in PIDs
      PROVE [pid |-> p, jid |-> nextjid, state |-> st] \in Job
  BY <1>1 DEF Job, JobStates, ListTyped
<1> HIDE DEF r
<1>2. r.jobs \in [Slots -> Job]
  BY <1>0, <1>1 DEF ListTyped
<1>3. r.nextjid \in Nat \ {0}
  BY <1>0 DEF ListTyped
<1> QED
  BY <1>2, <1>3 DEF r

LEMMA deletejobTyped ==
  ASSUME ListTyped, NEW p
  PROVE  LET r == deletejob(jobs, nextjid, p)
         IN  r.jobs \in [Slots -> Job] /\ r.nextjid \in Nat \ {0}
<1> DEFINE r == deletejob(jobs, nextjid, p)
<1>0. \/ /\ \E s \in Slots : r.jobs = [jobs EXCEPT ![s] = ClearedJob]
         /\ r.nextjid = maxjid(r.jobs) + 1
      \/ r.jobs = jobs /\ r.nextjid = nextjid
  BY deletejobSpec
<1>1. ClearedJob \in Job
  BY PIDsAssumption DEF ClearedJob, Job, JobStates
<1> HIDE DEF r
<1>2. r.jobs \in [Slots -> Job]
  BY <1>0, <1>1 DEF ListTyped
<1>3. maxjid(r.jobs) \in Nat
  BY <1>2, maxjidSpec
<1>4. r.nextjid \in Nat \ {0}
  BY <1>0, <1>3 DEF ListTyped
<1> QED
  BY <1>2, <1>4 DEF r

LEMMA SetStateTyped ==
  ASSUME ListTyped, NEW s \in Slots \cup {NULL}, NEW st \in {"FG", "BG", "ST"}
  PROVE  [jobs EXCEPT ![s].state = st] \in [Slots -> Job]
<1>1. CASE s \in Slots
  <2>1. [jobs[s] EXCEPT !.state = st] \in Job
    BY <1>1 DEF ListTyped, Job, JobStates
  <2>2. [jobs EXCEPT ![s].state = st]
          = [jobs EXCEPT ![s] = [jobs[s] EXCEPT !.state = st]]
    OBVIOUS
  <2> QED
    BY <2>1, <2>2 DEF ListTyped
<1>2. CASE s \notin Slots
  BY <1>2 DEF ListTyped
<1> QED
  BY <1>1, <1>2

(* The steps at the prompt keep the type. *)
LEMMA CommandTypeOK == ASSUME TypeOK, Command PROVE TypeOK'
<1> USE TypeOKParts
<1>1. ASSUME NEW p \in PIDs, NEW cmd \in Commands, Fork(p, cmd)
      PROVE  TypeOK'
  <2>1. KernelTyped'
    BY <1>1 DEF Fork, KernelTyped, ChildStates
  <2>2. LocalsTyped'
    BY <1>1 DEF Fork, LocalsTyped, Goto, Labels
  <2>3. ListTyped' /\ FramesTyped'
    BY <1>1 DEF Fork, ListTyped, FramesTyped, Signals
  <2> QED
    BY <2>1, <2>2, <2>3
<1>2. ASSUME NEW p \in PIDs, NEW cmd \in Commands, FindByPid(cmd, p)
      PROVE  TypeOK'
  <2>1. LocalsTyped'
    BY <1>2, getjobpidSpec DEF FindByPid, LocalsTyped, Goto, Labels
  <2> QED
    BY <1>2, <2>1, FrameOfStep DEF FindByPid
<1>3. ASSUME NEW cmd \in Commands, ForkFails(cmd)
      PROVE  TypeOK'
  <2>1. LocalsTyped'
    BY <1>3 DEF ForkFails, LocalsTyped, Goto, Labels
  <2>2. KernelTyped' /\ ListTyped' /\ FramesTyped'
    BY <1>3 DEF ForkFails, KernelTyped, ListTyped, FramesTyped, Signals
  <2> QED
    BY <2>1, <2>2
<1>4. ASSUME NEW cmd \in Commands, NEW s \in Slots, FindByJid(cmd, jobs[s].jid)
      PROVE  TypeOK'
  <2>1. LocalsTyped'
    BY <1>4, getjobjidSpec DEF FindByJid, LocalsTyped, Goto, Labels
  <2> QED
    BY <1>4, <2>1, FrameOfStep DEF FindByJid
<1>5. CASE Quit
  <2>1. LocalsTyped'
    BY <1>5 DEF Quit, LocalsTyped, Goto, Labels
  <2> QED
    BY <1>5, <2>1, FrameOfStep DEF Quit
<1> QED
  BY <1>1, <1>2, <1>3, <1>4, <1>5 DEF Command

(* The steps of the main loop between two prompts keep the type. *)
LEMMA MainStepTypeOK == ASSUME TypeOK, JobFound, MainStep PROVE TypeOK'
<1> USE TypeOKParts
<1>1. CASE AddJob
  <2>1. ListTyped'
    <3>1. PICK st \in {"FG", "BG"} :
             LET r == addjob(jobs, nextjid, pid, st)
             IN  jobs' = r.jobs /\ nextjid' = r.nextjid
      BY <1>1 DEF AddJob
    <3> QED
      BY <3>1, addjobTyped DEF ListTyped
  <2>2. LocalsTyped'
    BY <1>1 DEF AddJob, LocalsTyped, Goto, Labels
  <2> QED
    BY <1>1, <2>1, <2>2, FrameOfStep DEF AddJob
<1>2. CASE TestFg \/ Sigsuspend
  <2>1. LocalsTyped'
    BY <1>2 DEF TestFg, Sigsuspend, LocalsTyped, Goto, Labels
  <2> QED
    BY <1>2, <2>1, FrameOfStep DEF TestFg, Sigsuspend
<1>3. CASE Unblock
  <2>1. LocalsTyped'
    BY <1>3 DEF Unblock, LocalsCleared, LocalsTyped, Goto, Labels
  <2>2. FramesTyped'
    BY <1>3 DEF Unblock, FramesTyped
  <2> QED
    BY <1>3, <2>1, <2>2, FrameOfStep DEF Unblock
<1>4. CASE ReadPid
  <2>1. jobs[job].pid \in PIDs \cup {NoPid}
    BY <1>4 DEF ReadPid, MainAt, JobFound, ListTyped, Job
  <2>2. LocalsTyped'
    BY <1>4, <2>1 DEF ReadPid, LocalsTyped, Goto, Labels
  <2> QED
    BY <1>4, <2>2, FrameOfStep DEF ReadPid
<1>5. CASE BgKill
  <2>1. LocalsTyped'
    BY <1>5 DEF BgKill, LocalsTyped, Goto, Labels
  <2>2. KernelTyped'
    BY <1>5, KillTyped DEF BgKill
  <2> QED
    BY <1>5, <2>1, <2>2, FrameOfStep DEF BgKill
<1>6. CASE FgKill
  <2>1. LocalsTyped'
    BY <1>6 DEF FgKill, LocalsTyped, Goto, Labels
  <2>2. KernelTyped'
    BY <1>6, KillTyped DEF FgKill
  <2>3. FramesTyped'
    BY <1>6 DEF FgKill, FramesTyped, Signals
  <2> QED
    BY <1>6, <2>1, <2>2, <2>3, FrameOfStep DEF FgKill
<1>7. CASE BgState
  <2>1. LocalsTyped'
    BY <1>7 DEF BgState, LocalsCleared, LocalsTyped, Goto, Labels
  <2>2. ListTyped'
    BY <1>7, SetStateTyped DEF BgState, ListTyped, LocalsTyped
  <2> QED
    BY <1>7, <2>1, <2>2, FrameOfStep DEF BgState
<1>8. CASE FgState
  <2>1. LocalsTyped'
    BY <1>8 DEF FgState, LocalsTyped, Goto, Labels
  <2>2. ListTyped'
    BY <1>8, SetStateTyped DEF FgState, ListTyped, LocalsTyped
  <2> QED
    BY <1>8, <2>1, <2>2, FrameOfStep DEF FgState
<1> QED
  BY <1>1, <1>2, <1>3, <1>4, <1>5, <1>6, <1>7, <1>8 DEF MainStep

(* Delivering a signal and running a handler keep the type. *)
LEMMA DeliverTypeOK ==
  ASSUME TypeOK, NEW sig \in Signals, Deliver(sig)
  PROVE  TypeOK'
<1> USE TypeOKParts
<1>1. KernelTyped' /\ ListTyped'
  BY DEF Deliver, KernelTyped, ListTyped
<1>2. LocalsTyped'
  BY DEF Deliver, LocalsTyped, Labels
<1>3. FramesTyped'
  <2> DEFINE f == [sig |-> sig, at |-> "entered", pid |-> NoPid, saved |-> blocked]
  <2>1. f \in Frame
    BY DEF Frame, FramesTyped
  <2>2. Append(frames, f) \in Seq(Frame)
    BY <2>1, AppendProperties DEF FramesTyped
  <2>3. frames' = Append(frames, f) /\ blocked' = Mask \cup {sig}
    BY DEF Deliver
  <2>4. Mask \subseteq Signals
    BY DEF Mask, FramesTyped
  <2> QED
    BY <2>2, <2>3, <2>4 DEF FramesTyped
<1> QED
  BY <1>1, <1>2, <1>3

LEMMA KeyStepTypeOK ==
  ASSUME TypeOK, NEW sig \in Keys, KeyStep(sig)
  PROVE  TypeOK'
<1> USE TypeOKParts
<1>1. CASE ReadFgpid(sig)
  <2>1. FramesTyped'
    BY <1>1, InFrameTyped DEF ReadFgpid, HandlerAt
  <2> QED
    BY <1>1, <2>1, FrameOfStep DEF ReadFgpid, shellVars
<1>2. CASE NoForeground(sig)
  <2>1. FramesTyped'
    BY <1>2, ReturnTyped DEF NoForeground, HandlerAt
  <2> QED
    BY <1>2, <2>1, FrameOfStep DEF NoForeground, shellVars
<1>3. CASE Forward(sig)
  <2>1. FramesTyped'
    BY <1>3, ReturnTyped DEF Forward, HandlerAt
  <2>2. KernelTyped'
    BY <1>3, KillTyped DEF Forward, Keys
  <2> QED
    BY <1>3, <2>1, <2>2, FrameOfStep DEF Forward, shellVars
<1> QED
  BY <1>1, <1>2, <1>3 DEF KeyStep

LEMMA ChldStepTypeOK == ASSUME TypeOK, ChldStep PROVE TypeOK'
<1> USE TypeOKParts
<1>1. ASSUME NEW p \in PIDs, ReapDead(p) \/ ReportStopped(p)
      PROVE  TypeOK'
  <2>1. FramesTyped'
    BY <1>1, InFrameTyped DEF ReapDead, ReportStopped, HandlerAt
  <2>2. KernelTyped'
    BY <1>1 DEF ReapDead, ReportStopped, KernelTyped, ChildStates
  <2> QED
    BY <1>1, <2>1, <2>2, FrameOfStep DEF ReapDead, ReportStopped, shellVars
<1>2. CASE NoMoreChildren
  <2>1. FramesTyped'
    BY <1>2, ReturnTyped DEF NoMoreChildren, HandlerAt
  <2> QED
    BY <1>2, <2>1, FrameOfStep DEF NoMoreChildren, shellVars
<1>3. CASE DeleteJob
  <2>1. FramesTyped'
    BY <1>3, InFrameTyped DEF DeleteJob, HandlerAt
  <2>2. ListTyped'
    BY <1>3, deletejobTyped DEF DeleteJob, ListTyped
  <2> QED
    BY <1>3, <2>1, <2>2, FrameOfStep DEF DeleteJob
<1>4. CASE StopJob
  <2>1. FramesTyped'
    BY <1>4, InFrameTyped DEF StopJob, HandlerAt
  <2>2. ListTyped'
    BY <1>4, getjobpidSpec, SetStateTyped DEF StopJob, ListTyped
  <2> QED
    BY <1>4, <2>1, <2>2, FrameOfStep DEF StopJob
<1>5. CASE StopUnlisted
  <2>1. LocalsTyped'
    BY <1>5 DEF StopUnlisted, LocalsTyped, Goto, Labels
  <2> QED
    BY <1>5, <2>1, FrameOfStep DEF StopUnlisted
<1> QED
  BY <1>1, <1>2, <1>3, <1>4, <1>5 DEF ChldStep

LEMMA EnvironmentTypeOK == ASSUME TypeOK, Environment PROVE TypeOK'
<1> USE TypeOKParts
<1>1. ASSUME NEW sig \in Keys \cap KeysTyped, Type(sig)
      PROVE  TypeOK'
  <2>1. KernelTyped'
    BY <1>1, KeysAssumption DEF Type, KernelTyped, Signals, Keys
  <2> QED
    BY <1>1, <2>1, FrameOfStep DEF Type, shellVars
<1>2. ASSUME NEW p \in PIDs, SetPgid(p) \/ Exec(p) \/ Dies(p)
                               \/ StopsItself(p) \/ Continues(p)
      PROVE  TypeOK'
  <2>1. PICK st \in ChildStates : Move(p, st)
    BY <1>2 DEF SetPgid, Exec, Dies, StopsItself, Continues, ChildStates
  <2>2. KernelTyped'
    BY <2>1, MoveTyped
  <2> QED
    BY <1>2, <2>2, FrameOfStep
    DEF SetPgid, Exec, Dies, StopsItself, Continues, shellVars
<1> QED
  BY <1>1, <1>2 DEF Environment

LEMMA JobFoundStep == ASSUME TypeOK, JobFound, [Next]_vars PROVE JobFound'
<1>1. ASSUME NEW cmd \in Commands, NEW jid, FindByJid(cmd, jid)
      PROVE  JobFound'
  BY <1>1, getjobjidSpec DEF FindByJid, JobFound
<1>2. ASSUME NEW p, NEW cmd, Fork(p, cmd) \/ FindByPid(cmd, p) \/ ForkFails(cmd)
      PROVE  pc' # "read pid"
  BY <1>2 DEF Fork, FindByPid, ForkFails, Goto
<1>3. CASE MainStep \/ Quit
  <2>1. pc' # "read pid"
    BY <1>3 DEF MainStep, Quit, AddJob, TestFg, Sigsuspend, Unblock, ReadPid,
                BgKill, BgState, FgKill, FgState, Goto
  <2> QED
    BY <2>1 DEF JobFound
<1>4. ASSUME NEW sig, KeyStep(sig) \/ Deliver(sig)
      PROVE  JobFound'
  BY <1>4 DEF KeyStep, ReadFgpid, NoForeground, Forward, Deliver, shellVars, JobFound
<1>5. CASE ChldStep \/ Environment
  BY <1>5 DEF ChldStep, ReapDead, ReportStopped, NoMoreChildren, DeleteJob, StopJob,
              StopUnlisted, Environment, Type, SetPgid, Exec, Dies, StopsItself, Continues,
              Goto, shellVars, JobFound
<1>6. CASE UNCHANGED vars
  BY <1>6 DEF vars, JobFound
<1> QED
  BY <1>1, <1>2, <1>3, <1>4, <1>5, <1>6 DEF Next, Command, Gone, JobFound

LEMMA TypeOKStep == ASSUME TypeOK, JobFound, [Next]_vars PROVE TypeOK'
<1>1. CASE UNCHANGED vars
  BY <1>1 DEF vars, TypeOK
<1> QED
  BY <1>1, CommandTypeOK, MainStepTypeOK, ChldStepTypeOK, EnvironmentTypeOK,
     KeyStepTypeOK, DeliverTypeOK DEF Next, Gone

LEMMA InitTypeOK == Init => TypeOK /\ JobFound
<1> SUFFICES ASSUME Init PROVE TypeOK /\ JobFound
  OBVIOUS
<1>1. ListTyped
  BY PIDsAssumption DEF Init, ListTyped, initjobs, ClearedJob, Job, JobStates
<1>2. KernelTyped /\ LocalsTyped
  BY DEF Init, KernelTyped, LocalsTyped, ChildStates, Labels
<1>3. FramesTyped
  BY EmptySeq DEF Init, FramesTyped
<1> QED
  BY <1>1, <1>2, <1>3, TypeOKParts DEF Init, JobFound

(* The shell's variables always have their types (Shell!TypeOK). *)
THEOREM ShellTypeOK == Spec => []TypeOK
<1>1. TypeOK /\ JobFound /\ [Next]_vars => TypeOK' /\ JobFound'
  BY TypeOKStep, JobFoundStep
<1> QED
  BY <1>1, InitTypeOK, PTL DEF Spec
-----------------------------------------------------------------------------
(* The frames after a handler moves on, returns or is entered. *)
LEMMA FramesAfterInFrame ==
  ASSUME FramesTyped, frames # <<>>, NEW p \in PIDs \cup {NoPid},
         NEW label \in {"entered", "forward", "dead", "stopped"},
         InFrame(label, p)
  PROVE  /\ Len(frames') = Len(frames)
         /\ \A i \in 1 .. Len(frames) - 1 : frames'[i] = frames[i]
         /\ frames'[Len(frames)] = [Top EXCEPT !.at = label, !.pid = p]
<1> DEFINE f == [Top EXCEPT !.at = label, !.pid = p]
<1>1. f \in Frame
  BY TopAndBelow DEF Frame
<1> HIDE DEF f
<1>2. /\ Len(Append(Below, f)) = Len(Below) + 1
      /\ \A i \in 1 .. Len(Below) : Append(Below, f)[i] = Below[i]
      /\ Append(Below, f)[Len(Below) + 1] = f
  BY <1>1, TopAndBelow, AppendProperties
<1>3. frames' = Append(Below, f)
  BY DEF InFrame, f
<1>4. Len(frames) \in Nat /\ Len(Below) = Len(frames) - 1 /\ Len(Below) + 1 = Len(frames)
  BY TopAndBelow
<1>5. Len(frames') = Len(frames) /\ frames'[Len(frames)] = f
  BY <1>2, <1>3, <1>4
<1>6. \A i \in 1 .. Len(frames) - 1 : frames'[i] = frames[i]
  BY <1>2, <1>3, <1>4, TopAndBelow
<1> QED
  BY <1>5, <1>6 DEF f

LEMMA HandlingKept ==
  ASSUME FramesTyped, NEW s
  PROVE  /\ \A p \in PIDs \cup {NoPid}, label \in {"entered", "forward", "dead", "stopped"} :
               frames # <<>> /\ InFrame(label, p) /\ Handling(s) => Handling(s)'
         /\ frames # <<>> /\ Return /\ Top.sig # s /\ Handling(s) => Handling(s)'
         /\ UNCHANGED frames /\ Handling(s) => Handling(s)'
<1>1. ASSUME NEW p \in PIDs \cup {NoPid}, frames # <<>>,
             NEW label \in {"entered", "forward", "dead", "stopped"},
             InFrame(label, p), Handling(s)
      PROVE  Handling(s)'
  <2>1. PICK i \in 1 .. Len(frames) : frames[i].sig = s
    BY <1>1 DEF Handling
  <2>2. /\ Len(frames') = Len(frames)
        /\ \A j \in 1 .. Len(frames) - 1 : frames'[j] = frames[j]
        /\ frames'[Len(frames)] = [Top EXCEPT !.at = label, !.pid = p]
    BY <1>1, FramesAfterInFrame
  <2>3. Top.sig = frames[Len(frames)].sig /\ Top \in Frame /\ Len(frames) \in Nat
    BY <1>1, TopAndBelow DEF Top
  <2>4. frames'[i].sig = s
    <3>1. CASE i = Len(frames)
      BY <3>1, <2>1, <2>2, <2>3 DEF Frame
    <3>2. CASE i # Len(frames)
      <4>1. i \in 1 .. Len(frames) - 1
        BY <3>2, <2>3
      <4> QED
        BY <4>1, <2>1, <2>2
    <3> QED
      BY <3>1, <3>2
  <2> QED
    BY <2>1, <2>2, <2>4 DEF Handling
<1>2. ASSUME frames # <<>>, Return, Top.sig # s, Handling(s)
      PROVE  Handling(s)'
  <2>1. PICK i \in 1 .. Len(frames) : frames[i].sig = s
    BY <1>2 DEF Handling
  <2>2. i \in 1 .. Len(Below)
    BY <1>2, <2>1, TopAndBelow DEF Top
  <2> QED
    BY <1>2, <2>1, <2>2, TopAndBelow DEF Return, Handling
<1> QED
  BY <1>1, <1>2 DEF Handling

LEMMA HandlingAfterDeliver ==
  ASSUME FramesTyped, NEW sig \in Signals, Deliver(sig)
  PROVE  Handling(sig)' /\ \A s : Handling(s) => Handling(s)'
<1> DEFINE f == [sig |-> sig, at |-> "entered", pid |-> NoPid, saved |-> blocked]
<1>1. f \in Frame
  BY DEF Frame, FramesTyped
<1>2. /\ frames' = Append(frames, f)
      /\ Len(frames') = Len(frames) + 1
      /\ \A i \in 1 .. Len(frames) : frames'[i] = frames[i]
      /\ frames'[Len(frames) + 1] = f
  <2>1. frames' = Append(frames, f)
    BY DEF Deliver
  <2> HIDE DEF f
  <2> QED
    BY <1>1, <2>1, AppendProperties DEF FramesTyped
<1>3. Len(frames) \in Nat
  BY LenProperties DEF FramesTyped
<1>4. Handling(sig)'
  <2>1. Len(frames) + 1 \in 1 .. Len(frames')
    BY <1>2, <1>3
  <2>2. f.sig = sig
    OBVIOUS
  <2> QED
    BY <1>2, <2>1, <2>2 DEF Handling
<1>5. ASSUME NEW s, Handling(s)
      PROVE  Handling(s)'
  <2>1. PICK i \in 1 .. Len(frames) : frames[i].sig = s
    BY <1>5 DEF Handling
  <2>2. i \in 1 .. Len(frames')
    BY <1>2, <1>3
  <2> QED
    BY <1>2, <2>1, <2>2 DEF Handling
<1> QED
  BY <1>4, <1>5

(* A child that moves either leaves nothing new for waitpid, or raises a   *)
(* SIGCHLD; a raised SIGCHLD is not taken back.                            *)
Announced == "CHLD" \in pending' \/ (Waitable' \subseteq Waitable /\ pending \subseteq pending')

LEMMA MoveAnnounced ==
  ASSUME KernelTyped, NEW p \in PIDs, NEW st \in ChildStates, Move(p, st)
  PROVE  Announced
<1>1. CASE st \in {"zombie", "stopped"}
  BY <1>1 DEF Move, Announced
<1>2. CASE st \notin {"zombie", "stopped"}
  <2>1. unreported' \subseteq unreported
    BY <1>2 DEF Move
  <2>2. \A q \in PIDs : child'[q] = "zombie" => child[q] = "zombie"
    BY <1>2 DEF Move, KernelTyped
  <2>3. pending \subseteq pending'
    BY DEF Move
  <2> QED
    BY <2>1, <2>2, <2>3 DEF Announced, Waitable
<1> QED
  BY <1>1, <1>2

LEMMA KillAnnounced ==
  ASSUME KernelTyped, NEW p, NEW sig \in {"INT", "TSTP", "CONT"}, Kill(p, sig)
  PROVE  Announced
<1>1. CASE NobodyMoves
  BY <1>1 DEF NobodyMoves, Announced, Waitable
<1>2. CASE p \in PIDs /\ \E st \in ChildStates : Move(p, st)
  BY <1>2, MoveAnnounced
<1>3. p \in PIDs => {Interrupted(p), Suspended(p), Continued(p)} \subseteq ChildStates
  BY DEF KernelTyped, Interrupted, Suspended, Continued, ChildStates
<1> QED
  BY <1>1, <1>2, <1>3 DEF Kill

(* An announced step that keeps the active SIGCHLD handler forgets nobody. *)
LEMMA AnnouncedForgetsNobody ==
  ASSUME NoChildForgotten, Announced, Handling("CHLD") => Handling("CHLD")'
  PROVE  NoChildForgotten'
  BY DEF NoChildForgotten, Announced

LEMMA NoChildForgottenStep ==
  ASSUME TypeOK, NoChildForgotten, [Next]_vars
  PROVE  NoChildForgotten'
<1> USE TypeOKParts
<1>0. NobodyMoves => Announced
  BY DEF NobodyMoves, Announced, Waitable
<1>1. CASE Command
  <2>1. UNCHANGED frames
    BY <1>1 DEF Command, Fork, FindByPid, ForkFails, FindByJid, Quit
  <2>2. Announced
    <3>1. ASSUME NEW p \in PIDs, NEW cmd, Fork(p, cmd)
          PROVE  Announced
      BY <3>1 DEF Fork, Announced, Waitable, KernelTyped
    <3> QED
      BY <1>1, <1>0, <3>1
      DEF Command, FindByPid, ForkFails, FindByJid, Quit, Announced, Waitable
  <2> QED
    BY <2>1, <2>2, HandlingKept, AnnouncedForgetsNobody
<1>2. CASE MainStep
  <2>1. UNCHANGED frames
    BY <1>2 DEF MainStep, AddJob, TestFg, Sigsuspend, Unblock, ReadPid,
                BgKill, BgState, FgKill, FgState
  <2>2. Announced
    BY <1>0, <1>2, KillAnnounced
    DEF MainStep, AddJob, TestFg, Sigsuspend, Unblock, ReadPid,
        BgKill, BgState, FgKill, FgState
  <2> QED
    BY <2>1, <2>2, HandlingKept, AnnouncedForgetsNobody
<1>3. ASSUME NEW sig \in Keys, KeyStep(sig)
      PROVE  NoChildForgotten'
  <2>1. Announced
    BY <1>0, <1>3, KillAnnounced DEF KeyStep, ReadFgpid, NoForeground, Forward, Keys
  <2>2. Handling("CHLD") => Handling("CHLD")'
    <3>1. CASE ReadFgpid(sig)
      BY <3>1, HandlingKept DEF ReadFgpid, HandlerAt
    <3>2. CASE NoForeground(sig) \/ Forward(sig)
      <4>1. frames # <<>> /\ Return /\ Top.sig # "CHLD"
        BY <3>2 DEF NoForeground, Forward, HandlerAt, Keys
      <4> QED
        BY <4>1, HandlingKept
    <3> QED
      BY <1>3, <3>1, <3>2 DEF KeyStep
  <2> QED
    BY <2>1, <2>2, AnnouncedForgetsNobody
<1>4. ASSUME NEW sig \in Signals, Deliver(sig)
      PROVE  NoChildForgotten'
  <2>1. Waitable' = Waitable
    BY <1>4 DEF Deliver, Waitable
  <2>2. CASE sig = "CHLD"
    BY <1>4, <2>2, HandlingAfterDeliver DEF NoChildForgotten
  <2>3. CASE sig # "CHLD"
    <3>1. "CHLD" \in pending => "CHLD" \in pending'
      BY <1>4, <2>3 DEF Deliver
    <3> QED
      BY <1>4, <2>1, <3>1, HandlingAfterDeliver DEF NoChildForgotten
  <2> QED
    BY <2>2, <2>3
<1>5. CASE ChldStep
  <2>1. CASE NoMoreChildren
    BY <2>1 DEF NoMoreChildren, NobodyMoves, NoChildForgotten, Waitable
  <2>2. ASSUME HandlerAt("CHLD", "entered") \/ HandlerAt("CHLD", "dead")
                 \/ HandlerAt("CHLD", "stopped"),
               NEW p \in PIDs \cup {NoPid},
               NEW label \in {"entered", "dead", "stopped"}, InFrame(label, p)
        PROVE  Handling("CHLD")'
    <3>1. frames # <<>> /\ Top.sig = "CHLD"
      BY <2>2 DEF HandlerAt
    <3>2. Handling("CHLD")
      BY <3>1, TopAndBelow DEF Handling, Top
    <3> QED
      BY <2>2, <3>1, <3>2, HandlingKept
  <2>3. CASE DeleteJob \/ StopJob
    <3>1. Handling("CHLD")'
      BY <2>2, <2>3 DEF DeleteJob, StopJob
    <3> QED
      BY <3>1 DEF NoChildForgotten
  <2>4. ASSUME NEW p \in PIDs, ReapDead(p) \/ ReportStopped(p)
        PROVE  NoChildForgotten'
    <3>1. Handling("CHLD")'
      BY <2>2, <2>4 DEF ReapDead, ReportStopped
    <3> QED
      BY <3>1 DEF NoChildForgotten
  <2>5. CASE StopUnlisted
    <3>1. UNCHANGED frames /\ Announced
      BY <1>0, <2>5 DEF StopUnlisted
    <3> QED
      BY <3>1, HandlingKept, AnnouncedForgetsNobody
  <2> QED
    BY <1>5, <2>1, <2>3, <2>4, <2>5 DEF ChldStep
<1>6. CASE Environment
  <2>1. UNCHANGED frames
    BY <1>6 DEF Environment, Type, SetPgid, Exec, Dies, StopsItself, Continues
  <2>2. Announced
    <3>1. ASSUME NEW p \in PIDs, SetPgid(p) \/ Exec(p) \/ Dies(p)
                               \/ StopsItself(p) \/ Continues(p)
          PROVE  Announced
      BY <3>1, MoveAnnounced
      DEF SetPgid, Exec, Dies, StopsItself, Continues, ChildStates
    <3>2. ASSUME NEW sig, Type(sig)
          PROVE  Announced
      BY <3>2 DEF Type, Announced, Waitable
    <3> QED
      BY <1>6, <3>1, <3>2 DEF Environment
  <2> QED
    BY <2>1, <2>2, HandlingKept, AnnouncedForgetsNobody
<1>7. CASE UNCHANGED vars
  BY <1>7 DEF vars, NoChildForgotten, Waitable, Handling
<1> QED
  BY <1>1, <1>2, <1>3, <1>4, <1>5, <1>6, <1>7 DEF Next, Gone

(* A child that died or stopped is never forgotten: a SIGCHLD is pending   *)
(* or sigchld_handler is active and asks waitpid again                     *)
(* (Shell!NoChildForgotten; the while loop of sigchld_handler).            *)
THEOREM ShellNoChildForgotten == Spec => []NoChildForgotten
<1>1. Init => NoChildForgotten
  BY DEF Init, NoChildForgotten, Waitable
<1>2. TypeOK /\ JobFound /\ [Next]_vars => TypeOK' /\ JobFound'
  BY TypeOKStep, JobFoundStep
<1>3. TypeOK /\ NoChildForgotten /\ [Next]_vars => NoChildForgotten'
  BY NoChildForgottenStep
<1> QED
  BY <1>1, <1>2, <1>3, InitTypeOK, PTL DEF Spec
-----------------------------------------------------------------------------
(* Job IDs.  A slot that is free has no job ID, so filling it only adds    *)
(* one: the strengthening behind NextJidFresh.                             *)
FreeHasNoJid == \A s \in Slots : jobs[s].pid = NoPid => jobs[s].jid = 0
JidInv == FreeHasNoJid /\ NextJidFresh

LEMMA AddJobJids == ASSUME TypeOK, JidInv, AddJob PROVE JidInv'
<1> DEFINE m == maxjid(jobs)
           m2 == maxjid(jobs')
           st == IF argv = "run" THEN "FG" ELSE "BG"
<1>0. jobs' \in [Slots -> Job]
  BY MainStepTypeOK, TypeOKParts DEF MainStep, JobFound, AddJob, MainAt, ListTyped
<1>1. /\ m \in Nat /\ m2 \in Nat /\ nextjid \in Nat /\ MAXJOBS \in Nat
      /\ \A s \in Slots : jobs[s].jid <= m /\ jobs[s].jid \in Nat
      /\ \A s \in Slots : jobs'[s].jid <= m2 /\ jobs'[s].jid \in Nat
      /\ m # 0 => \E s \in Slots : jobs[s].jid = m
      /\ m2 # 0 => \E s \in Slots : jobs'[s].jid = m2
  BY <1>0, maxjidSpec, MAXJOBSAssumption DEF TypeOK, Job
<1>2. CASE /\ pid \in PIDs
           /\ \E s \in Slots : /\ jobs[s].pid = NoPid
                               /\ jobs' = [jobs EXCEPT ![s] =
                                    [pid |-> pid, jid |-> nextjid, state |-> st]]
           /\ nextjid' = IF nextjid + 1 > MAXJOBS THEN 1 ELSE nextjid + 1
  <2>1. PICK s \in Slots : /\ jobs[s].pid = NoPid
                           /\ jobs' = [jobs EXCEPT ![s] =
                                [pid |-> pid, jid |-> nextjid, state |-> st]]
    BY <1>2
  <2>2. jobs[s].jid = 0
    BY <2>1 DEF JidInv, FreeHasNoJid
  <2>3. jobs'[s].jid = nextjid /\ jobs'[s].pid = pid
    BY <2>1 DEF TypeOK
  <2>4. \A t \in Slots : t # s => jobs'[t] = jobs[t]
    BY <2>1 DEF TypeOK
  <2>5. m2 >= m /\ m2 >= nextjid /\ (m2 = m \/ m2 = nextjid)
    BY <1>1, <2>2, <2>3, <2>4
  <2>6. FreeHasNoJid'
    BY <1>2, <2>3, <2>4, PIDsAssumption DEF JidInv, FreeHasNoJid
  <2> QED
    BY <1>1, <1>2, <2>5, <2>6 DEF JidInv, NextJidFresh
<1>3. CASE jobs' = jobs /\ nextjid' = nextjid
  BY <1>3 DEF JidInv, FreeHasNoJid, NextJidFresh
<1>4. /\ jobs' = addjob(jobs, nextjid, pid, st).jobs
      /\ nextjid' = addjob(jobs, nextjid, pid, st).nextjid
  BY DEF AddJob
<1> QED
  <2> HIDE DEF st
  <2> QED
    BY <1>2, <1>3, <1>4, addjobSpec

LEMMA DeleteJobJids == ASSUME TypeOK, JidInv, DeleteJob PROVE JidInv'
<1>1. jobs' \in [Slots -> Job]
  BY ChldStepTypeOK, TypeOKParts DEF ChldStep, ListTyped
<1>2. CASE /\ \E s \in Slots : jobs' = [jobs EXCEPT ![s] = ClearedJob]
           /\ nextjid' = maxjid(jobs') + 1
  <2>1. FreeHasNoJid'
    BY <1>2 DEF JidInv, FreeHasNoJid, ClearedJob, TypeOK
  <2>2. maxjid(jobs') \in Nat
    BY <1>1, maxjidSpec
  <2>3. nextjid' > maxjid(jobs')
    BY <1>2, <2>2
  <2> QED
    BY <2>1, <2>3 DEF JidInv, NextJidFresh
<1>3. CASE jobs' = jobs /\ nextjid' = nextjid
  BY <1>3 DEF JidInv, FreeHasNoJid, NextJidFresh
<1> QED
  BY <1>2, <1>3, deletejobSpec DEF DeleteJob

(* Writing the state of a slot, or of none, changes no pid and no job ID. *)
LEMMA StateJids ==
  ASSUME TypeOK, JidInv, UNCHANGED nextjid,
         NEW s \in Slots \cup {NULL}, NEW st \in {"FG", "BG", "ST"},
         jobs' = [jobs EXCEPT ![s].state = st]
  PROVE  JidInv'
<1> DEFINE m == maxjid(jobs)
           m2 == maxjid(jobs')
<1>1. jobs' \in [Slots -> Job]
  BY SetStateTyped, TypeOKParts DEF TypeOK
<1>2. /\ m \in Nat /\ m2 \in Nat
      /\ \A t \in Slots : jobs[t].jid <= m /\ jobs[t].jid \in Nat
      /\ \A t \in Slots : jobs'[t].jid <= m2
      /\ m # 0 => \E t \in Slots : jobs[t].jid = m
      /\ m2 # 0 => \E t \in Slots : jobs'[t].jid = m2
  BY <1>1, maxjidSpec DEF TypeOK, Job
<1>3. \A t \in Slots : jobs'[t].jid = jobs[t].jid /\ jobs'[t].pid = jobs[t].pid
  BY DEF TypeOK, Job
<1> HIDE DEF m, m2
<1>4. m <= m2 /\ m2 <= m
  <2>1. m # 0 => m <= m2
    BY <1>2, <1>3
  <2>2. m2 # 0 => m2 <= m
    BY <1>2, <1>3
  <2> QED
    BY <1>2, <2>1, <2>2
<1>5. m2 = m
  BY <1>2, <1>4
<1> QED
  BY <1>3, <1>5 DEF JidInv, m, m2, FreeHasNoJid, NextJidFresh

LEMMA JidInvStep == ASSUME TypeOK, JidInv, [Next]_vars PROVE JidInv'
<1>1. CASE UNCHANGED <<jobs, nextjid>>
  BY <1>1 DEF JidInv, FreeHasNoJid, NextJidFresh
<1>2. CASE BgState \/ FgState
  BY <1>2, StateJids DEF BgState, FgState, TypeOK
<1>3. CASE StopJob
  BY <1>3, StateJids, getjobpidSpec DEF StopJob
<1>4. CASE Command \/ Environment
  BY <1>1, <1>4
  DEF Command, Fork, FindByPid, ForkFails, FindByJid, Quit,
      Environment, Type, SetPgid, Exec, Dies, StopsItself, Continues, shellVars
<1>5. ASSUME NEW sig, KeyStep(sig) \/ Deliver(sig)
      PROVE  JidInv'
  BY <1>1, <1>5 DEF KeyStep, ReadFgpid, NoForeground, Forward, Deliver, shellVars
<1>6. CASE MainStep
  BY <1>1, <1>2, <1>6, AddJobJids
  DEF MainStep, TestFg, Sigsuspend, Unblock, ReadPid, BgKill, FgKill
<1>7. CASE ChldStep
  BY <1>1, <1>3, <1>7, DeleteJobJids
  DEF ChldStep, ReapDead, ReportStopped, NoMoreChildren, StopUnlisted, shellVars
<1>8. CASE UNCHANGED vars
  BY <1>1, <1>8 DEF vars
<1> QED
  BY <1>4, <1>5, <1>6, <1>7, <1>8 DEF Next, Gone

LEMMA InitJidInv == Init => JidInv
<1> SUFFICES ASSUME Init PROVE JidInv
  OBVIOUS
<1>1. jobs \in [Slots -> Job] /\ \A s \in Slots : jobs[s].jid = 0
  BY InitTypeOK DEF TypeOK, Init, initjobs, ClearedJob
<1>2. maxjid(jobs) = 0
  BY <1>1, maxjidSpec
<1> QED
  BY <1>1, <1>2 DEF JidInv, FreeHasNoJid, NextJidFresh, Init

(* A job ID is handed out while it is in use only after the list has       *)
(* wrapped around (Shell!NextJidFresh; addjob, deletejob).                 *)
THEOREM ShellNextJidFresh == Spec => []NextJidFresh
<1>1. TypeOK /\ JobFound /\ JidInv /\ [Next]_vars => TypeOK' /\ JobFound' /\ JidInv'
  BY TypeOKStep, JobFoundStep, JidInvStep
<1>2. JidInv => NextJidFresh
  BY DEF JidInv
<1> QED
  BY <1>1, <1>2, InitTypeOK, InitJidInv, PTL DEF Spec
-----------------------------------------------------------------------------
(* Without fg, only AddJob puts a job in the foreground, when no other is: *)
(* the inductive invariant behind ForegroundIsWaitedFor and AtMostOneFG.   *)
NoFg == Commands \cap {"fg pid", "fg %jid"} = {}
OneForeground ==
    \A s, t \in Slots : jobs[s].state = "FG" /\ jobs[t].state = "FG" => s = t
NoFgPath == pc \notin {"fg kill", "fg state"} /\ (pc = "read pid" => argv = "bg %jid")
ForegroundInv == OneForeground /\ NoFgPath /\ ForegroundIsWaitedFor

LEMMA NoFgPathStep == ASSUME NoFg, NoFgPath, [Next]_vars PROVE NoFgPath'
<1>1. CASE Command
  BY <1>1 DEF NoFg, Command, Fork, FindByPid, ForkFails, FindByJid, Quit, Goto, NoFgPath
<1>2. CASE MainStep
  BY <1>2 DEF NoFgPath, MainStep, AddJob, TestFg, Sigsuspend, Unblock, ReadPid,
              BgKill, BgState, FgKill, FgState, Goto, MainAt
<1>3. ASSUME NEW sig, KeyStep(sig) \/ Deliver(sig)
      PROVE  NoFgPath'
  BY <1>3 DEF KeyStep, ReadFgpid, NoForeground, Forward, Deliver, shellVars, NoFgPath
<1>4. CASE ChldStep \/ Environment
  BY <1>4 DEF ChldStep, ReapDead, ReportStopped, NoMoreChildren, DeleteJob, StopJob,
              StopUnlisted, Environment, Type, SetPgid, Exec, Dies, StopsItself, Continues,
              Goto, shellVars, NoFgPath
<1>5. CASE UNCHANGED vars
  BY <1>5 DEF vars, NoFgPath
<1> QED
  BY <1>1, <1>2, <1>3, <1>4, <1>5 DEF Next, Gone

(* A step that puts no job in the foreground, and keeps the main loop      *)
(* waiting for the same pid if it was, keeps the foreground.               *)
LEMMA ForegroundKept ==
  ASSUME OneForeground, ForegroundIsWaitedFor, Alive' => Alive,
         \A s \in Slots : jobs'[s].state = "FG" =>
                            jobs[s].state = "FG" /\ jobs'[s].pid = jobs[s].pid,
         Alive' /\ Waiting => Waiting' /\ pid' = pid
  PROVE  OneForeground' /\ ForegroundIsWaitedFor'
  BY DEF OneForeground, ForegroundIsWaitedFor

LEMMA ForegroundStep ==
  ASSUME NoFg, TypeOK, ForegroundInv, [Next]_vars
  PROVE  OneForeground' /\ ForegroundIsWaitedFor'
<1> USE DEF ForegroundInv
<1>1. CASE Command
  BY <1>1, ForegroundKept
  DEF Command, Fork, FindByPid, ForkFails, FindByJid, Quit, Goto, MainAt, Alive, Waiting
<1>2. CASE AddJob
  <2>1. /\ pc = "addjob" /\ pid' = pid
        /\ pc' = IF argv = "run" THEN "waitfg" ELSE "unblock"
    BY <1>2 DEF AddJob, MainAt, Goto
  <2>2. \A s \in Slots : jobs[s].state # "FG"
    BY <2>1 DEF ForegroundIsWaitedFor, Alive, Waiting
  <2> DEFINE st == IF argv = "run" THEN "FG" ELSE "BG"
             r == addjob(jobs, nextjid, pid, st)
  <2>3. jobs' = r.jobs
    BY <1>2 DEF AddJob
  <2>4. CASE r.jobs = jobs
    BY <2>2, <2>3, <2>4 DEF OneForeground, ForegroundIsWaitedFor
  <2>5. CASE \E s \in Slots : r.jobs = [jobs EXCEPT ![s] =
                                 [pid |-> pid, jid |-> nextjid, state |-> st]]
    <3>1. PICK s \in Slots : jobs' = [jobs EXCEPT ![s] =
                                 [pid |-> pid, jid |-> nextjid, state |-> st]]
      BY <2>3, <2>5
    <3>2. /\ \A t \in Slots : t # s => jobs'[t] = jobs[t]
          /\ jobs'[s].state = st /\ jobs'[s].pid = pid
      BY <3>1 DEF TypeOK
    <3> QED
      BY <2>1, <2>2, <3>2 DEF OneForeground, ForegroundIsWaitedFor, Waiting
  <2>6. \/ r.jobs = jobs
        \/ \E s \in Slots : r.jobs = [jobs EXCEPT ![s] =
                                 [pid |-> pid, jid |-> nextjid, state |-> st]]
    <3> HIDE DEF st
    <3> QED
      BY addjobSpec
  <2> QED
    BY <2>4, <2>5, <2>6
<1>3. CASE TestFg
  <2>1. CASE pid = fgpid(jobs)
    BY <1>3, <2>1, ForegroundKept DEF TestFg, Goto, MainAt, Alive, Waiting
  <2>2. CASE pid # fgpid(jobs)
    <3>1. \A s \in Slots : jobs[s].state # "FG"
      <4>1. SUFFICES ASSUME NEW s \in Slots, jobs[s].state = "FG" PROVE FALSE
        OBVIOUS
      <4>2. PICK t \in Slots : jobs[t].state = "FG" /\ fgpid(jobs) = jobs[t].pid
        BY <4>1, fgpidSpec
      <4>3. jobs[t].pid = pid
        BY <1>3, <4>2 DEF TestFg, MainAt, ForegroundIsWaitedFor, Alive
      <4> QED
        BY <2>2, <4>2, <4>3
    <3> QED
      BY <1>3, <3>1 DEF TestFg, OneForeground, ForegroundIsWaitedFor
  <2> QED
    BY <2>1, <2>2
<1>4. CASE Sigsuspend \/ Unblock \/ ReadPid \/ BgKill
  BY <1>4, ForegroundKept
  DEF Sigsuspend, Unblock, ReadPid, BgKill, Goto, MainAt, Alive, Waiting
<1>5. CASE BgState
  <2>1. \A s \in Slots : jobs[s].state # "FG"
    BY <1>5 DEF BgState, MainAt, ForegroundIsWaitedFor, Alive, Waiting
  <2>2. \A s \in Slots : jobs'[s].state # "FG"
    BY <1>5, <2>1 DEF BgState, TypeOK, Job
  <2> QED
    BY <2>2 DEF OneForeground, ForegroundIsWaitedFor
<1>6. CASE FgKill \/ FgState
  BY <1>6 DEF FgKill, FgState, MainAt, NoFgPath
<1>7. ASSUME NEW sig, KeyStep(sig) \/ Deliver(sig)
      PROVE  OneForeground' /\ ForegroundIsWaitedFor'
  BY <1>7, ForegroundKept
  DEF KeyStep, ReadFgpid, NoForeground, Forward, Deliver, shellVars, Alive, Waiting
<1>8. CASE DeleteJob
  <2>1. jobs' = jobs \/ \E s \in Slots : jobs' = [jobs EXCEPT ![s] = ClearedJob]
    BY <1>8, deletejobSpec DEF DeleteJob
  <2>2. \A s \in Slots : jobs'[s].state = "FG" =>
                            jobs[s].state = "FG" /\ jobs'[s].pid = jobs[s].pid
    BY <2>1 DEF ClearedJob, TypeOK
  <2> QED
    BY <1>8, <2>2, ForegroundKept DEF DeleteJob, Alive, Waiting
<1>9. CASE StopJob
  <2>1. \A s \in Slots : jobs'[s].state = "FG" =>
                            jobs[s].state = "FG" /\ jobs'[s].pid = jobs[s].pid
    BY <1>9 DEF StopJob, TypeOK, Job
  <2> QED
    BY <1>9, <2>1, ForegroundKept DEF StopJob, Alive, Waiting
<1>10. CASE (\E p \in PIDs : ReapDead(p) \/ ReportStopped(p)) \/ NoMoreChildren
            \/ StopUnlisted \/ Environment
  BY <1>10, ForegroundKept
  DEF ReapDead, ReportStopped, NoMoreChildren, StopUnlisted, Environment, Type,
      SetPgid, Exec, Dies, StopsItself, Continues, Goto, shellVars, Alive, Waiting
<1>11. CASE UNCHANGED vars
  BY <1>11, ForegroundKept DEF vars, Alive, Waiting
<1> QED
  BY <1>1, <1>2, <1>3, <1>4, <1>5, <1>6, <1>7, <1>8, <1>9, <1>10, <1>11
  DEF Next, MainStep, ChldStep, Gone

LEMMA InitForegroundInv == Init => ForegroundInv
  BY DEF Init, initjobs, ClearedJob, ForegroundInv, OneForeground, NoFgPath,
         ForegroundIsWaitedFor

LEMMA OneForegroundCardinality == OneForeground => AtMostOneFG
<1> DEFINE F == {s \in Slots : jobs[s].state = "FG"}
<1> SUFFICES ASSUME OneForeground PROVE Cardinality(F) <= 1
  BY DEF AtMostOneFG
<1>1. CASE F = {}
  BY <1>1, FS_EmptySet
<1>2. CASE F # {}
  <2>1. PICK s \in F : TRUE
    BY <1>2
  <2>2. \A t \in F : t = s
    BY DEF OneForeground
  <2>3. F = {s}
    BY <2>2
  <2>4. Cardinality({s}) <= 1
    BY FS_Singleton
  <2> QED
    BY <2>3, <2>4, Zenon
<1> QED
  BY <1>1, <1>2

(* In a session without fg, a job in state FG is the one the main loop     *)
(* waits for (Shell!ForegroundIsWaitedFor; eval, waitfg).                  *)
THEOREM ShellForegroundIsWaitedFor ==
  ASSUME NoFg
  PROVE  Spec => []ForegroundIsWaitedFor
<1>1. TypeOK /\ JobFound /\ ForegroundInv /\ [Next]_vars
        => TypeOK' /\ JobFound' /\ ForegroundInv'
  BY TypeOKStep, JobFoundStep, NoFgPathStep, ForegroundStep DEF ForegroundInv
<1>2. ForegroundInv => ForegroundIsWaitedFor
  BY DEF ForegroundInv
<1> QED
  BY <1>1, <1>2, InitTypeOK, InitForegroundInv, PTL DEF Spec

(* In a session without fg at most one job is in state FG, as the comment  *)
(* on job states says (Shell!AtMostOneFG; eval, waitfg).                   *)
THEOREM ShellAtMostOneFG ==
  ASSUME NoFg
  PROVE  Spec => []AtMostOneFG
<1>1. TypeOK /\ JobFound /\ ForegroundInv /\ [Next]_vars
        => TypeOK' /\ JobFound' /\ ForegroundInv'
  BY TypeOKStep, JobFoundStep, NoFgPathStep, ForegroundStep DEF ForegroundInv
<1>2. ForegroundInv => AtMostOneFG
  BY OneForegroundCardinality DEF ForegroundInv
<1> QED
  BY <1>1, <1>2, InitTypeOK, InitForegroundInv, PTL DEF Spec
-----------------------------------------------------------------------------
(* SIGCHLD is blocked until the handlers that are active have returned.    *)
Shielded ==
    /\ "CHLD" \in blocked
    /\ \A i \in 1 .. Len(frames) : frames[i].sig # "CHLD" /\ "CHLD" \in frames[i].saved

(* SIGCHLD is blocked as long as its handler is active, so that handlers   *)
(* above it are others, and from fork to addjob.                           *)
ChldMasked ==
    /\ \A i \in 1 .. Len(frames) : frames[i].sig = "CHLD" =>
          /\ "CHLD" \in blocked
          /\ \A j \in i + 1 .. Len(frames) :
                frames[j].sig # "CHLD" /\ "CHLD" \in frames[j].saved
    /\ pc = "addjob" => Shielded

(* What waitpid told a handler still holds until it has acted on it.       *)
FrameTrue(f, life) ==
    /\ f.at \in {"dead", "stopped"} => f.sig = "CHLD" /\ f.pid \in PIDs
    /\ f.at = "dead" => life[f.pid] = "free"
    /\ f.at = "stopped" => life[f.pid] # "free"
FramesTrue == \A i \in 1 .. Len(frames) : FrameTrue(frames[i], child)
FramesInv == ChldMasked /\ FramesTrue

ReportsTrue == \A p \in unreported : child[p] \in {"stopped", "doomed"}

(* The child that eval has forked is not on the list before addjob.        *)
NewIsUnlisted == pc = "addjob" /\ pid \in PIDs => ~Listed(pid) /\ child[pid] # "free"

(* bg and fg signal the process of the job they write to, or nobody.       *)
SignalsItsJob ==
    pc \in {"bg kill", "fg kill"} =>
        /\ job \in Slots
        /\ pid \in PIDs => child[pid] = "free" \/ jobs[job].pid = pid

(* A list with room for every child holds every child. *)
RoomForAll == IsFiniteSet(PIDs) /\ Cardinality(PIDs) <= MAXJOBS
NobodyLost == RoomForAll => ChildrenAreListed /\ NeverCrashes

JobsInv ==
    /\ ReportsTrue /\ NewIsUnlisted /\ SignalsItsJob
    /\ ListedAreChildren /\ NobodyLost
ListInv == FramesInv /\ JobsInv
-----------------------------------------------------------------------------
(* The frames. *)
LEMMA NoFrames ==
  ASSUME frames' = <<>>, pc' = "addjob" => "CHLD" \in blocked'
  PROVE  FramesInv'
<1>1. Len(frames') = 0
  BY EmptySeq
<1>2. 1 .. Len(frames') = {}
  BY <1>1
<1> QED
  BY <1>2 DEF FramesInv, ChldMasked, Shielded, FramesTrue

(* A step that leaves the frames alone, but for the place of one of them.  *)
LEMMA MasksKept ==
  ASSUME FramesTyped, ChldMasked, UNCHANGED blocked,
         Len(frames') = Len(frames),
         \A i \in 1 .. Len(frames) :
            frames'[i].sig = frames[i].sig /\ frames'[i].saved = frames[i].saved,
         pc' = "addjob" => pc = "addjob"
  PROVE  ChldMasked'
<1>1. Len(frames) \in Nat
  BY LenProperties DEF FramesTyped
<1>2. ASSUME NEW i \in 1 .. Len(frames'), frames'[i].sig = "CHLD",
             NEW j \in i + 1 .. Len(frames')
      PROVE  frames'[j].sig # "CHLD" /\ "CHLD" \in frames'[j].saved
  BY <1>1, <1>2 DEF ChldMasked, Shielded
<1> QED
  BY <1>1, <1>2 DEF ChldMasked, Shielded

LEMMA ReturnMasks ==
  ASSUME FramesTyped, ChldMasked, frames # <<>>, Return, UNCHANGED pc
  PROVE  ChldMasked'
<1>1. /\ Len(frames) \in Nat \ {0} /\ Len(frames') = Len(frames) - 1
      /\ \A i \in 1 .. Len(frames) - 1 : frames'[i] = frames[i]
      /\ blocked' = frames[Len(frames)].saved
  BY TopAndBelow DEF Return, Top
<1>2. ASSUME NEW i \in 1 .. Len(frames'), frames'[i].sig = "CHLD"
      PROVE  /\ "CHLD" \in blocked'
             /\ \A j \in i + 1 .. Len(frames') :
                   frames'[j].sig # "CHLD" /\ "CHLD" \in frames'[j].saved
  <2>1. i \in 1 .. Len(frames) /\ frames[i].sig = "CHLD"
        /\ Len(frames) \in i + 1 .. Len(frames)
    BY <1>1, <1>2
  <2>2. \A j \in i + 1 .. Len(frames) :
           frames[j].sig # "CHLD" /\ "CHLD" \in frames[j].saved
    BY <2>1 DEF ChldMasked, Shielded
  <2> QED
    BY <1>1, <2>1, <2>2
<1>3. ASSUME pc' = "addjob"
      PROVE  /\ "CHLD" \in blocked'
             /\ \A i \in 1 .. Len(frames') :
                   frames'[i].sig # "CHLD" /\ "CHLD" \in frames'[i].saved
  BY <1>1, <1>3 DEF ChldMasked, Shielded
<1> QED
  BY <1>2, <1>3 DEF ChldMasked, Shielded

LEMMA FramesAfterDeliver ==
  ASSUME FramesTyped, NEW sig \in Signals, Deliver(sig)
  PROVE  /\ Len(frames) \in Nat /\ Len(frames') = Len(frames) + 1
         /\ \A i \in 1 .. Len(frames) : frames'[i] = frames[i]
         /\ frames'[Len(frames) + 1] =
              [sig |-> sig, at |-> "entered", pid |-> NoPid, saved |-> blocked]
<1> DEFINE f == [sig |-> sig, at |-> "entered", pid |-> NoPid, saved |-> blocked]
<1>1. f \in Frame
  BY DEF Frame, FramesTyped
<1>2. frames' = Append(frames, f)
  BY DEF Deliver
<1> HIDE DEF f
<1>3. Len(frames) \in Nat
  BY LenProperties DEF FramesTyped
<1>4. /\ Len(frames') = Len(frames) + 1
      /\ \A i \in 1 .. Len(frames) : frames'[i] = frames[i]
      /\ frames'[Len(frames) + 1] = f
  BY <1>1, <1>2, AppendProperties DEF FramesTyped
<1> QED
  BY <1>3, <1>4 DEF f

LEMMA DeliverMasks ==
  ASSUME FramesTyped, ChldMasked, NEW sig \in Signals, Deliver(sig)
  PROVE  ChldMasked'
<1> DEFINE n == Len(frames)
<1>1. /\ n \in Nat /\ Len(frames') = n + 1
      /\ \A i \in 1 .. n : frames'[i] = frames[i]
      /\ frames'[n + 1].sig = sig /\ frames'[n + 1].saved = blocked
  <2>1. frames'[n + 1] = [sig |-> sig, at |-> "entered", pid |-> NoPid, saved |-> blocked]
    BY FramesAfterDeliver
  <2> QED
    BY <2>1, FramesAfterDeliver
<1>2. sig \notin Mask /\ blocked' = Mask \cup {sig}
  BY DEF Deliver
<1>3. frames # <<>> \/ pc = "addjob" => Mask = blocked
  BY DEF Mask, Asleep, MainAt
<1>4. pc' = "addjob" => pc = "addjob"
  BY DEF Deliver
<1> HIDE DEF n
<1>5. ASSUME NEW i \in 1 .. n, frames[i].sig = "CHLD"
      PROVE  /\ "CHLD" \in blocked /\ sig # "CHLD" /\ "CHLD" \in blocked'
             /\ \A j \in i + 1 .. n : frames[j].sig # "CHLD" /\ "CHLD" \in frames[j].saved
  <2>1. frames # <<>>
    BY <1>1, EmptySeq DEF n
  <2> QED
    BY <1>2, <1>3, <1>5, <2>1 DEF ChldMasked, Shielded, n
<1>6. ASSUME NEW i \in 1 .. n + 1, frames'[i].sig = "CHLD"
      PROVE  /\ "CHLD" \in blocked'
             /\ \A j \in i + 1 .. n + 1 :
                   frames'[j].sig # "CHLD" /\ "CHLD" \in frames'[j].saved
  <2>1. CASE i = n + 1
    BY <1>1, <1>2, <1>6, <2>1
  <2>2. CASE i # n + 1
    <3>1. i \in 1 .. n /\ frames[i].sig = "CHLD"
      BY <1>1, <1>6, <2>2
    <3>2. ASSUME NEW j \in i + 1 .. n + 1
          PROVE  frames'[j].sig # "CHLD" /\ "CHLD" \in frames'[j].saved
      BY <1>1, <1>5, <3>1
    <3> QED
      BY <1>5, <3>1, <3>2
  <2> QED
    BY <2>1, <2>2
<1>7. ASSUME pc' = "addjob", NEW i \in 1 .. n + 1
      PROVE  /\ "CHLD" \in blocked'
             /\ frames'[i].sig # "CHLD" /\ "CHLD" \in frames'[i].saved
  <2>1. "CHLD" \in blocked /\ sig # "CHLD" /\ "CHLD" \in blocked'
    BY <1>2, <1>3, <1>4, <1>7 DEF ChldMasked, Shielded
  <2>2. i \in 1 .. n => frames[i].sig # "CHLD" /\ "CHLD" \in frames[i].saved
    BY <1>4, <1>7 DEF ChldMasked, Shielded, n
  <2> QED
    BY <1>1, <2>1, <2>2
<1> QED
  BY <1>1, <1>6, <1>7 DEF ChldMasked, Shielded

(* Under a SIGCHLD handler there is no other one. *)
LEMMA OneChldHandler ==
  ASSUME FramesTyped, ChldMasked, frames # <<>>, Top.sig = "CHLD"
  PROVE  /\ \A i \in 1 .. Len(frames) - 1 : frames[i].sig # "CHLD"
         /\ pc # "addjob"
<1>1. Len(frames) \in Nat \ {0} /\ frames[Len(frames)].sig = "CHLD"
  BY TopAndBelow DEF Top
<1> QED
  BY <1>1 DEF ChldMasked, Shielded

(* Nobody is waited for, and nobody is forked. *)
SameLives == \A p \in PIDs : child[p] = "free" <=> child'[p] = "free"

LEMMA FrameTrueKept ==
  ASSUME NEW f, FrameTrue(f, child), SameLives
  PROVE  FrameTrue(f, child')
<1>1. CASE f.at \in {"dead", "stopped"}
  <2>1. f.pid \in PIDs /\ f.sig = "CHLD"
    BY <1>1 DEF FrameTrue
  <2>2. f.at = "dead" => child'[f.pid] = "free"
    BY <2>1 DEF FrameTrue, SameLives
  <2>3. f.at = "stopped" => child'[f.pid] # "free"
    BY <2>1 DEF FrameTrue, SameLives
  <2> QED
    BY <2>1, <2>2, <2>3 DEF FrameTrue
<1>2. CASE f.at \notin {"dead", "stopped"}
  BY <1>2 DEF FrameTrue
<1> QED
  BY <1>1, <1>2

LEMMA FramesUntouched ==
  ASSUME FramesTyped, FramesInv, UNCHANGED <<frames, blocked>>, SameLives,
         pc' = "addjob" => pc = "addjob"
  PROVE  FramesInv'
<1>1. ChldMasked'
  BY MasksKept DEF FramesInv
<1>2. FramesTrue'
  BY FrameTrueKept DEF FramesInv, FramesTrue
<1> QED
  BY <1>1, <1>2 DEF FramesInv

LEMMA FramesReturn ==
  ASSUME FramesTyped, FramesInv, frames # <<>>, Return, SameLives, UNCHANGED pc
  PROVE  FramesInv'
<1>1. ChldMasked'
  BY ReturnMasks DEF FramesInv
<1>2. /\ Len(frames) \in Nat /\ Len(frames') = Len(frames) - 1
      /\ \A i \in 1 .. Len(frames) - 1 : frames'[i] = frames[i]
  BY TopAndBelow DEF Return
<1>3. ASSUME NEW i \in 1 .. Len(frames') PROVE FrameTrue(frames'[i], child')
  <2>1. i \in 1 .. Len(frames) /\ frames'[i] = frames[i]
    BY <1>2
  <2>2. FrameTrue(frames[i], child)
    BY <2>1 DEF FramesInv, FramesTrue
  <2> QED
    BY <2>1, <2>2, FrameTrueKept
<1> QED
  BY <1>1, <1>3 DEF FramesInv, FramesTrue

LEMMA FramesDeliver ==
  ASSUME FramesTyped, FramesInv, NEW sig \in Signals, Deliver(sig)
  PROVE  FramesInv'
<1>1. ChldMasked'
  BY DeliverMasks DEF FramesInv
<1>2. UNCHANGED child
  BY DEF Deliver
<1>3. ASSUME NEW i \in 1 .. Len(frames') PROVE FrameTrue(frames'[i], child')
  <2>1. CASE i \in 1 .. Len(frames)
    <3>1. frames'[i] = frames[i] /\ FrameTrue(frames[i], child)
      BY <2>1, FramesAfterDeliver DEF FramesInv, FramesTrue
    <3> QED
      BY <1>2, <3>1
  <2>2. CASE i \notin 1 .. Len(frames)
    <3>1. i = Len(frames) + 1
      <4>1. Len(frames) \in Nat /\ Len(frames') = Len(frames) + 1
        BY FramesAfterDeliver
      <4> QED
        BY <2>2, <4>1
    <3>2. frames'[Len(frames) + 1] =
            [sig |-> sig, at |-> "entered", pid |-> NoPid, saved |-> blocked]
      BY FramesAfterDeliver
    <3>3. frames'[i].at = "entered"
      BY <3>1, <3>2
    <3> QED
      BY <3>3 DEF FrameTrue
  <2> QED
    BY <2>1, <2>2
<1> QED
  BY <1>1, <1>3 DEF FramesInv, FramesTrue

(* A handler moves on: the frames below are true of whoever lives then, and *)
(* so is what the handler now knows.                                       *)
LEMMA FramesInFrame ==
  ASSUME FramesTyped, FramesInv, frames # <<>>, NEW p \in PIDs \cup {NoPid},
         NEW label \in {"entered", "forward", "dead", "stopped"},
         InFrame(label, p), UNCHANGED <<pc, blocked>>,
         SameLives \/ Top.sig = "CHLD",
         label \in {"dead", "stopped"} => Top.sig = "CHLD" /\ p \in PIDs,
         label = "dead" => child'[p] = "free",
         label = "stopped" => child'[p] # "free"
  PROVE  FramesInv'
<1> DEFINE n == Len(frames)
           f == [Top EXCEPT !.at = label, !.pid = p]
<1>1. /\ Len(frames') = n /\ n \in Nat \ {0}
      /\ \A i \in 1 .. n - 1 : frames'[i] = frames[i]
      /\ frames'[n] = f
  BY FramesAfterInFrame, TopAndBelow
<1>2. Top = frames[n] /\ Top \in Frame
  BY TopAndBelow DEF Top
<1>3. f.sig = Top.sig /\ f.saved = Top.saved /\ f.at = label /\ f.pid = p
  BY <1>2 DEF Frame
<1> HIDE DEF n, f
<1>4. \A i \in 1 .. n : frames'[i].sig = frames[i].sig /\ frames'[i].saved = frames[i].saved
  BY <1>1, <1>2, <1>3
<1>5. ChldMasked'
  BY <1>1, <1>4, MasksKept DEF FramesInv, n
<1>6. ASSUME NEW i \in 1 .. n PROVE FrameTrue(frames'[i], child')
  <2>1. CASE i = n
    BY <1>1, <1>3, <2>1 DEF FrameTrue
  <2>2. CASE i # n
    <3>1. i \in 1 .. n - 1 /\ frames'[i] = frames[i] /\ FrameTrue(frames[i], child)
      BY <1>1, <2>2 DEF FramesInv, FramesTrue, n
    <3>2. CASE SameLives
      BY <3>1, <3>2, FrameTrueKept
    <3>3. CASE Top.sig = "CHLD"
      <4>1. frames[i].sig # "CHLD"
        BY <3>1, <3>3, OneChldHandler DEF FramesInv, n
      <4> QED
        BY <3>1, <4>1 DEF FrameTrue
    <3> QED
      BY <3>2, <3>3
  <2> QED
    BY <2>1, <2>2
<1> QED
  BY <1>1, <1>5, <1>6 DEF FramesInv, FramesTrue

(* A child moves on its own, or is sent a signal. *)
LEMMA MoveLives ==
  ASSUME KernelTyped, NEW p \in PIDs, NEW st \in ChildStates \ {"free"}, Move(p, st),
         child[p] # "free"
  PROVE  SameLives
<1>1. child' = [child EXCEPT ![p] = st]
  BY DEF Move
<1> QED
  BY <1>1 DEF SameLives, KernelTyped

(* What a signal does to a child. *)
LEMMA KillMoves ==
  ASSUME KernelTyped, NEW p, NEW sig \in {"INT", "TSTP", "CONT"}, Kill(p, sig)
  PROVE  \/ NobodyMoves
         \/ /\ p \in PIDs /\ child[p] # "free"
            /\ \E st \in ChildStates \ {"free"} : Move(p, st)
<1>1. SUFFICES ASSUME ~NobodyMoves
               PROVE  /\ p \in PIDs /\ child[p] # "free"
                      /\ \E st \in ChildStates \ {"free"} : Move(p, st)
  OBVIOUS
<1>2. p \in PIDs
  BY <1>1 DEF Kill
<1>3. CASE sig = "INT"
  <2>1. Move(p, Interrupted(p)) /\ Interrupted(p) # child[p]
    BY <1>1, <1>3 DEF Kill
  <2> QED
    BY <1>2, <2>1 DEF Interrupted, ChildStates
<1>4. CASE sig = "TSTP"
  <2>1. Move(p, Suspended(p)) /\ Suspended(p) # child[p]
    BY <1>1, <1>4 DEF Kill
  <2> QED
    BY <1>2, <2>1 DEF Suspended, ChildStates
<1>5. CASE sig = "CONT"
  <2>1. Move(p, Continued(p)) /\ Continued(p) # child[p]
    BY <1>1, <1>5 DEF Kill
  <2> QED
    BY <1>2, <2>1 DEF Continued, ChildStates
<1> QED
  BY <1>3, <1>4, <1>5

LEMMA FramesStep == ASSUME TypeOK, ListInv, [Next]_vars PROVE FramesInv'
<1> USE TypeOKParts DEF ListInv
<1>0. UNCHANGED child => SameLives
  BY DEF SameLives
<1>1. CASE Command
  <2>1. CASE Quit
    BY <1>0, <2>1, FramesUntouched DEF Quit, NobodyMoves, Goto
  <2>2. CASE frames' = <<>> /\ (pc' = "addjob" => "CHLD" \in blocked')
    BY <2>2, NoFrames
  <2> QED
    BY <1>1, <2>1, <2>2 DEF Command, Fork, FindByPid, ForkFails, FindByJid, MainAt, Goto
<1>2. CASE MainStep
  <2>1. frames' = <<>> /\ pc' # "addjob"
    BY <1>2 DEF MainStep, AddJob, TestFg, Sigsuspend, Unblock, ReadPid, BgKill,
                BgState, FgKill, FgState, MainAt, Goto
  <2> QED
    BY <2>1, NoFrames
<1>3. ASSUME NEW sig \in Keys, KeyStep(sig)
      PROVE  FramesInv'
  <2>1. CASE ReadFgpid(sig)
    <3>1. /\ frames # <<>> /\ fgpid(jobs) \in PIDs /\ InFrame("forward", fgpid(jobs))
          /\ UNCHANGED <<pc, blocked, child>>
      BY <2>1 DEF ReadFgpid, HandlerAt, shellVars, NobodyMoves
    <3> QED
      BY <1>0, <3>1, FramesInFrame
  <2>2. CASE NoForeground(sig)
    BY <1>0, <2>2, FramesReturn DEF NoForeground, HandlerAt, shellVars, NobodyMoves
  <2>3. CASE Forward(sig)
    <3>1. frames # <<>> /\ Return /\ UNCHANGED pc /\ Kill(Top.pid, sig)
      BY <2>3 DEF Forward, HandlerAt, shellVars
    <3>2. SameLives
      <4>1. sig \in {"INT", "TSTP", "CONT"}
        BY DEF Keys
      <4> QED
        BY <1>0, <3>1, <4>1, KillMoves, MoveLives DEF NobodyMoves
    <3> QED
      BY <3>1, <3>2, FramesReturn
  <2> QED
    BY <1>3, <2>1, <2>2, <2>3 DEF KeyStep
<1>4. ASSUME NEW sig \in Signals, Deliver(sig)
      PROVE  FramesInv'
  BY <1>4, FramesDeliver
<1>5. CASE ChldStep
  <2>1. ASSUME NEW p \in PIDs, ReapDead(p)
        PROVE  FramesInv'
    <3>1. /\ frames # <<>> /\ Top.sig = "CHLD" /\ InFrame("dead", p)
          /\ UNCHANGED <<pc, blocked>> /\ child' = [child EXCEPT ![p] = "free"]
      BY <2>1 DEF ReapDead, HandlerAt, shellVars
    <3>2. child'[p] = "free"
      BY <3>1 DEF KernelTyped
    <3> QED
      BY <3>1, <3>2, FramesInFrame
  <2>2. ASSUME NEW p \in PIDs, ReportStopped(p)
        PROVE  FramesInv'
    <3>1. /\ frames # <<>> /\ Top.sig = "CHLD" /\ InFrame("stopped", p)
          /\ UNCHANGED <<pc, blocked, child>> /\ p \in unreported
      BY <2>2 DEF ReportStopped, HandlerAt, shellVars
    <3>2. child'[p] # "free"
      BY <3>1 DEF JobsInv, ReportsTrue
    <3> QED
      BY <1>0, <3>1, <3>2, FramesInFrame
  <2>3. CASE NoMoreChildren
    BY <1>0, <2>3, FramesReturn DEF NoMoreChildren, HandlerAt, shellVars, NobodyMoves
  <2>4. CASE DeleteJob \/ StopJob
    <3>1. /\ frames # <<>> /\ InFrame("entered", NoPid) /\ UNCHANGED <<pc, blocked, child>>
      BY <2>4 DEF DeleteJob, StopJob, HandlerAt, NobodyMoves
    <3> QED
      BY <1>0, <3>1, FramesInFrame
  <2>5. CASE StopUnlisted
    BY <1>0, <2>5, FramesUntouched DEF StopUnlisted, NobodyMoves, Goto
  <2> QED
    BY <1>5, <2>1, <2>2, <2>3, <2>4, <2>5 DEF ChldStep
<1>6. CASE Environment
  <2>1. ASSUME NEW sig, Type(sig)
        PROVE  FramesInv'
    BY <1>0, <2>1, FramesUntouched DEF Type, shellVars
  <2>2. ASSUME NEW p \in PIDs, SetPgid(p) \/ Exec(p) \/ Dies(p)
                               \/ StopsItself(p) \/ Continues(p)
        PROVE  FramesInv'
    <3>1. /\ UNCHANGED <<frames, blocked, pc>>
          /\ \E st \in ChildStates \ {"free"} : Move(p, st) /\ child[p] # "free"
      BY <2>2 DEF SetPgid, Exec, Dies, StopsItself, Continues, shellVars, ChildStates
    <3>2. SameLives
      BY <3>1, MoveLives
    <3> QED
      BY <3>1, <3>2, FramesUntouched
  <2> QED
    BY <1>6, <2>1, <2>2 DEF Environment
<1>7. CASE UNCHANGED vars
  BY <1>0, <1>7, FramesUntouched DEF vars
<1> QED
  BY <1>1, <1>2, <1>3, <1>4, <1>5, <1>6, <1>7 DEF Next, Gone
-----------------------------------------------------------------------------
(* The job list. *)

(* What waitpid said of a process stays on record until it is acted on.    *)
Recorded(what, q) ==
    \E i \in 1 .. Len(frames) : frames[i].at = what /\ frames[i].pid = q

LEMMA RecordKept ==
  ASSUME FramesTyped, NEW what, NEW q, Recorded(what, q),
         \/ UNCHANGED frames
         \/ \E sig \in Signals : Deliver(sig)
         \/ frames # <<>> /\ ~(Top.at = what /\ Top.pid = q) /\ Return
         \/ /\ frames # <<>> /\ ~(Top.at = what /\ Top.pid = q)
            /\ \E p \in PIDs \cup {NoPid}, label \in {"entered", "forward", "dead", "stopped"} :
                  InFrame(label, p)
  PROVE  Recorded(what, q)'
<1>1. PICK i \in 1 .. Len(frames) : frames[i].at = what /\ frames[i].pid = q
  BY DEF Recorded
<1>2. CASE UNCHANGED frames
  BY <1>1, <1>2 DEF Recorded
<1>3. ASSUME NEW sig \in Signals, Deliver(sig)
      PROVE  Recorded(what, q)'
  <2>1. /\ Len(frames) \in Nat /\ Len(frames') = Len(frames) + 1
        /\ \A j \in 1 .. Len(frames) : frames'[j] = frames[j]
    BY <1>3, FramesAfterDeliver
  <2>2. i \in 1 .. Len(frames') /\ frames'[i] = frames[i]
    BY <1>1, <2>1
  <2> QED
    BY <1>1, <2>2 DEF Recorded
<1>4. ASSUME frames # <<>>, ~(Top.at = what /\ Top.pid = q)
      PROVE  Len(frames) \in Nat /\ i \in 1 .. Len(frames) - 1
  BY <1>1, <1>4, TopAndBelow DEF Top
<1>5. CASE frames # <<>> /\ ~(Top.at = what /\ Top.pid = q) /\ Return
  <2>1. i \in 1 .. Len(frames') /\ frames'[i] = frames[i]
    BY <1>4, <1>5, TopAndBelow DEF Return
  <2> QED
    BY <1>1, <2>1 DEF Recorded
<1>6. ASSUME frames # <<>>, ~(Top.at = what /\ Top.pid = q), NEW p \in PIDs \cup {NoPid},
             NEW label \in {"entered", "forward", "dead", "stopped"}, InFrame(label, p)
      PROVE  Recorded(what, q)'
  <2>1. i \in 1 .. Len(frames') /\ frames'[i] = frames[i]
    BY <1>4, <1>6, FramesAfterInFrame
  <2> QED
    BY <1>1, <2>1 DEF Recorded
<1> QED
  BY <1>2, <1>3, <1>5, <1>6

LEMMA DeadKept ==
  ASSUME FramesTyped, NEW q, BeingDeleted(q),
         \/ UNCHANGED frames
         \/ \E sig \in Signals : Deliver(sig)
         \/ frames # <<>> /\ Top.at # "dead" /\ Return
         \/ /\ frames # <<>> /\ Top.at # "dead"
            /\ \E p \in PIDs \cup {NoPid}, label \in {"entered", "forward", "dead", "stopped"} :
                  InFrame(label, p)
  PROVE  BeingDeleted(q)'
<1>1. /\ BeingDeleted(q) <=> Recorded("dead", q)
      /\ BeingDeleted(q)' <=> Recorded("dead", q)'
  BY DEF BeingDeleted, Recorded
<1> QED
  BY <1>1, RecordKept

DeadAreKept == \A q \in PIDs : BeingDeleted(q) => BeingDeleted(q)'

(* A step that changes no pid on the list.  alive: who lives after it is a *)
(* child that lived before, and who lived lives on or is being deleted.    *)
SamePids == \A s \in Slots : jobs'[s].pid = jobs[s].pid

LEMMA SamePidsListed == ASSUME SamePids PROVE \A q : Listed(q)' <=> Listed(q)
  BY DEF SamePids, Listed

LEMMA ListedKept ==
  ASSUME ListedAreChildren, SamePids, DeadAreKept,
         \A q \in PIDs : child'[q] = "free" => child[q] = "free" \/ BeingDeleted(q)'
  PROVE  ListedAreChildren'
<1>1. ASSUME NEW s \in Slots, NEW q \in PIDs, q = jobs'[s].pid
      PROVE  child'[q] # "free" \/ BeingDeleted(q)'
  <2>1. q = jobs[s].pid
    BY <1>1 DEF SamePids
  <2>2. child[q] # "free" \/ BeingDeleted(q)
    BY <2>1 DEF ListedAreChildren
  <2> QED
    BY <2>2 DEF DeadAreKept
<1>2. \A s, u \in Slots : jobs'[s].pid \in PIDs /\ jobs'[s].pid = jobs'[u].pid => s = u
  BY DEF ListedAreChildren, SamePids
<1> QED
  BY <1>1, <1>2 DEF ListedAreChildren, BeingDeleted

(* The steps that change neither the list nor a child. *)
LEMMA ControlKept ==
  ASSUME JobsInv, UNCHANGED <<jobs, child>>, unreported' \subseteq unreported, DeadAreKept,
         pc' = "crashed" => pc = "crashed", Alive' => Alive, SignalsItsJob',
         pc' = "addjob" => pid' \notin PIDs \/ UNCHANGED <<pc, pid>>,
         pc' # "exited" /\ pc = "addjob" => pid \notin PIDs \/ UNCHANGED <<pc, pid>>
  PROVE  JobsInv'
<1>1. SamePids
  BY DEF SamePids
<1>2. ReportsTrue'
  BY DEF JobsInv, ReportsTrue
<1>3. NewIsUnlisted'
  BY <1>1, SamePidsListed DEF JobsInv, NewIsUnlisted
<1>4. ListedAreChildren'
  BY <1>1, ListedKept DEF JobsInv
<1>5. NobodyLost'
  BY <1>1, SamePidsListed DEF JobsInv, NobodyLost, ChildrenAreListed, Children, Alive, NeverCrashes
<1> QED
  BY <1>2, <1>3, <1>4, <1>5 DEF JobsInv

(* A child moves. *)
LEMMA MoveKept ==
  ASSUME TypeOK, JobsInv, NEW p \in PIDs, NEW st \in ChildStates \ {"free"}, Move(p, st),
         child[p] # "free", UNCHANGED <<jobs, pid, job>>, DeadAreKept,
         \/ UNCHANGED pc
         \/ pc \in {"bg kill", "fg kill"} /\ pc' \in {"bg state", "fg state"}
  PROVE  JobsInv'
<1>1. SamePids /\ child' = [child EXCEPT ![p] = st] /\ child \in [PIDs -> ChildStates]
  BY DEF SamePids, Move, TypeOK
<1>2. SameLives
  BY <1>1 DEF SameLives
<1>3. ReportsTrue'
  <2>1. ASSUME NEW q \in unreported' PROVE child'[q] \in {"stopped", "doomed"}
    <3>1. CASE q = p
      <4>1. st \in {"stopped", "doomed"}
        BY <2>1, <3>1 DEF Move
      <4> QED
        BY <1>1, <3>1, <4>1
    <3>2. CASE q # p
      <4>1. q \in unreported /\ q \in PIDs
        BY <2>1, <3>2 DEF Move, TypeOK
      <4>2. child[q] \in {"stopped", "doomed"}
        BY <4>1 DEF JobsInv, ReportsTrue
      <4> QED
        BY <1>1, <3>2, <4>1, <4>2
    <3> QED
      BY <3>1, <3>2
  <2> QED
    BY <2>1 DEF ReportsTrue
<1>4. NewIsUnlisted' /\ SignalsItsJob'
  BY <1>1, <1>2, SamePidsListed DEF JobsInv, NewIsUnlisted, SignalsItsJob, SameLives
<1>5. ListedAreChildren'
  BY <1>1, <1>2, ListedKept DEF JobsInv, SameLives
<1>6. NobodyLost'
  <2>1. \A q \in PIDs : child'[q] # "free" => child[q] # "free"
    BY <1>2 DEF SameLives
  <2> QED
    BY <1>1, <2>1, SamePidsListed
    DEF JobsInv, NobodyLost, ChildrenAreListed, Children, Alive, NeverCrashes
<1> QED
  BY <1>3, <1>4, <1>5, <1>6 DEF JobsInv

(* No process is being deleted while no handler is active. *)
LEMMA NobodyDeleted == frames = <<>> => \A q : ~BeingDeleted(q)
<1> SUFFICES ASSUME frames = <<>> PROVE \A q : ~BeingDeleted(q)
  OBVIOUS
<1>1. 1 .. Len(frames) = {}
  <2>1. Len(frames) = 0
    BY EmptySeq
  <2> QED
    BY <2>1
<1> QED
  BY <1>1 DEF BeingDeleted

(* eval: the child is new, so it is not on the list. *)
LEMMA ForkJobs ==
  ASSUME TypeOK, ListInv, NEW p \in PIDs, NEW cmd \in Commands, Fork(p, cmd)
  PROVE  JobsInv'
<1>1. /\ frames = <<>> /\ pc = "prompt" /\ pc' = "addjob" /\ pid' = p
      /\ UNCHANGED <<jobs, job, frames, unreported>> /\ child[p] = "free"
      /\ child' = [child EXCEPT ![p] = "forked"]
  BY DEF Fork, MainAt, Goto
<1>2. SamePids /\ child \in [PIDs -> ChildStates]
  BY <1>1 DEF SamePids, TypeOK
<1>3. ~Listed(p)
  BY <1>1, NobodyDeleted DEF ListInv, JobsInv, ListedAreChildren, Listed
<1>4. child'[p] = "forked" /\ \A q \in PIDs \ {p} : child'[q] = child[q]
  BY <1>1, <1>2
<1>5. NewIsUnlisted' /\ SignalsItsJob'
  BY <1>1, <1>2, <1>3, <1>4, SamePidsListed DEF NewIsUnlisted, SignalsItsJob
<1>6. ReportsTrue'
  <2>1. \A q \in unreported : q \in PIDs /\ q # p
    BY <1>1 DEF ListInv, JobsInv, ReportsTrue, TypeOK
  <2> QED
    BY <1>1, <1>4, <2>1 DEF ListInv, JobsInv, ReportsTrue
<1>7. ListedAreChildren'
  <2>1. \A q \in PIDs : child'[q] = "free" => child[q] = "free"
    BY <1>4
  <2>2. DeadAreKept
    BY <1>1, NobodyDeleted DEF DeadAreKept
  <2> QED
    BY <1>2, <2>1, <2>2, ListedKept DEF ListInv, JobsInv
<1>8. NobodyLost'
  <2>1. ASSUME RoomForAll, NEW q \in PIDs, child'[q] # "free"
        PROVE  Listed(q) \/ (pc' = "addjob" /\ pid' = q)
    BY <1>1, <1>4, <2>1 DEF ListInv, JobsInv, NobodyLost, ChildrenAreListed, Children, Alive
  <2> QED
    BY <1>1, <1>2, <2>1, SamePidsListed DEF NobodyLost, ChildrenAreListed, Children, NeverCrashes
<1> QED
  BY <1>5, <1>6, <1>7, <1>8 DEF JobsInv

LEMMA CommandJobs == ASSUME TypeOK, ListInv, Command PROVE JobsInv'
<1> USE TypeOKParts DEF ListInv
<1>1. UNCHANGED frames => DeadAreKept
  BY DeadKept DEF DeadAreKept
<1>2. ASSUME NEW p \in PIDs, NEW cmd \in Commands, Fork(p, cmd)
      PROVE  JobsInv'
  BY <1>2, ForkJobs
<1>3. ASSUME NEW p, NEW cmd \in Commands, FindByPid(cmd, p)
      PROVE  JobsInv'
  <2>1. /\ pc = "prompt" /\ pc' \in {"bg kill", "fg kill"} /\ pid' = p
        /\ job' = getjobpid(jobs, p) /\ getjobpid(jobs, p) # NULL
        /\ UNCHANGED <<jobs, child, unreported, frames>>
    BY <1>3 DEF FindByPid, MainAt, Goto, NobodyMoves
  <2>2. job' \in Slots /\ jobs[job'].pid = p
    BY <2>1, getjobpidSpec
  <2>3. SignalsItsJob'
    BY <2>1, <2>2 DEF SignalsItsJob
  <2> QED
    BY <1>1, <2>1, <2>3, ControlKept DEF Alive
<1>4. ASSUME NEW cmd \in Commands, ForkFails(cmd)
      PROVE  JobsInv'
  <2>1. /\ pc = "prompt" /\ pc' = "addjob" /\ pid' \notin PIDs
        /\ UNCHANGED <<jobs, child, unreported, frames>>
    BY <1>4, PIDsAssumption DEF ForkFails, MainAt, Goto
  <2> QED
    BY <1>1, <2>1, ControlKept DEF SignalsItsJob, Alive
<1>5. ASSUME NEW cmd \in Commands, NEW jid, FindByJid(cmd, jid)
      PROVE  JobsInv'
  <2>1. /\ pc = "prompt" /\ pc' = "read pid"
        /\ UNCHANGED <<jobs, child, unreported, frames>>
    BY <1>5 DEF FindByJid, MainAt, Goto, NobodyMoves
  <2> QED
    BY <1>1, <2>1, ControlKept DEF SignalsItsJob, Alive
<1>6. CASE Quit
  <2>1. pc' = "exited" /\ UNCHANGED <<jobs, child, unreported, frames>>
    BY <1>6 DEF Quit, Goto, NobodyMoves
  <2> QED
    BY <1>1, <2>1, ControlKept DEF SignalsItsJob, Alive
<1> QED
  BY <1>2, <1>3, <1>4, <1>5, <1>6 DEF Command

LEMMA SlotsCounted ==
  IsFiniteSet(Slots) /\ Cardinality(Slots) = MAXJOBS /\ MAXJOBS \in Nat
<1>1. MAXJOBS \in Nat /\ MAXJOBS \in Int /\ 1 \in Int /\ MAXJOBS >= 1
  BY MAXJOBSAssumption
<1>2. IsFiniteSet(1 .. MAXJOBS)
      /\ Cardinality(1 .. MAXJOBS) = IF 1 > MAXJOBS THEN 0 ELSE MAXJOBS - 1 + 1
  BY <1>1, FS_Interval
<1> QED
  BY <1>1, <1>2 DEF Slots

(* A list with room for every child has a free slot for a new one. *)
LEMMA RoomForNew ==
  ASSUME RoomForAll, TypeOK, ListedAreChildren, NEW p \in PIDs, ~Listed(p)
  PROVE  \E s \in Slots : jobs[s].pid = NoPid
<1> SUFFICES ASSUME \A s \in Slots : jobs[s].pid # NoPid PROVE FALSE
  OBVIOUS
<1> DEFINE f == [s \in Slots |-> jobs[s].pid]
           others == PIDs \ {p}
<1>1. f \in [Slots -> others]
  <2>1. ASSUME NEW s \in Slots PROVE jobs[s].pid \in others
    BY DEF TypeOK, Job, Listed
  <2> QED
    BY <2>1
<1>2. IsFiniteSet(others) /\ Cardinality(others) = Cardinality(PIDs) - 1
  BY FS_RemoveElement DEF RoomForAll
<1>3. IsFiniteSet(Slots) /\ Cardinality(Slots) = MAXJOBS
  BY SlotsCounted
<1>4. Cardinality(others) < Cardinality(Slots)
  <2>1. Cardinality(PIDs) \in Nat /\ MAXJOBS \in Nat
    BY FS_CardinalityType, MAXJOBSAssumption DEF RoomForAll
  <2> QED
    BY <1>2, <1>3, <2>1 DEF RoomForAll
<1> HIDE DEF f, others
<1>5. PICK s, u \in Slots : s # u /\ f[s] = f[u]
  BY <1>1, <1>2, <1>3, <1>4, FS_PigeonHole
<1>6. jobs[s].pid = jobs[u].pid /\ jobs[s].pid \in PIDs
  BY <1>1, <1>5 DEF f, others
<1> QED
  BY <1>5, <1>6 DEF ListedAreChildren

(* addjob: the new child takes a free slot, or the list is full. *)
LEMMA AddJobJobs ==
  ASSUME TypeOK, ListInv, AddJob
  PROVE  JobsInv'
<1> DEFINE st == IF argv = "run" THEN "FG" ELSE "BG"
<1> USE DEF ListInv, JobsInv
<1>1. /\ frames = <<>> /\ pc = "addjob" /\ pc' \in {"waitfg", "unblock"}
      /\ UNCHANGED <<pid, job, frames, child, unreported>>
      /\ jobs' = addjob(jobs, nextjid, pid, st).jobs
  BY DEF AddJob, MainAt, Goto, NobodyMoves
<1>2. st \in {"FG", "BG"}
  OBVIOUS
<1> HIDE DEF st
<1>3. \A q \in PIDs : ~BeingDeleted(q)
  BY <1>1, NobodyDeleted
<1>4. ReportsTrue' /\ NewIsUnlisted' /\ SignalsItsJob' /\ NeverCrashes'
  BY <1>1 DEF ReportsTrue, NewIsUnlisted, SignalsItsJob, NeverCrashes
<1>5. CASE jobs' = jobs /\ (pid \notin PIDs \/ \A s \in Slots : jobs[s].pid # NoPid)
  <2>1. SamePids /\ DeadAreKept
    BY <1>3, <1>5 DEF SamePids, DeadAreKept
  <2>2. ListedAreChildren'
    BY <1>1, <2>1, ListedKept
  <2>3. ASSUME RoomForAll PROVE ChildrenAreListed'
    <3>1. pid \notin PIDs
      BY <1>1, <1>5, <2>3, RoomForNew DEF NewIsUnlisted
    <3> QED
      BY <1>1, <2>1, <2>3, <3>1, SamePidsListed
      DEF NobodyLost, ChildrenAreListed, Children, Alive
  <2> QED
    BY <1>4, <2>2, <2>3 DEF NobodyLost
<1>6. ASSUME pid \in PIDs, NEW s \in Slots, jobs[s].pid = NoPid,
             jobs' = [jobs EXCEPT ![s] = [pid |-> pid, jid |-> nextjid, state |-> st]]
      PROVE  JobsInv'
  <2>1. ~Listed(pid) /\ child[pid] # "free"
    BY <1>1, <1>6 DEF NewIsUnlisted
  <2>2. jobs'[s].pid = pid /\ \A u \in Slots \ {s} : jobs'[u] = jobs[u]
    BY <1>6 DEF TypeOK
  <2>3. ListedAreChildren'
    <3>1. ASSUME NEW u \in Slots, NEW q \in PIDs, jobs'[u].pid = q
          PROVE  child'[q] # "free"
      <4>1. CASE u = s
        BY <1>1, <2>1, <2>2, <3>1, <4>1
      <4>2. CASE u # s
        BY <1>1, <1>3, <2>2, <3>1, <4>2 DEF ListedAreChildren
      <4> QED
        BY <4>1, <4>2
    <3>2. ASSUME NEW u \in Slots, NEW v \in Slots, jobs'[u].pid \in PIDs,
                 jobs'[u].pid = jobs'[v].pid
          PROVE  u = v
      BY <2>1, <2>2, <3>2 DEF ListedAreChildren, Listed
    <3> QED
      BY <3>1, <3>2 DEF ListedAreChildren
  <2>4. ASSUME RoomForAll PROVE ChildrenAreListed'
    <3>1. ASSUME NEW q \in PIDs, child[q] # "free"
          PROVE  \E u \in Slots : jobs'[u].pid = q
      <4>1. CASE q = pid
        BY <2>2, <4>1
      <4>2. CASE q # pid
        <5>1. PICK u \in Slots : jobs[u].pid = q
          BY <1>1, <2>4, <3>1, <4>2
          DEF NobodyLost, ChildrenAreListed, Children, Alive, Listed
        <5>2. u # s
          BY <1>6, <5>1, PIDsAssumption
        <5> QED
          BY <2>2, <5>1, <5>2
      <4> QED
        BY <4>1, <4>2
    <3> QED
      BY <1>1, <3>1 DEF ChildrenAreListed, Children, Listed
  <2> QED
    BY <1>4, <2>3, <2>4 DEF NobodyLost
<1>7. \/ /\ pid \in PIDs
         /\ \E s \in Slots :
               /\ jobs[s].pid = NoPid
               /\ jobs' = [jobs EXCEPT ![s] = [pid |-> pid, jid |-> nextjid, state |-> st]]
      \/ jobs' = jobs /\ (pid \notin PIDs \/ \A s \in Slots : jobs[s].pid # NoPid)
  BY <1>1, addjobSpec
<1> QED
  BY <1>5, <1>6, <1>7

(* A step that writes the state of a job, and nothing else of the list. *)
LEMMA StateWritten ==
  ASSUME JobsInv, SamePids, UNCHANGED <<child, unreported>>, DeadAreKept, Alive,
         pc # "addjob", pc' \notin {"addjob", "crashed"}, SignalsItsJob'
  PROVE  JobsInv'
<1> USE DEF JobsInv
<1>1. ReportsTrue' /\ NewIsUnlisted'
  BY DEF ReportsTrue, NewIsUnlisted
<1>2. ListedAreChildren'
  BY ListedKept
<1>3. NobodyLost'
  BY SamePidsListed DEF NobodyLost, ChildrenAreListed, Children, NeverCrashes
<1> QED
  BY <1>1, <1>2, <1>3

(* bg and fg write the state of the job. *)
LEMMA BgFgStateJobs ==
  ASSUME TypeOK, JobsInv, NEW st \in {"FG", "BG"}, jobs' = [jobs EXCEPT ![job].state = st],
         UNCHANGED <<child, unreported, frames>>,
         pc \in {"bg state", "fg state"}, pc' \in {"prompt", "waitfg"}
  PROVE  JobsInv'
<1>1. SamePids
  BY DEF SamePids, TypeOK, Job
<1>2. DeadAreKept
  BY DEF DeadAreKept, BeingDeleted
<1>3. SignalsItsJob'
  BY DEF SignalsItsJob
<1> QED
  BY <1>1, <1>2, <1>3, StateWritten DEF Alive

(* bg and fg continue the process of the job they write to. *)
LEMMA ContinueJobs ==
  ASSUME TypeOK, JobsInv, Kill(pid, "CONT"), UNCHANGED <<jobs, pid, job, frames>>,
         pc \in {"bg kill", "fg kill"}, pc' \in {"bg state", "fg state"}
  PROVE  JobsInv'
<1>1. DeadAreKept
  BY DEF DeadAreKept, BeingDeleted
<1>2. CASE NobodyMoves
  <2>1. SignalsItsJob'
    BY DEF SignalsItsJob
  <2> QED
    BY <1>1, <1>2, <2>1, ControlKept DEF NobodyMoves, Alive
<1>3. CASE ~NobodyMoves
  <2>1. PICK st \in ChildStates \ {"free"} :
           pid \in PIDs /\ Move(pid, st) /\ child[pid] # "free"
    BY <1>3, KillMoves, TypeOKParts
  <2> QED
    BY <1>1, <2>1, MoveKept
<1> QED
  BY <1>2, <1>3

LEMMA MainStepJobs ==
  ASSUME TypeOK, JobFound, ListInv, MainStep
  PROVE  JobsInv'
<1> USE DEF ListInv
<1>1. UNCHANGED frames => DeadAreKept
  BY DEF DeadAreKept, BeingDeleted
<1>2. CASE AddJob
  BY <1>2, AddJobJobs
<1>3. CASE TestFg \/ Sigsuspend \/ Unblock
  <2>1. /\ pc \in {"waitfg", "sigsuspend", "unblock"}
        /\ pc' \in {"waitfg", "sigsuspend", "unblock", "asleep", "prompt"}
        /\ UNCHANGED <<jobs, child, unreported, frames>>
    BY <1>3 DEF TestFg, Sigsuspend, Unblock, MainAt, Goto, NobodyMoves
  <2>2. SignalsItsJob'
    BY <2>1 DEF SignalsItsJob
  <2> QED
    BY <1>1, <2>1, <2>2, ControlKept DEF Alive
<1>4. CASE ReadPid
  <2>1. /\ pc = "read pid" /\ pc' \in {"bg kill", "fg kill"}
        /\ UNCHANGED <<jobs, child, unreported, frames, job>>
        /\ pid' = jobs[job].pid
    BY <1>4 DEF ReadPid, MainAt, Goto, NobodyMoves
  <2>2. SignalsItsJob'
    BY <2>1 DEF SignalsItsJob, JobFound
  <2> QED
    BY <1>1, <2>1, <2>2, ControlKept DEF Alive
<1>5. CASE BgKill \/ FgKill
  BY <1>5, ContinueJobs DEF BgKill, FgKill, MainAt, Goto
<1>6. CASE BgState \/ FgState
  BY <1>6, BgFgStateJobs DEF BgState, FgState, MainAt, Goto, NobodyMoves
<1> QED
  BY <1>2, <1>3, <1>4, <1>5, <1>6 DEF MainStep

(* The handlers. *)
LEMMA KeyStepJobs ==
  ASSUME TypeOK, ListInv, NEW sig \in Keys, KeyStep(sig)
  PROVE  JobsInv'
<1> USE TypeOKParts DEF ListInv
<1>1. CASE ReadFgpid(sig)
  <2>1. /\ frames # <<>> /\ Top.at = "entered" /\ Alive
        /\ fgpid(jobs) \in PIDs /\ InFrame("forward", fgpid(jobs))
        /\ UNCHANGED <<jobs, pc, pid, job, child, unreported>>
    BY <1>1 DEF ReadFgpid, HandlerAt, shellVars, NobodyMoves
  <2>2. DeadAreKept
    BY <2>1, DeadKept DEF DeadAreKept
  <2>3. SignalsItsJob'
    BY <2>1 DEF JobsInv, SignalsItsJob
  <2> QED
    BY <2>1, <2>2, <2>3, ControlKept DEF Alive
<1>2. CASE NoForeground(sig)
  <2>1. /\ frames # <<>> /\ Top.at = "entered" /\ Alive /\ Return
        /\ UNCHANGED <<jobs, pc, pid, job, child, unreported>>
    BY <1>2 DEF NoForeground, HandlerAt, shellVars, NobodyMoves
  <2>2. DeadAreKept
    BY <2>1, DeadKept DEF DeadAreKept
  <2>3. SignalsItsJob'
    BY <2>1 DEF JobsInv, SignalsItsJob
  <2> QED
    BY <2>1, <2>2, <2>3, ControlKept DEF Alive
<1>3. CASE Forward(sig)
  <2>1. /\ frames # <<>> /\ Top.at = "forward" /\ Alive /\ Return
        /\ Kill(Top.pid, sig) /\ UNCHANGED <<jobs, pc, pid, job>>
    BY <1>3 DEF Forward, HandlerAt, shellVars
  <2>2. DeadAreKept
    BY <2>1, DeadKept DEF DeadAreKept
  <2>3. CASE NobodyMoves
    <3>1. SignalsItsJob'
      BY <2>1, <2>3 DEF JobsInv, SignalsItsJob, NobodyMoves
    <3> QED
      BY <2>1, <2>2, <2>3, <3>1, ControlKept DEF Alive, NobodyMoves
  <2>4. CASE ~NobodyMoves
    <3>1. sig \in {"INT", "TSTP", "CONT"}
      BY DEF Keys
    <3>2. PICK st \in ChildStates \ {"free"} :
             Top.pid \in PIDs /\ Move(Top.pid, st) /\ child[Top.pid] # "free"
      BY <2>1, <2>4, <3>1, KillMoves
    <3> QED
      BY <2>1, <2>2, <3>2, MoveKept
  <2> QED
    BY <2>3, <2>4
<1> QED
  BY <1>1, <1>2, <1>3 DEF KeyStep

LEMMA DeliverJobs ==
  ASSUME TypeOK, ListInv, NEW sig \in Signals, Deliver(sig)
  PROVE  JobsInv'
<1>1. /\ Alive /\ UNCHANGED <<jobs, pid, job, child, unreported>>
      /\ pc' = IF Asleep THEN "waitfg" ELSE pc
  BY DEF Deliver
<1>2. DeadAreKept
  BY TypeOKParts, DeadKept DEF DeadAreKept
<1>3. UNCHANGED pc \/ (pc = "asleep" /\ pc' = "waitfg")
  BY <1>1 DEF Asleep, MainAt
<1>4. SignalsItsJob'
  BY <1>1, <1>3 DEF ListInv, JobsInv, SignalsItsJob
<1> QED
  BY <1>1, <1>2, <1>3, <1>4, ControlKept DEF ListInv, Alive

(* sigchld_handler reaps a child: it is on record until its job is deleted. *)
LEMMA ReapDeadJobs ==
  ASSUME TypeOK, ListInv, NEW p \in PIDs, ReapDead(p)
  PROVE  JobsInv'
<1> USE TypeOKParts DEF ListInv, JobsInv
<1>1. /\ frames # <<>> /\ Top.sig = "CHLD" /\ Top.at = "entered" /\ InFrame("dead", p)
      /\ child[p] = "zombie" /\ child' = [child EXCEPT ![p] = "free"]
      /\ UNCHANGED <<jobs, pc, pid, job, unreported>>
  BY DEF ReapDead, HandlerAt, shellVars
<1>2. pc # "addjob"
  BY <1>1, OneChldHandler DEF FramesInv
<1>3. child'[p] = "free" /\ \A q \in PIDs \ {p} : child'[q] = child[q]
  BY <1>1 DEF KernelTyped
<1>4. DeadAreKept
  BY <1>1, DeadKept DEF DeadAreKept
<1>5. BeingDeleted(p)'
  <2>1. /\ Len(frames') = Len(frames)
        /\ frames'[Len(frames)] = [Top EXCEPT !.at = "dead", !.pid = p]
    BY <1>1, FramesAfterInFrame
  <2>2. Top \in Frame /\ Len(frames) \in 1 .. Len(frames)
    BY <1>1, TopAndBelow
  <2>3. frames'[Len(frames)].at = "dead" /\ frames'[Len(frames)].pid = p
    BY <2>1, <2>2 DEF Frame
  <2> QED
    BY <2>1, <2>2, <2>3 DEF BeingDeleted
<1>6. SamePids
  BY <1>1 DEF SamePids
<1>7. NewIsUnlisted'
  BY <1>1, <1>2 DEF NewIsUnlisted
<1>8. ReportsTrue'
  <2>1. ASSUME NEW q \in unreported PROVE q \in PIDs /\ q # p
    BY <1>1, <2>1 DEF ReportsTrue, KernelTyped
  <2> QED
    BY <1>1, <1>3, <2>1 DEF ReportsTrue
<1>9. SignalsItsJob'
  BY <1>1, <1>3 DEF SignalsItsJob
<1>10. ListedAreChildren'
  <2>1. \A q \in PIDs : child'[q] = "free" => child[q] = "free" \/ BeingDeleted(q)'
    BY <1>3, <1>5
  <2> QED
    BY <1>4, <1>6, <2>1, ListedKept
<1>11. NobodyLost'
  <2>1. \A q \in PIDs : child'[q] # "free" => child[q] # "free"
    BY <1>3
  <2> QED
    BY <1>1, <1>6, <2>1, SamePidsListed
    DEF NobodyLost, ChildrenAreListed, Children, Alive, NeverCrashes
<1> QED
  BY <1>7, <1>8, <1>9, <1>10, <1>11

(* deletejob: nobody else is being deleted. *)
LEMMA DeleteJobJobs ==
  ASSUME TypeOK, ListInv, DeleteJob
  PROVE  JobsInv'
<1> DEFINE d == Top.pid
           n == Len(frames)
<1> USE TypeOKParts DEF ListInv, JobsInv
<1>1. /\ frames # <<>> /\ Top.sig = "CHLD" /\ Top.at = "dead"
      /\ jobs' = deletejob(jobs, nextjid, d).jobs
      /\ UNCHANGED <<pc, pid, job, child, unreported>>
  BY DEF DeleteJob, HandlerAt, NobodyMoves
<1>2. pc # "addjob"
  BY <1>1, OneChldHandler DEF FramesInv
<1>3. d \in PIDs /\ child[d] = "free"
  <2>1. n \in 1 .. n /\ Top = frames[n]
    BY <1>1, TopAndBelow DEF Top
  <2>2. FrameTrue(frames[n], child)
    BY <2>1 DEF FramesInv, FramesTrue
  <2> QED
    BY <1>1, <2>1, <2>2 DEF FrameTrue
<1>4. ASSUME NEW q \in PIDs, BeingDeleted(q)
      PROVE  q = d
  <2>1. PICK i \in 1 .. n : frames[i].at = "dead" /\ frames[i].pid = q
    BY <1>4 DEF BeingDeleted
  <2>2. frames[i].sig = "CHLD"
    BY <2>1 DEF FramesInv, FramesTrue, FrameTrue
  <2>3. n \in Nat
    BY <1>1, TopAndBelow
  <2>4. i = n
    BY <1>1, <2>1, <2>2, <2>3, OneChldHandler DEF FramesInv
  <2> QED
    BY <2>1, <2>4 DEF Top
<1> HIDE DEF d, n
<1>5. \A u \in Slots : IF jobs[u].pid = d THEN jobs'[u] = ClearedJob ELSE jobs'[u] = jobs[u]
  <2>1. CASE \E s \in Slots : jobs[s].pid = d /\ jobs' = [jobs EXCEPT ![s] = ClearedJob]
    <3>1. PICK s \in Slots : jobs[s].pid = d /\ jobs' = [jobs EXCEPT ![s] = ClearedJob]
      BY <2>1
    <3>2. \A u \in Slots : jobs[u].pid = d => u = s
      BY <1>3, <3>1 DEF ListedAreChildren
    <3> QED
      BY <3>1, <3>2 DEF ListTyped
  <2>2. CASE jobs' = jobs /\ \A s \in Slots : jobs[s].pid # d
    BY <2>2
  <2> QED
    BY <1>1, <1>3, <2>1, <2>2, deletejobSpec
<1>6. ASSUME NEW u \in Slots
      PROVE  jobs'[u].pid \in PIDs => jobs'[u] = jobs[u] /\ jobs[u].pid # d
  BY <1>5, PIDsAssumption DEF ClearedJob
<1>7. ReportsTrue' /\ NewIsUnlisted'
  BY <1>1, <1>2 DEF ReportsTrue, NewIsUnlisted
<1>8. SignalsItsJob'
  BY <1>1, <1>3, <1>5 DEF SignalsItsJob
<1>9. ListedAreChildren'
  <2>1. ASSUME NEW u \in Slots, jobs'[u].pid \in PIDs
        PROVE  child'[jobs'[u].pid] # "free"
    BY <1>1, <1>4, <1>6, <2>1 DEF ListedAreChildren
  <2>2. ASSUME NEW u \in Slots, NEW v \in Slots, jobs'[u].pid \in PIDs,
               jobs'[u].pid = jobs'[v].pid
        PROVE  u = v
    BY <1>6, <2>2 DEF ListedAreChildren
  <2> QED
    BY <2>1, <2>2 DEF ListedAreChildren
<1>10. NobodyLost'
  <2>1. ASSUME RoomForAll, Alive, NEW q \in PIDs, child[q] # "free"
        PROVE  \E u \in Slots : jobs'[u].pid = q
    <3>1. PICK u \in Slots : jobs[u].pid = q
      BY <1>2, <2>1 DEF NobodyLost, ChildrenAreListed, Children, Listed
    <3> QED
      BY <1>3, <1>5, <2>1, <3>1
  <2> QED
    BY <1>1, <2>1 DEF NobodyLost, ChildrenAreListed, Children, Listed, Alive, NeverCrashes
<1> QED
  BY <1>7, <1>8, <1>9, <1>10

(* What waitpid reported as stopped is a child. *)
LEMMA StoppedIsChild ==
  ASSUME FramesTyped, FramesInv, frames # <<>>, Top.at = "stopped"
  PROVE  Top.pid \in PIDs /\ child[Top.pid] # "free"
<1>1. Len(frames) \in 1 .. Len(frames) /\ Top = frames[Len(frames)]
  BY TopAndBelow DEF Top
<1>2. FrameTrue(frames[Len(frames)], child)
  BY <1>1 DEF FramesInv, FramesTrue
<1> QED
  BY <1>1, <1>2 DEF FrameTrue

(* sigchld_handler says of a job that it is stopped. *)
LEMMA StopJobJobs ==
  ASSUME TypeOK, ListInv, StopJob
  PROVE  JobsInv'
<1> DEFINE d == Top.pid
           s == getjobpid(jobs, d)
<1> USE TypeOKParts DEF ListInv, JobsInv
<1>1. /\ frames # <<>> /\ Top.sig = "CHLD" /\ Top.at = "stopped" /\ Alive
  BY DEF StopJob, HandlerAt
<1>2. pc # "addjob"
  BY <1>1, OneChldHandler DEF FramesInv
<1> HIDE DEF d
<1>3. s \in Slots /\ jobs[s].pid = d
  BY getjobpidSpec DEF StopJob, d
<1> HIDE DEF s
<1>4. /\ jobs' = [jobs EXCEPT ![s].state = "ST"] /\ InFrame("entered", NoPid)
      /\ UNCHANGED <<pc, pid, job, child, unreported>>
  BY DEF StopJob, NobodyMoves, s, d
<1>5. SamePids
  BY <1>4 DEF SamePids, ListTyped, Job
<1>6. DeadAreKept
  BY <1>1, <1>4, DeadKept DEF DeadAreKept
<1>7. SignalsItsJob'
  BY <1>4, <1>5 DEF SignalsItsJob, SamePids
<1> QED
  BY <1>1, <1>2, <1>4, <1>5, <1>6, <1>7, StateWritten DEF Alive

(* In a list with room for all it finds the job. *)
LEMMA StopUnlistedJobs ==
  ASSUME TypeOK, ListInv, StopUnlisted
  PROVE  JobsInv'
<1> USE TypeOKParts DEF ListInv, JobsInv
<1>1. /\ frames # <<>> /\ Top.sig = "CHLD" /\ Top.at = "stopped" /\ Alive
      /\ getjobpid(jobs, Top.pid) = NULL /\ pc' = "crashed"
      /\ UNCHANGED <<jobs, pid, job, frames, child, unreported>>
  BY DEF StopUnlisted, HandlerAt, Goto, NobodyMoves
<1>2. pc # "addjob"
  BY <1>1, OneChldHandler DEF FramesInv
<1>3. NobodyLost'
  <2>1. SUFFICES ASSUME RoomForAll PROVE FALSE
    BY DEF NobodyLost
  <2>2. Top.pid \in PIDs /\ Top.pid \in Children
    BY <1>1, StoppedIsChild DEF Children
  <2>3. Listed(Top.pid)
    BY <1>1, <1>2, <2>1, <2>2 DEF NobodyLost, ChildrenAreListed
  <2> QED
    BY <1>1, <2>2, <2>3, getjobpidSpec DEF Listed
<1>4. SamePids /\ DeadAreKept
  BY <1>1 DEF SamePids, DeadAreKept, BeingDeleted
<1>5. ListedAreChildren'
  BY <1>1, <1>4, ListedKept
<1>6. ReportsTrue' /\ NewIsUnlisted' /\ SignalsItsJob'
  BY <1>1 DEF ReportsTrue, NewIsUnlisted, SignalsItsJob
<1> QED
  BY <1>3, <1>5, <1>6

LEMMA ChldStepJobs == ASSUME TypeOK, ListInv, ChldStep PROVE JobsInv'
<1>1. ASSUME NEW p \in PIDs, ReportStopped(p)
      PROVE  JobsInv'
  <2>1. /\ frames # <<>> /\ Top.at = "entered" /\ Alive /\ InFrame("stopped", p)
        /\ UNCHANGED <<jobs, pc, pid, job, child>> /\ unreported' \subseteq unreported
    BY <1>1 DEF ReportStopped, HandlerAt, shellVars
  <2>2. DeadAreKept
    BY <2>1, TypeOKParts, DeadKept DEF DeadAreKept
  <2>3. SignalsItsJob'
    BY <2>1 DEF ListInv, JobsInv, SignalsItsJob
  <2> QED
    BY <2>1, <2>2, <2>3, ControlKept DEF ListInv, Alive
<1>2. CASE NoMoreChildren
  <2>1. /\ frames # <<>> /\ Top.at = "entered" /\ Alive /\ Return
        /\ UNCHANGED <<jobs, pc, pid, job, child, unreported>>
    BY <1>2 DEF NoMoreChildren, HandlerAt, shellVars, NobodyMoves
  <2>2. DeadAreKept
    BY <2>1, TypeOKParts, DeadKept DEF DeadAreKept
  <2>3. SignalsItsJob'
    BY <2>1 DEF ListInv, JobsInv, SignalsItsJob
  <2> QED
    BY <2>1, <2>2, <2>3, ControlKept DEF ListInv, Alive
<1> QED
  BY <1>1, <1>2, ReapDeadJobs, DeleteJobJobs, StopJobJobs, StopUnlistedJobs DEF ChldStep

LEMMA EnvironmentJobs == ASSUME TypeOK, ListInv, Environment PROVE JobsInv'
<1> USE DEF ListInv
<1>1. UNCHANGED frames => DeadAreKept
  BY DEF DeadAreKept, BeingDeleted
<1>2. ASSUME NEW sig, Type(sig)
      PROVE  JobsInv'
  <2>1. Alive /\ UNCHANGED <<jobs, pc, pid, job, child, unreported, frames>>
    BY <1>2 DEF Type, shellVars
  <2>2. SignalsItsJob'
    BY <2>1 DEF JobsInv, SignalsItsJob
  <2> QED
    BY <1>1, <2>1, <2>2, ControlKept DEF Alive
<1>3. ASSUME NEW p \in PIDs, SetPgid(p) \/ Exec(p) \/ Dies(p)
                               \/ StopsItself(p) \/ Continues(p)
      PROVE  JobsInv'
  <2>1. UNCHANGED <<jobs, pc, pid, job, frames>>
    BY <1>3 DEF SetPgid, Exec, Dies, StopsItself, Continues, shellVars
  <2>2. PICK st \in ChildStates \ {"free"} : Move(p, st) /\ child[p] # "free"
    BY <1>3 DEF SetPgid, Exec, Dies, StopsItself, Continues, ChildStates
  <2> QED
    BY <1>1, <2>1, <2>2, MoveKept
<1> QED
  BY <1>2, <1>3 DEF Environment

LEMMA ListInvStep ==
  ASSUME TypeOK, JobFound, ListInv, [Next]_vars
  PROVE  ListInv'
<1>1. CASE UNCHANGED vars
  <2>1. UNCHANGED <<jobs, pc, pid, job, child, unreported, frames>>
    BY <1>1 DEF vars
  <2>2. DeadAreKept
    BY <2>1 DEF DeadAreKept, BeingDeleted
  <2>3. SignalsItsJob'
    BY <2>1 DEF ListInv, JobsInv, SignalsItsJob
  <2>4. JobsInv'
    BY <2>1, <2>2, <2>3, ControlKept DEF ListInv, Alive
  <2> QED
    BY <2>4, FramesStep DEF ListInv
<1>2. JobsInv'
  BY <1>1, CommandJobs, MainStepJobs, ChldStepJobs, EnvironmentJobs, KeyStepJobs,
     DeliverJobs DEF Next, Gone, ListInv
<1> QED
  BY <1>2, FramesStep DEF ListInv

LEMMA InitListInv == Init => ListInv
<1> SUFFICES ASSUME Init PROVE ListInv
  OBVIOUS
<1>1. 1 .. Len(frames) = {}
  <2>1. Len(frames) = 0
    BY EmptySeq DEF Init
  <2> QED
    BY <2>1
<1>2. FramesInv
  BY <1>1 DEF Init, FramesInv, ChldMasked, Shielded, FramesTrue
<1>3. /\ \A s \in Slots : jobs[s].pid = NoPid /\ jobs[s].state = "UNDEF"
      /\ Children = {} /\ pc = "prompt" /\ unreported = {}
  BY DEF Init, initjobs, ClearedJob, Children
<1>4. JobsInv
  BY <1>3, PIDsAssumption
  DEF JobsInv, ReportsTrue, NewIsUnlisted, SignalsItsJob, ListedAreChildren,
      NobodyLost, ChildrenAreListed, NeverCrashes
<1> QED
  BY <1>2, <1>4 DEF ListInv
-----------------------------------------------------------------------------
(* The job list as a set of jobs, whatever slots they are in. *)
PidsIn(table) == {table[s].pid : s \in Slots} \ {NoPid}
OneSlotEach(table) ==
    \A s, u \in Slots : table[s].pid \in PIDs /\ table[s].pid = table[u].pid => s = u
LiveOf(table) == [p \in PidsIn(table) |-> table[getjobpid(table, p)].state]

LEMMA LiveIsLiveOf == live = LiveOf(jobs) /\ live' = LiveOf(jobs')
  BY DEF live, ListedPids, LiveOf, PidsIn

LEMMA LiveOfSpec ==
  ASSUME NEW table \in [Slots -> Job], OneSlotEach(table)
  PROVE  /\ DOMAIN LiveOf(table) = PidsIn(table) /\ PidsIn(table) \subseteq PIDs
         /\ \A s \in Slots : table[s].pid # NoPid =>
               /\ table[s].pid \in PidsIn(table)
               /\ LiveOf(table)[table[s].pid] = table[s].state
<1>1. \A s \in Slots : table[s].pid \in PIDs \cup {NoPid}
  BY DEF Job
<1>2. DOMAIN LiveOf(table) = PidsIn(table) /\ PidsIn(table) \subseteq PIDs
  BY <1>1 DEF LiveOf, PidsIn
<1>3. ASSUME NEW s \in Slots, table[s].pid # NoPid
      PROVE  /\ table[s].pid \in PidsIn(table)
             /\ LiveOf(table)[table[s].pid] = table[s].state
  <2> DEFINE p == table[s].pid
             u == getjobpid(table, p)
  <2>1. p \in PIDs /\ p \in PidsIn(table)
    BY <1>1, <1>3 DEF PidsIn
  <2>2. u \in Slots /\ table[u].pid = p
    <3> HIDE DEF p
    <3>1. u \in Slots \cup {NULL} /\ (u # NULL => table[u].pid = p)
          /\ (u = NULL => \A v \in Slots : table[v].pid # p)
      BY <2>1, getjobpidSpec
    <3> QED
      BY <3>1 DEF p
  <2>3. u = s
    BY <2>1, <2>2 DEF OneSlotEach
  <2>4. LiveOf(table)[p] = table[u].state
    BY <2>1 DEF LiveOf
  <2> QED
    BY <2>1, <2>3, <2>4
<1> QED
  BY <1>2, <1>3

(* The only function that says so of a table. *)
LEMMA LiveOfIs ==
  ASSUME NEW table \in [Slots -> Job], OneSlotEach(table),
         NEW g, g = [p \in PidsIn(table) |-> g[p]],
         \A s \in Slots : table[s].pid # NoPid => g[table[s].pid] = table[s].state
  PROVE  LiveOf(table) = g
<1>1. ASSUME NEW p \in PidsIn(table) PROVE LiveOf(table)[p] = g[p]
  <2>1. PICK s \in Slots : table[s].pid = p /\ p # NoPid
    BY DEF PidsIn
  <2> QED
    BY <2>1, LiveOfSpec
<1>2. LiveOf(table) = [p \in PidsIn(table) |-> LiveOf(table)[p]]
  BY DEF LiveOf
<1> QED
  BY <1>1, <1>2

(* Writing the state of a slot changes that job, or none. *)
LEMMA WriteIsChange ==
  ASSUME jobs \in [Slots -> Job], jobs' \in [Slots -> Job],
         OneSlotEach(jobs), OneSlotEach(jobs'),
         NEW s \in Slots \cup {NULL}, NEW st \in {"FG", "BG", "ST"},
         jobs' = [jobs EXCEPT ![s].state = st]
  PROVE  [JS!Next]_live
<1>1. \A u \in Slots : jobs'[u].pid = jobs[u].pid /\ (u # s => jobs'[u] = jobs[u])
  BY DEF Job
<1>2. PidsIn(jobs') = PidsIn(jobs)
  BY <1>1 DEF PidsIn
<1>3. live = [p \in PidsIn(jobs) |-> live[p]]
  BY LiveIsLiveOf DEF LiveOf
<1>4. \A u \in Slots : jobs[u].pid # NoPid =>
         jobs[u].pid \in PidsIn(jobs) /\ live[jobs[u].pid] = jobs[u].state
  BY LiveOfSpec, LiveIsLiveOf
<1>5. CASE s \in Slots /\ jobs[s].pid # NoPid
  <2> DEFINE p == jobs[s].pid
             g == [live EXCEPT ![p] = st]
  <2>1. p \in PidsIn(jobs) /\ p \in PIDs /\ DOMAIN live = PidsIn(jobs)
    BY <1>4, <1>5, LiveOfSpec, LiveIsLiveOf
  <2>2. g = [q \in PidsIn(jobs') |-> g[q]] /\ g[p] = st
        /\ \A q \in PidsIn(jobs) : q # p => g[q] = live[q]
    BY <1>2, <1>3, <2>1
  <2>3. jobs'[s].state = st
    BY <1>5 DEF Job
  <2>4. \A u \in Slots : jobs'[u].pid # NoPid => g[jobs'[u].pid] = jobs'[u].state
    <3>1. ASSUME NEW u \in Slots, jobs'[u].pid # NoPid
          PROVE  g[jobs'[u].pid] = jobs'[u].state
      <4>1. CASE u = s
        BY <1>1, <2>2, <2>3, <4>1
      <4>2. CASE u # s
        <5>1. jobs'[u] = jobs[u] /\ jobs[u].pid # p
          BY <1>1, <1>5, <2>1, <4>2 DEF OneSlotEach
        <5> QED
          BY <1>4, <2>2, <3>1, <5>1
      <4> QED
        BY <4>1, <4>2
    <3> QED
      BY <3>1
  <2> HIDE DEF g
  <2>5. live' = g
    <3>1. g = [q \in PidsIn(jobs') |-> g[q]]
      BY <2>2
    <3>2. LiveOf(jobs') = g
      BY <2>4, <3>1, LiveOfIs, Zenon
    <3> QED
      BY <3>2, LiveIsLiveOf
  <2>6. JS!Change(p, st)
    BY <2>1, <2>5 DEF JS!Change, JS!Listed, g
  <2> QED
    BY <2>1, <2>6 DEF JS!Next, JS!States
<1>6. CASE ~(s \in Slots /\ jobs[s].pid # NoPid)
  <2>1. \A u \in Slots : jobs'[u].pid # NoPid => jobs'[u] = jobs[u]
    BY <1>1, <1>6
  <2>2. live = [p \in PidsIn(jobs') |-> live[p]]
    BY <1>2, <1>3
  <2>3. \A u \in Slots : jobs'[u].pid # NoPid => live[jobs'[u].pid] = jobs'[u].state
    BY <1>4, <2>1
  <2>4. LiveOf(jobs') = live
    BY <2>2, <2>3, LiveOfIs, Zenon
  <2> QED
    BY <2>4, LiveIsLiveOf
<1> QED
  BY <1>5, <1>6

(* A list with a free slot holds fewer than MAXJOBS jobs. *)
LEMMA FewerThanSlots ==
  ASSUME jobs \in [Slots -> Job], OneSlotEach(jobs),
         NEW s \in Slots, jobs[s].pid = NoPid
  PROVE  Cardinality(PidsIn(jobs)) < MAXJOBS
<1> DEFINE f == [p \in PidsIn(jobs) |-> getjobpid(jobs, p)]
           others == Slots \ {s}
<1>1. IsFiniteSet(Slots) /\ Cardinality(Slots) = MAXJOBS /\ MAXJOBS \in Nat
  BY SlotsCounted
<1>2. IsFiniteSet(others) /\ Cardinality(others) = MAXJOBS - 1
  BY <1>1, FS_RemoveElement
<1>3. ASSUME NEW p \in PidsIn(jobs)
      PROVE  getjobpid(jobs, p) \in others /\ jobs[getjobpid(jobs, p)].pid = p
  <2>1. PICK u \in Slots : jobs[u].pid = p /\ p # NoPid /\ p \in PIDs
    BY <1>3 DEF PidsIn, Job
  <2>2. getjobpid(jobs, p) \in Slots /\ jobs[getjobpid(jobs, p)].pid = p
    BY <2>1, getjobpidSpec
  <2> QED
    BY <2>1, <2>2
<1>4. f \in Injection(PidsIn(jobs), others)
  BY <1>3 DEF Injection, IsInjective
<1> HIDE DEF f, others
<1>5. IsFiniteSet(PidsIn(jobs)) /\ Cardinality(PidsIn(jobs)) <= Cardinality(others)
  BY <1>2, <1>4, FS_Injection
<1> QED
  BY <1>1, <1>2, <1>5, FS_CardinalityType

LEMMA AddIsStart ==
  ASSUME jobs \in [Slots -> Job], jobs' \in [Slots -> Job],
         OneSlotEach(jobs), OneSlotEach(jobs'),
         NEW p \in PIDs, ~Listed(p), NEW st \in {"FG", "BG"}, NEW jid,
         NEW s \in Slots, jobs[s].pid = NoPid,
         jobs' = [jobs EXCEPT ![s] = [pid |-> p, jid |-> jid, state |-> st]]
  PROVE  JS!Next
<1> DEFINE g == [q \in PidsIn(jobs) \cup {p} |-> IF q = p THEN st ELSE live[q]]
<1>1. /\ jobs'[s].pid = p /\ jobs'[s].state = st /\ p # NoPid
      /\ \A u \in Slots \ {s} : jobs'[u] = jobs[u] /\ jobs[u].pid # p
  BY PIDsAssumption DEF Listed
<1>2. PidsIn(jobs') = PidsIn(jobs) \cup {p}
  BY <1>1 DEF PidsIn
<1>3. /\ DOMAIN live = PidsIn(jobs)
      /\ \A u \in Slots : jobs[u].pid # NoPid =>
            jobs[u].pid \in PidsIn(jobs) /\ live[jobs[u].pid] = jobs[u].state
  BY LiveOfSpec, LiveIsLiveOf
<1>4. g = [q \in PidsIn(jobs') |-> g[q]]
  BY <1>2
<1>5. \A u \in Slots : jobs'[u].pid # NoPid => g[jobs'[u].pid] = jobs'[u].state
  BY <1>1, <1>3
<1>6. live' = g
  <2> HIDE DEF g
  <2>1. LiveOf(jobs') = g
    BY <1>4, <1>5, LiveOfIs, Zenon
  <2> QED
    BY <2>1, LiveIsLiveOf
<1>7. p \notin PidsIn(jobs) /\ Cardinality(PidsIn(jobs)) < MAXJOBS
  BY FewerThanSlots DEF PidsIn, Listed
<1>8. JS!Start(p, st)
  <2>1. p \notin DOMAIN live /\ Cardinality(DOMAIN live) < MAXJOBS
    BY <1>3, <1>7
  <2>2. live' = [q \in DOMAIN live \cup {p} |-> IF q = p THEN st ELSE live[q]]
    BY <1>3, <1>6
  <2>3. JS!Cardinality(DOMAIN live) = Cardinality(DOMAIN live)
    BY DEF JS!Cardinality, Cardinality
  <2> QED
    BY <2>1, <2>2, <2>3 DEF JS!Start, JS!Listed
<1> QED
  BY <1>8 DEF JS!Next, JS!States

LEMMA ClearIsEnd ==
  ASSUME jobs \in [Slots -> Job], jobs' \in [Slots -> Job],
         OneSlotEach(jobs), OneSlotEach(jobs'),
         NEW s \in Slots, jobs[s].pid \in PIDs, jobs' = [jobs EXCEPT ![s] = ClearedJob]
  PROVE  JS!Next
<1> DEFINE p == jobs[s].pid
           g == [q \in PidsIn(jobs) \ {p} |-> live[q]]
<1>1. /\ jobs'[s].pid = NoPid /\ p # NoPid
      /\ \A u \in Slots \ {s} : jobs'[u] = jobs[u] /\ jobs[u].pid # p
  BY PIDsAssumption DEF ClearedJob, OneSlotEach
<1>2. PidsIn(jobs') = PidsIn(jobs) \ {p}
  BY <1>1 DEF PidsIn
<1>3. /\ DOMAIN live = PidsIn(jobs)
      /\ \A u \in Slots : jobs[u].pid # NoPid =>
            jobs[u].pid \in PidsIn(jobs) /\ live[jobs[u].pid] = jobs[u].state
  BY LiveOfSpec, LiveIsLiveOf
<1>4. g = [q \in PidsIn(jobs') |-> g[q]]
  BY <1>2
<1>5. \A u \in Slots : jobs'[u].pid # NoPid => g[jobs'[u].pid] = jobs'[u].state
  BY <1>1, <1>3
<1>6. live' = g
  <2> HIDE DEF g
  <2>1. LiveOf(jobs') = g
    BY <1>4, <1>5, LiveOfIs, Zenon
  <2> QED
    BY <2>1, LiveIsLiveOf
<1>7. JS!End(p)
  BY <1>1, <1>3, <1>6 DEF JS!End, JS!Listed, JS!Restrict
<1> QED
  BY <1>7 DEF JS!Next

(* Every step of the shell is a step of the set of jobs, or none. *)
LEMMA NextIsJobSet ==
  ASSUME TypeOK, TypeOK', ListInv, ListInv', [Next]_vars
  PROVE  [JS!Next]_live
<1>1. /\ jobs \in [Slots -> Job] /\ jobs' \in [Slots -> Job]
      /\ OneSlotEach(jobs) /\ OneSlotEach(jobs')
  BY DEF TypeOK, ListInv, JobsInv, ListedAreChildren, OneSlotEach
<1>2. CASE UNCHANGED jobs
  BY <1>2, LiveIsLiveOf
<1>3. CASE AddJob
  <2> DEFINE st == IF argv = "run" THEN "FG" ELSE "BG"
  <2>1. pc = "addjob" /\ jobs' = addjob(jobs, nextjid, pid, st).jobs
    BY <1>3 DEF AddJob, MainAt
  <2>2. st \in {"FG", "BG"}
    OBVIOUS
  <2> HIDE DEF st
  <2>3. ASSUME pid \in PIDs, NEW s \in Slots, jobs[s].pid = NoPid,
               jobs' = [jobs EXCEPT ![s] = [pid |-> pid, jid |-> nextjid, state |-> st]]
        PROVE  JS!Next
    <3>1. ~Listed(pid)
      BY <2>1, <2>3 DEF ListInv, JobsInv, NewIsUnlisted
    <3> QED
      BY <1>1, <2>2, <2>3, <3>1, AddIsStart
  <2>4. \/ UNCHANGED jobs
        \/ /\ pid \in PIDs
           /\ \E s \in Slots :
                 /\ jobs[s].pid = NoPid
                 /\ jobs' = [jobs EXCEPT ![s] = [pid |-> pid, jid |-> nextjid, state |-> st]]
    BY <2>1, addjobSpec
  <2> QED
    BY <1>2, <2>3, <2>4
<1>4. CASE BgState \/ FgState \/ StopJob
  <2>1. \E s \in Slots \cup {NULL}, st \in {"FG", "BG", "ST"} :
           jobs' = [jobs EXCEPT ![s].state = st]
    BY <1>4, getjobpidSpec DEF BgState, FgState, StopJob, TypeOK
  <2> QED
    BY <1>1, <2>1, WriteIsChange
<1>5. CASE DeleteJob
  <2>1. \/ UNCHANGED jobs
        \/ \E s \in Slots : jobs[s].pid \in PIDs /\ jobs' = [jobs EXCEPT ![s] = ClearedJob]
    BY <1>5, deletejobSpec DEF DeleteJob
  <2> QED
    BY <1>1, <1>2, <2>1, ClearIsEnd
<1>6. CASE Command \/ Environment \/ Gone \/ UNCHANGED vars
  BY <1>2, <1>6
  DEF Command, Fork, FindByPid, ForkFails, FindByJid, Quit,
      Environment, Type, SetPgid, Exec, Dies, StopsItself, Continues, Gone, shellVars, vars
<1>7. ASSUME NEW sig, KeyStep(sig) \/ Deliver(sig)
      PROVE  [JS!Next]_live
  BY <1>2, <1>7 DEF KeyStep, ReadFgpid, NoForeground, Forward, Deliver, shellVars
<1>8. CASE MainStep
  BY <1>2, <1>3, <1>4, <1>8
  DEF MainStep, TestFg, Sigsuspend, Unblock, ReadPid, BgKill, FgKill
<1>9. CASE ChldStep
  BY <1>2, <1>4, <1>5, <1>9
  DEF ChldStep, ReapDead, ReportStopped, NoMoreChildren, StopUnlisted, shellVars
<1> QED
  BY <1>6, <1>7, <1>8, <1>9 DEF Next

LEMMA InitIsJobSet == Init => JS!Init
<1> SUFFICES ASSUME Init PROVE JS!Init
  OBVIOUS
<1>1. PidsIn(jobs) = {}
  BY DEF Init, initjobs, ClearedJob, PidsIn
<1> QED
  BY <1>1, LiveIsLiveOf DEF JS!Init, LiveOf

(* The job list is a set of jobs named by their pids, whatever slots and   *)
(* job IDs it uses, and whichever handler interrupts which: each step      *)
(* starts, ends or changes one job, and a full list refuses a new one, for *)
(* every number of slots and children (Shell!IsJobSet; eval, do_bgfg,      *)
(* sigchld_handler, addjob, deletejob).                                    *)
THEOREM ShellIsJobSet == Spec => IsJobSet
<1>1. Init => TypeOK /\ JobFound /\ ListInv /\ JS!Init
  BY InitTypeOK, InitListInv, InitIsJobSet
<1>2. TypeOK /\ JobFound /\ ListInv /\ [Next]_vars
        => TypeOK' /\ JobFound' /\ ListInv' /\ [JS!Next]_live
  BY TypeOKStep, JobFoundStep, ListInvStep, NextIsJobSet
<1> QED
  BY <1>1, <1>2, PTL DEF Spec, IsJobSet, JS!Spec
-----------------------------------------------------------------------------
(* Keys.  The main loop does not run under a handler, so a job that was in *)
(* the foreground when the handler read fgpid can at most have stopped or  *)
(* ended when its group is killed.                                         *)
ForwardsSpare ==
    \A i \in 1 .. Len(frames), s \in Slots :
        frames[i].at = "forward" /\ jobs[s].pid = frames[i].pid => jobs[s].state # "BG"

LEMMA ForwardsKept ==
  ASSUME ForwardsSpare,
         \A s \in Slots : jobs'[s].state = "BG" => jobs'[s] = jobs[s],
         \A i \in 1 .. Len(frames') : frames'[i].at = "forward" =>
            i \in 1 .. Len(frames) /\ frames'[i] = frames[i]
  PROVE  ForwardsSpare'
  BY DEF ForwardsSpare

LEMMA ReadFgpidSpares ==
  ASSUME TypeOK, ListInv, ForwardsSpare, NEW sig \in Keys, ReadFgpid(sig)
  PROVE  ForwardsSpare'
<1> USE TypeOKParts
<1> DEFINE n == Len(frames)
           p == fgpid(jobs)
<1>1. frames # <<>> /\ p \in PIDs /\ InFrame("forward", p) /\ UNCHANGED jobs
  BY DEF ReadFgpid, HandlerAt, shellVars
<1>2. /\ Len(frames') = n /\ n \in Nat \ {0}
      /\ \A i \in 1 .. n - 1 : frames'[i] = frames[i]
      /\ frames'[n] = [Top EXCEPT !.at = "forward", !.pid = p] /\ Top \in Frame
  BY <1>1, FramesAfterInFrame, TopAndBelow
<1>3. frames'[n].pid = p
  BY <1>2 DEF Frame
<1>4. ASSUME NEW s \in Slots, jobs[s].pid = p
      PROVE  jobs[s].state = "FG"
  <2>1. PICK u \in Slots : jobs[u].state = "FG" /\ jobs[u].pid = p
    BY <1>1, fgpidSpec, PIDsAssumption
  <2>2. s = u
    BY <1>1, <1>4, <2>1 DEF ListInv, JobsInv, ListedAreChildren
  <2> QED
    BY <2>1, <2>2
<1> HIDE DEF n, p
<1>5. ASSUME NEW i \in 1 .. n, NEW s \in Slots,
             frames'[i].at = "forward", jobs[s].pid = frames'[i].pid
      PROVE  jobs[s].state # "BG"
  <2>1. CASE i = n
    BY <1>3, <1>4, <1>5, <2>1
  <2>2. CASE i # n
    <3>1. i \in 1 .. n - 1
      BY <1>2, <2>2
    <3> QED
      BY <1>2, <1>5, <3>1 DEF ForwardsSpare, n
  <2> QED
    BY <2>1, <2>2
<1> QED
  BY <1>1, <1>2, <1>5 DEF ForwardsSpare

LEMMA ForwardsSpareStep ==
  ASSUME TypeOK, ListInv, ForwardsSpare, [Next]_vars
  PROVE  ForwardsSpare'
<1> USE TypeOKParts
<1> DEFINE Jobs == \A s \in Slots : jobs'[s].state = "BG" => jobs'[s] = jobs[s]
<1>1. frames' = <<>> => ForwardsSpare'
  <2>1. SUFFICES ASSUME frames' = <<>> PROVE ForwardsSpare'
    OBVIOUS
  <2>2. Len(frames') = 0
    BY <2>1, EmptySeq
  <2>3. 1 .. Len(frames') = {}
    BY <2>2
  <2> QED
    BY <2>3 DEF ForwardsSpare
<1>2. UNCHANGED <<frames, jobs>> => ForwardsSpare'
  BY DEF ForwardsSpare
<1>3. frames # <<>> /\ Return /\ UNCHANGED jobs => ForwardsSpare'
  <2>1. SUFFICES ASSUME frames # <<>>, Return, UNCHANGED jobs PROVE ForwardsSpare'
    OBVIOUS
  <2>2. /\ Len(frames) \in Nat /\ Len(frames') = Len(frames) - 1
        /\ \A i \in 1 .. Len(frames) - 1 : frames'[i] = frames[i]
    BY <2>1, TopAndBelow DEF Return
  <2> QED
    BY <2>1, <2>2, ForwardsKept
<1>4. ASSUME frames # <<>>, NEW q \in PIDs \cup {NoPid},
             NEW label \in {"entered", "dead", "stopped"}, InFrame(label, q), Jobs
      PROVE  ForwardsSpare'
  <2>1. /\ Len(frames') = Len(frames) /\ Len(frames) \in Nat
        /\ \A i \in 1 .. Len(frames) - 1 : frames'[i] = frames[i]
        /\ frames'[Len(frames)] = [Top EXCEPT !.at = label, !.pid = q] /\ Top \in Frame
    BY <1>4, FramesAfterInFrame, TopAndBelow
  <2>2. frames'[Len(frames)].at # "forward"
    BY <1>4, <2>1 DEF Frame
  <2>3. ASSUME NEW i \in 1 .. Len(frames'), frames'[i].at = "forward"
        PROVE  i \in 1 .. Len(frames) /\ frames'[i] = frames[i]
    <3>1. i # Len(frames) /\ i \in 1 .. Len(frames)
      BY <2>1, <2>2, <2>3
    <3>2. i \in 1 .. Len(frames) - 1
      BY <2>1, <3>1
    <3> QED
      BY <2>1, <3>1, <3>2
  <2> QED
    BY <1>4, <2>3, ForwardsKept
<1>5. ASSUME NEW sig \in Signals, Deliver(sig)
      PROVE  ForwardsSpare'
  <2>1. /\ Len(frames) \in Nat /\ Len(frames') = Len(frames) + 1
        /\ \A i \in 1 .. Len(frames) : frames'[i] = frames[i]
        /\ frames'[Len(frames) + 1].at = "entered"
    <3>1. frames'[Len(frames) + 1] =
            [sig |-> sig, at |-> "entered", pid |-> NoPid, saved |-> blocked]
      BY <1>5, FramesAfterDeliver
    <3> QED
      BY <1>5, <3>1, FramesAfterDeliver
  <2>2. \A i \in 1 .. Len(frames') : frames'[i].at = "forward" =>
           i \in 1 .. Len(frames) /\ frames'[i] = frames[i]
    BY <2>1
  <2> QED
    BY <1>5, <2>2, ForwardsKept DEF Deliver
<1>6. CASE Command
  BY <1>1, <1>2, <1>6 DEF Command, Fork, FindByPid, ForkFails, FindByJid, Quit, MainAt
<1>7. CASE MainStep
  BY <1>1, <1>7 DEF MainStep, AddJob, TestFg, Sigsuspend, Unblock, ReadPid, BgKill,
                    BgState, FgKill, FgState, MainAt
<1>8. ASSUME NEW sig \in Keys, KeyStep(sig)
      PROVE  ForwardsSpare'
  BY <1>3, <1>8, ReadFgpidSpares DEF KeyStep, NoForeground, Forward, HandlerAt, shellVars
<1>9. CASE ChldStep
  <2>1. ASSUME NEW q \in PIDs, ReapDead(q) \/ ReportStopped(q)
        PROVE  ForwardsSpare'
    BY <1>4, <2>1 DEF ReapDead, ReportStopped, HandlerAt, shellVars
  <2>2. CASE NoMoreChildren
    BY <1>3, <2>2 DEF NoMoreChildren, HandlerAt, shellVars
  <2>3. CASE DeleteJob
    <3>1. jobs' = jobs \/ \E s \in Slots : jobs' = [jobs EXCEPT ![s] = ClearedJob]
      BY <2>3, deletejobSpec DEF DeleteJob
    <3>2. Jobs
      BY <3>1 DEF ClearedJob, ListTyped
    <3> QED
      BY <1>4, <2>3, <3>2 DEF DeleteJob, HandlerAt
  <2>4. CASE StopJob
    <3>1. Jobs
      BY <2>4 DEF StopJob, ListTyped, Job
    <3> QED
      BY <1>4, <2>4, <3>1 DEF StopJob, HandlerAt
  <2>5. CASE StopUnlisted
    BY <1>2, <2>5 DEF StopUnlisted
  <2> QED
    BY <1>9, <2>1, <2>2, <2>3, <2>4, <2>5 DEF ChldStep
<1>10. CASE Environment \/ UNCHANGED vars
  BY <1>2, <1>10
  DEF Environment, Type, SetPgid, Exec, Dies, StopsItself, Continues, shellVars, vars
<1> QED
  BY <1>5, <1>6, <1>7, <1>8, <1>9, <1>10 DEF Next, Gone

(* Only the step that forwards the key removes a frame that is about to.   *)
LEMMA OnlyForward ==
  ASSUME TypeOK, NEW sig \in Keys, HandlerAt(sig, "forward"), frames' = Below, [Next]_vars
  PROVE  \E key \in Keys : Kill(Top.pid, key)
<1>1. frames # <<>> /\ Top.at = "forward"
  BY DEF HandlerAt
<1>2. Len(frames) \in Nat \ {0} /\ Len(frames') = Len(frames) - 1
  BY <1>1, TopAndBelow, TypeOKParts
<1>3. frames' # frames
  BY <1>2
<1>4. ASSUME NEW s \in Signals, Deliver(s) PROVE FALSE
  <2>1. Len(frames') = Len(frames) + 1
    BY <1>4, FramesAfterDeliver, TypeOKParts
  <2> QED
    BY <1>2, <2>1
<1>5. ~Command
  BY <1>1, <1>3 DEF Command, Fork, FindByPid, ForkFails, FindByJid, Quit, MainAt
<1>6. ~MainStep
  BY <1>1 DEF MainStep, AddJob, TestFg, Sigsuspend, Unblock, ReadPid, BgKill, BgState,
              FgKill, FgState, MainAt
<1>7. ~ChldStep
  BY <1>1 DEF ChldStep, ReapDead, ReportStopped, NoMoreChildren, DeleteJob, StopJob,
              StopUnlisted, HandlerAt
<1>8. ~Environment /\ ~Gone /\ ~UNCHANGED vars
  BY <1>3 DEF Environment, Type, SetPgid, Exec, Dies, StopsItself, Continues, shellVars, vars, Gone
<1>9. ASSUME NEW key \in Keys, KeyStep(key) PROVE Kill(Top.pid, key)
  BY <1>1, <1>9 DEF KeyStep, ReadFgpid, NoForeground, Forward, HandlerAt
<1> QED
  BY <1>4, <1>5, <1>6, <1>7, <1>8, <1>9 DEF Next

LEMMA KeySparesBackground ==
  ASSUME TypeOK, ForwardsSpare, [Next]_vars, NEW sig \in Keys, NEW s \in Slots,
         HandlerAt(sig, "forward"), jobs[s].state = "BG", jobs[s].pid \in PIDs,
         frames' = Below
  PROVE  child'[jobs[s].pid] = child[jobs[s].pid]
<1>1. PICK key \in Keys : Kill(Top.pid, key)
  BY OnlyForward
<1>2. Top.pid # jobs[s].pid
  <2>1. Len(frames) \in 1 .. Len(frames) /\ Top = frames[Len(frames)] /\ Top.at = "forward"
    BY TopAndBelow, TypeOKParts DEF HandlerAt, Top
  <2> QED
    BY <2>1 DEF ForwardsSpare
<1>3. CASE NobodyMoves
  BY <1>3 DEF NobodyMoves
<1>4. CASE ~NobodyMoves
  <2>1. key \in {"INT", "TSTP", "CONT"}
    BY DEF Keys
  <2>2. PICK st \in ChildStates : Move(Top.pid, st)
    BY <1>1, <1>4, <2>1, KillMoves, TypeOKParts
  <2> QED
    BY <1>2, <2>2 DEF Move, TypeOK
<1> QED
  BY <1>3, <1>4

(* ctrl-c and ctrl-z never touch a job in the background, however long     *)
(* their handlers are interrupted between reading fgpid and killing its    *)
(* group (Shell!KeysSpareBackground; sigint_handler, sigtstp_handler).     *)
THEOREM ShellKeysSpareBackground == Spec => KeysSpareBackground
<1>1. Init => TypeOK /\ JobFound /\ ListInv /\ ForwardsSpare
  <2>1. Init => ForwardsSpare
    <3>1. SUFFICES ASSUME Init PROVE ForwardsSpare
      OBVIOUS
    <3>2. Len(frames) = 0
      BY <3>1, EmptySeq DEF Init
    <3>3. 1 .. Len(frames) = {}
      BY <3>2
    <3> QED
      BY <3>3 DEF ForwardsSpare
  <2> QED
    BY <2>1, InitTypeOK, InitListInv
<1>2. TypeOK /\ JobFound /\ ListInv /\ ForwardsSpare /\ [Next]_vars
        => TypeOK' /\ JobFound' /\ ListInv' /\ ForwardsSpare'
  BY TypeOKStep, JobFoundStep, ListInvStep, ForwardsSpareStep
<1>3. TypeOK /\ ForwardsSpare /\ [Next]_vars
        => [\A sig \in Keys, s \in Slots :
               HandlerAt(sig, "forward") /\ jobs[s].state = "BG" /\ jobs[s].pid \in PIDs
               /\ frames' = Below
               => child'[jobs[s].pid] = child[jobs[s].pid]]_vars
  BY KeySparesBackground
<1> QED
  BY <1>1, <1>2, <1>3, PTL DEF Spec, KeysSpareBackground
-----------------------------------------------------------------------------
(* Wake-ups.  SIGCHLD is blocked from the kill of fg on, and again whenever *)
(* waitfg is back at its test, so nothing is handled between test and sleep, *)
(* or between the test and the prompt.                                      *)
WaitMasked ==
    /\ pc \in {"fg state", "sigsuspend", "asleep", "unblock"} => Shielded
    /\ pc = "asleep" => frames = <<>>
    /\ pc = "waitfg" =>
          IF frames = <<>> THEN "CHLD" \in blocked ELSE "CHLD" \in frames[1].saved

(* bg and fg write to the job they signal, or to a slot that was cleared.  *)
JobIsPid ==
    pc \in {"bg kill", "fg kill", "bg state", "fg state"} =>
        /\ job \in Slots /\ jobs[job].pid \in {pid, NoPid}
        /\ pid \in PIDs => \A s \in Slots : jobs[s].pid = pid => s = job

(* If p is stopped, sigchld_handler has yet to say so in the list. *)
Fresh(p) ==
    child[p] \in {"stopped", "doomed"} => p \in unreported \/ Recorded("stopped", p)

(* So it is for every job in the foreground, and those that are about to be.*)
ForegroundFresh ==
    Alive => \A s \in Slots :
        jobs[s].state = "FG" /\ jobs[s].pid \in PIDs => Fresh(jobs[s].pid)
NextFresh ==
    /\ pc = "addjob" /\ pid \in PIDs => Fresh(pid)
    /\ pc = "fg state" /\ jobs[job].pid \in PIDs => Fresh(jobs[job].pid)

SleepsForFg ==
    pc \in {"sigsuspend", "asleep"} /\ pid \in PIDs =>
        \E s \in Slots : jobs[s].pid = pid /\ jobs[s].state = "FG"

LEMMA ShieldNoChld ==
  ASSUME FramesTyped, Shielded, frames # <<>>
  PROVE  Top.sig # "CHLD"
<1>1. Len(frames) \in 1 .. Len(frames)
  BY TopAndBelow
<1> QED
  BY <1>1 DEF Shielded, Top

(* Other handlers come and go under the shield. *)
LEMMA ShieldKept ==
  ASSUME FramesTyped, Shielded,
         \/ UNCHANGED <<frames, blocked>>
         \/ ~Asleep /\ \E sig \in Signals : Deliver(sig)
         \/ frames # <<>> /\ Return
         \/ /\ frames # <<>> /\ UNCHANGED blocked
            /\ \E p \in PIDs \cup {NoPid}, label \in {"entered", "forward", "dead", "stopped"} :
                  InFrame(label, p)
  PROVE  Shielded'
<1> DEFINE n == Len(frames)
<1>1. CASE UNCHANGED <<frames, blocked>>
  BY <1>1 DEF Shielded
<1>2. ASSUME ~Asleep, NEW sig \in Signals, Deliver(sig)
      PROVE  Shielded'
  <2>1. /\ n \in Nat /\ Len(frames') = n + 1
        /\ \A i \in 1 .. n : frames'[i] = frames[i]
        /\ frames'[n + 1] = [sig |-> sig, at |-> "entered", pid |-> NoPid, saved |-> blocked]
    BY <1>2, FramesAfterDeliver
  <2>2. frames'[n + 1].sig = sig /\ frames'[n + 1].saved = blocked
    BY <2>1
  <2>3. sig # "CHLD" /\ "CHLD" \in blocked'
    BY <1>2 DEF Deliver, Mask, Shielded
  <2>4. ASSUME NEW i \in 1 .. n + 1
        PROVE  frames'[i].sig # "CHLD" /\ "CHLD" \in frames'[i].saved
    <3>1. i = n + 1 \/ i \in 1 .. n
      BY <2>1
    <3> QED
      BY <2>1, <2>2, <2>3, <3>1 DEF Shielded
  <2> QED
    BY <2>1, <2>3, <2>4 DEF Shielded
<1>3. CASE frames # <<>> /\ Return
  <2>1. /\ n \in 1 .. n /\ n \in Nat /\ Len(frames') = n - 1 /\ blocked' = frames[n].saved
        /\ \A i \in 1 .. n - 1 : frames'[i] = frames[i]
    BY <1>3, TopAndBelow DEF Return, Top
  <2> QED
    BY <2>1 DEF Shielded
<1>4. ASSUME frames # <<>>, UNCHANGED blocked, NEW p \in PIDs \cup {NoPid},
             NEW label \in {"entered", "forward", "dead", "stopped"}, InFrame(label, p)
      PROVE  Shielded'
  <2>0. n \in Nat \ {0} /\ Top \in Frame /\ Top = frames[n]
    BY <1>4, TopAndBelow DEF Top
  <2>1. /\ Len(frames') = n
        /\ \A i \in 1 .. n - 1 : frames'[i] = frames[i]
        /\ frames'[n] = [Top EXCEPT !.at = label, !.pid = p]
    BY <1>4, FramesAfterInFrame
  <2>2. frames'[n].sig = frames[n].sig /\ frames'[n].saved = frames[n].saved
    BY <2>0, <2>1 DEF Frame
  <2>3. ASSUME NEW i \in 1 .. n
        PROVE  frames'[i].sig # "CHLD" /\ "CHLD" \in frames'[i].saved
    <3>1. i = n \/ i \in 1 .. n - 1
      BY <2>0, <2>1
    <3> QED
      BY <2>1, <2>2, <3>1 DEF Shielded
  <2> QED
    BY <1>4, <2>1, <2>3 DEF Shielded
<1> QED
  BY <1>1, <1>2, <1>3, <1>4

(* The mask that waitfg comes back to. *)
BottomMask == IF frames = <<>> THEN blocked ELSE frames[1].saved

LEMMA BottomKept ==
  ASSUME FramesTyped,
         \/ UNCHANGED <<frames, blocked>>
         \/ \E sig \in Signals : Deliver(sig)
         \/ frames # <<>> /\ Return
         \/ /\ frames # <<>> /\ UNCHANGED blocked
            /\ \E p \in PIDs \cup {NoPid}, label \in {"entered", "forward", "dead", "stopped"} :
                  InFrame(label, p)
  PROVE  BottomMask' = BottomMask
<1> DEFINE n == Len(frames)
<1>0. /\ n \in Nat /\ (frames = <<>> <=> n = 0)
      /\ frames' \in Seq(Frame) => (frames' = <<>> <=> Len(frames') = 0)
  BY EmptySeq, LenProperties DEF FramesTyped
<1>1. CASE UNCHANGED <<frames, blocked>>
  BY <1>1 DEF BottomMask
<1>2. ASSUME NEW sig \in Signals, Deliver(sig)
      PROVE  BottomMask' = BottomMask
  <2>1. /\ Len(frames') = n + 1
        /\ \A i \in 1 .. n : frames'[i] = frames[i]
        /\ frames'[n + 1] = [sig |-> sig, at |-> "entered", pid |-> NoPid, saved |-> blocked]
    BY <1>2, FramesAfterDeliver
  <2>2. frames'[n + 1].saved = blocked
    BY <2>1
  <2>3. frames' # <<>>
    BY <1>0, <2>1, EmptySeq
  <2>4. CASE n = 0
    BY <1>0, <2>2, <2>3, <2>4 DEF BottomMask
  <2>5. CASE n # 0
    BY <1>0, <2>1, <2>3, <2>5 DEF BottomMask
  <2> QED
    BY <2>4, <2>5
<1>3. CASE frames # <<>> /\ Return
  <2>1. /\ Len(frames') = n - 1 /\ blocked' = frames[n].saved /\ frames' \in Seq(Frame)
        /\ \A i \in 1 .. n - 1 : frames'[i] = frames[i]
    BY <1>3, TopAndBelow DEF Return, Top
  <2>2. CASE n = 1
    BY <1>0, <1>3, <2>1, <2>2 DEF BottomMask
  <2>3. CASE n # 1
    BY <1>0, <1>3, <2>1, <2>3 DEF BottomMask
  <2> QED
    BY <2>2, <2>3
<1>4. ASSUME frames # <<>>, UNCHANGED blocked, NEW p \in PIDs \cup {NoPid},
             NEW label \in {"entered", "forward", "dead", "stopped"}, InFrame(label, p)
      PROVE  BottomMask' = BottomMask
  <2>1. /\ Len(frames') = n
        /\ \A i \in 1 .. n - 1 : frames'[i] = frames[i]
        /\ frames'[n] = [Top EXCEPT !.at = label, !.pid = p]
        /\ Top \in Frame /\ Top = frames[n]
    BY <1>4, FramesAfterInFrame, TopAndBelow DEF Top
  <2>2. frames'[n].saved = frames[n].saved
    BY <2>1 DEF Frame
  <2>3. frames' # <<>> /\ n # 0
    BY <1>0, <1>4, <2>1, EmptySeq
  <2>4. CASE n = 1
    BY <1>4, <2>2, <2>3, <2>4 DEF BottomMask
  <2>5. CASE n # 1
    BY <1>0, <1>4, <2>1, <2>3, <2>5 DEF BottomMask
  <2> QED
    BY <2>4, <2>5
<1> QED
  BY <1>1, <1>2, <1>3, <1>4

LEMMA AddJobMasked ==
  ASSUME ChldMasked, pc = "addjob"
  PROVE  "CHLD" \in blocked
  BY DEF ChldMasked, Shielded

LEMMA WaitMaskedStep ==
  ASSUME TypeOK, ListInv, WaitMasked, [Next]_vars
  PROVE  WaitMasked'
<1> USE TypeOKParts
<1> DEFINE Kept ==
      \/ UNCHANGED <<frames, blocked>>
      \/ frames # <<>> /\ Return
      \/ /\ frames # <<>> /\ UNCHANGED blocked
         /\ \E p \in PIDs \cup {NoPid}, label \in {"entered", "forward", "dead", "stopped"} :
               InFrame(label, p)
<1>1. CASE Command
  BY <1>1 DEF Command, Fork, FindByPid, ForkFails, FindByJid, Quit, Goto, WaitMasked
<1>2. CASE MainStep
  <2>1. frames = <<>> /\ frames' = <<>>
    BY <1>2 DEF MainStep, AddJob, TestFg, Sigsuspend, Unblock, ReadPid, BgKill,
                BgState, FgKill, FgState, MainAt
  <2>2. /\ Shielded => "CHLD" \in blocked
        /\ "CHLD" \in blocked' => Shielded'
    <3>1. 1 .. Len(frames') = {}
      <4>1. Len(frames') = 0
        BY <2>1, EmptySeq
      <4> QED
        BY <4>1
    <3> QED
      BY <3>1 DEF Shielded
  <2>3. pc' \in {"fg state", "sigsuspend", "asleep", "unblock", "waitfg"} => "CHLD" \in blocked'
    <3>1. CASE AddJob
      BY <2>1, <3>1, AddJobMasked DEF AddJob, MainAt, Goto, ListInv, FramesInv
    <3>2. CASE ~AddJob
      BY <1>2, <2>1, <2>2, <3>2
      DEF MainStep, TestFg, Sigsuspend, Unblock, ReadPid, BgKill, BgState, FgKill,
          FgState, MainAt, Goto, WaitMasked
    <3> QED
      BY <3>1, <3>2
  <2> QED
    BY <2>1, <2>2, <2>3 DEF WaitMasked
<1>3. CASE Kept /\ (UNCHANGED pc \/ pc' \in {"exited", "crashed"})
  <2>1. CASE UNCHANGED pc
    <3>1. pc = "asleep" => UNCHANGED <<frames, blocked>>
      BY <1>3 DEF WaitMasked
    <3>2. Shielded => Shielded'
      BY <1>3, ShieldKept
    <3>3. BottomMask' = BottomMask
      BY <1>3, BottomKept
    <3> QED
      BY <2>1, <3>1, <3>2, <3>3 DEF WaitMasked, BottomMask
  <2>2. CASE pc' \in {"exited", "crashed"}
    BY <2>2 DEF WaitMasked
  <2> QED
    BY <1>3, <2>1, <2>2
<1>4. ASSUME NEW sig \in Signals, Deliver(sig)
      PROVE  WaitMasked'
  <2>1. BottomMask' = BottomMask
    BY <1>4, BottomKept
  <2>2. CASE Asleep
    <3>1. pc = "asleep" /\ pc' = "waitfg" /\ frames = <<>> /\ "CHLD" \in blocked
      BY <1>4, <2>2 DEF Deliver, Asleep, MainAt, WaitMasked, Shielded
    <3> QED
      BY <2>1, <3>1 DEF WaitMasked, BottomMask
  <2>3. CASE ~Asleep
    <3>1. pc' = pc /\ pc # "asleep"
      BY <1>4, <2>3 DEF Deliver, Asleep, MainAt, WaitMasked
    <3>2. Shielded => Shielded'
      BY <1>4, <2>3, ShieldKept
    <3> QED
      BY <2>1, <3>1, <3>2 DEF WaitMasked, BottomMask
  <2> QED
    BY <2>2, <2>3
<1>5. ASSUME NEW sig \in Keys, KeyStep(sig)
      PROVE  WaitMasked'
  BY <1>3, <1>5 DEF KeyStep, ReadFgpid, NoForeground, Forward, HandlerAt, shellVars
<1>6. CASE ChldStep
  <2>1. ASSUME NEW p \in PIDs, ReapDead(p) \/ ReportStopped(p)
        PROVE  WaitMasked'
    BY <1>3, <2>1 DEF ReapDead, ReportStopped, HandlerAt, shellVars
  <2>2. CASE NoMoreChildren \/ DeleteJob \/ StopJob \/ StopUnlisted
    BY <1>3, <2>2 DEF NoMoreChildren, DeleteJob, StopJob, StopUnlisted, HandlerAt,
                      shellVars, Goto
  <2> QED
    BY <1>6, <2>1, <2>2 DEF ChldStep
<1>7. CASE Environment \/ UNCHANGED vars
  BY <1>3, <1>7 DEF Environment, Type, SetPgid, Exec, Dies, StopsItself, Continues, shellVars, vars
<1> QED
  BY <1>1, <1>2, <1>4, <1>5, <1>6, <1>7 DEF Next, Gone

LEMMA JobIsPidStep ==
  ASSUME TypeOK, JobFound, ListInv, JobIsPid, [Next]_vars
  PROVE  JobIsPid'
<1>1. ASSUME UNCHANGED <<pc, pid, job>> \/ pc' \in {"waitfg", "crashed", "exited"},
             \A s \in Slots : jobs'[s].pid \in {jobs[s].pid, NoPid}
             \/ pc \notin {"bg kill", "fg kill", "bg state", "fg state"}
      PROVE  JobIsPid'
  BY <1>1, PIDsAssumption DEF JobIsPid
<1>2. UNCHANGED jobs => \A s \in Slots : jobs'[s].pid \in {jobs[s].pid, NoPid}
  OBVIOUS
<1>3. CASE Command
  <2>1. ASSUME NEW p \in PIDs, NEW cmd \in Commands, FindByPid(cmd, p)
        PROVE  JobIsPid'
    <3>1. pid' = p /\ job' = getjobpid(jobs, p) /\ job' # NULL /\ jobs' = jobs
      BY <2>1 DEF FindByPid
    <3>2. job' \in Slots /\ jobs'[job'].pid = p
      BY <3>1, getjobpidSpec
    <3> QED
      BY <3>1, <3>2 DEF JobIsPid, ListInv, JobsInv, ListedAreChildren
  <2> QED
    BY <1>3, <2>1 DEF Command, Fork, ForkFails, FindByJid, Quit, Goto, JobIsPid
<1>4. CASE MainStep
  <2>1. CASE ReadPid
    BY <2>1 DEF ReadPid, MainAt, JobFound, JobIsPid, ListInv, JobsInv, ListedAreChildren
  <2>2. CASE BgKill \/ FgKill
    BY <2>2 DEF BgKill, FgKill, MainAt, Goto, JobIsPid
  <2>3. CASE ~(ReadPid \/ BgKill \/ FgKill)
    BY <1>4, <2>3 DEF MainStep, AddJob, TestFg, Sigsuspend, Unblock, BgState, FgState,
                      Goto, JobIsPid
  <2> QED
    BY <2>1, <2>2, <2>3
<1>5. ASSUME NEW sig, KeyStep(sig) \/ Deliver(sig)
      PROVE  JobIsPid'
  BY <1>1, <1>2, <1>5 DEF KeyStep, ReadFgpid, NoForeground, Forward, Deliver, shellVars
<1>6. CASE ChldStep
  <2>1. CASE DeleteJob
    <3>1. jobs' = jobs \/ \E s \in Slots : jobs' = [jobs EXCEPT ![s] = ClearedJob]
      BY <2>1, deletejobSpec DEF DeleteJob
    <3>2. \A s \in Slots : jobs'[s].pid \in {jobs[s].pid, NoPid}
      BY <3>1 DEF ClearedJob, TypeOK
    <3> QED
      BY <1>1, <2>1, <3>2 DEF DeleteJob
  <2>2. CASE StopJob
    <3>1. \A s \in Slots : jobs'[s].pid \in {jobs[s].pid, NoPid}
      BY <2>2 DEF StopJob, TypeOK, Job
    <3> QED
      BY <1>1, <2>2, <3>1 DEF StopJob
  <2>3. CASE ~(DeleteJob \/ StopJob)
    BY <1>1, <1>2, <1>6, <2>3
    DEF ChldStep, ReapDead, ReportStopped, NoMoreChildren, StopUnlisted, Goto, shellVars
  <2> QED
    BY <2>1, <2>2, <2>3
<1>7. CASE Environment \/ UNCHANGED vars
  BY <1>1, <1>2, <1>7
  DEF Environment, Type, SetPgid, Exec, Dies, StopsItself, Continues, shellVars, vars
<1> QED
  BY <1>3, <1>4, <1>5, <1>6, <1>7 DEF Next, Gone

(* Under the shield the list stays as it is, until the main loop moves on. *)
LEMMA ShieldedJobs ==
  ASSUME TypeOK, ListInv, WaitMasked, [Next]_vars, UNCHANGED pc,
         pc \in {"addjob", "fg state", "sigsuspend", "asleep", "unblock"}
  PROVE  UNCHANGED <<jobs, argv, pid, job>>
<1>1. CASE ChldStep
  <2>1. frames # <<>> /\ Top.sig = "CHLD"
    BY <1>1 DEF ChldStep, ReapDead, ReportStopped, NoMoreChildren, DeleteJob, StopJob,
                StopUnlisted, HandlerAt
  <2>2. Shielded
    BY DEF WaitMasked, ListInv, FramesInv, ChldMasked
  <2> QED
    BY <2>1, <2>2, ShieldNoChld, TypeOKParts
<1>2. CASE Command
  BY <1>2 DEF Command, Fork, FindByPid, ForkFails, FindByJid, Quit, MainAt, Goto
<1>3. CASE MainStep
  BY <1>3 DEF MainStep, AddJob, TestFg, Sigsuspend, Unblock, ReadPid, BgKill, BgState,
              FgKill, FgState, MainAt, Goto
<1>4. ASSUME NEW sig, KeyStep(sig) \/ Deliver(sig)
      PROVE  UNCHANGED <<jobs, argv, pid, job>>
  BY <1>4 DEF KeyStep, ReadFgpid, NoForeground, Forward, Deliver, shellVars
<1>5. CASE Environment \/ UNCHANGED vars
  BY <1>5 DEF Environment, Type, SetPgid, Exec, Dies, StopsItself, Continues, shellVars, vars
<1> QED
  BY <1>1, <1>2, <1>3, <1>4, <1>5 DEF Next, Gone

(* A child that stops is a child to report. *)
StopsAreTold(p) ==
    child'[p] \in {"stopped", "doomed"} =>
        p \in unreported' \/ (child[p] \in {"stopped", "doomed"} /\ p \notin unreported)

LEMMA MoveIsTold ==
  ASSUME KernelTyped, NEW p \in PIDs, NEW q \in PIDs, NEW st \in ChildStates, Move(q, st),
         st = "doomed" => child[q] = "stopped"
  PROVE  StopsAreTold(p)
<1>1. child'[p] = IF p = q THEN st ELSE child[p]
  BY DEF Move, KernelTyped
<1>2. CASE p = q
  BY <1>1, <1>2 DEF Move, StopsAreTold
<1>3. CASE p # q
  BY <1>1, <1>3 DEF Move, StopsAreTold
<1> QED
  BY <1>2, <1>3

LEMMA KillIsTold ==
  ASSUME KernelTyped, NEW p \in PIDs, NEW q, NEW sig \in {"INT", "TSTP", "CONT"},
         Kill(q, sig)
  PROVE  StopsAreTold(p)
<1>1. CASE NobodyMoves
  BY <1>1 DEF NobodyMoves, StopsAreTold
<1>2. CASE ~NobodyMoves
  <2>1. PICK st \in ChildStates : q \in PIDs /\ Move(q, st) /\ (st = "doomed" => child[q] = "stopped")
    <3>1. q \in PIDs
      BY <1>2 DEF Kill
    <3>2. CASE sig = "INT"
      <4>1. Move(q, Interrupted(q)) /\ Interrupted(q) # child[q]
        BY <1>2, <3>2 DEF Kill
      <4> QED
        BY <3>1, <4>1 DEF Interrupted, ChildStates
    <3>3. CASE sig = "TSTP"
      <4>1. Move(q, Suspended(q)) /\ Suspended(q) # child[q]
        BY <1>2, <3>3 DEF Kill
      <4> QED
        BY <3>1, <4>1 DEF Suspended, ChildStates
    <3>4. CASE sig = "CONT"
      <4>1. Move(q, Continued(q)) /\ Continued(q) # child[q]
        BY <1>2, <3>4 DEF Kill
      <4> QED
        BY <3>1, <4>1 DEF Continued, ChildStates
    <3> QED
      BY <3>2, <3>3, <3>4
  <2> QED
    BY <2>1, MoveIsTold
<1> QED
  BY <1>1, <1>2

LEMMA FreshKept ==
  ASSUME NEW p \in PIDs, Fresh(p), StopsAreTold(p),
         Recorded("stopped", p) => Recorded("stopped", p)'
  PROVE  Fresh(p)'
  BY DEF Fresh, StopsAreTold

LEMMA FreshStep ==
  ASSUME TypeOK, NEW p \in PIDs, Fresh(p), [Next]_vars, ~(StopJob /\ Top.pid = p)
  PROVE  Fresh(p)'
<1> USE TypeOKParts
<1>1. UNCHANGED <<child, unreported>> \/ NobodyMoves => StopsAreTold(p)
  BY DEF StopsAreTold, NobodyMoves
<1>2. UNCHANGED frames => (Recorded("stopped", p) => Recorded("stopped", p)')
  BY RecordKept
<1>3. CASE Command
  <2>1. UNCHANGED frames
    BY <1>3 DEF Command, Fork, FindByPid, ForkFails, FindByJid, Quit
  <2>2. StopsAreTold(p)
    <3>1. ASSUME NEW q \in PIDs, NEW cmd \in Commands, Fork(q, cmd)
          PROVE  StopsAreTold(p)
      BY <3>1 DEF Fork, StopsAreTold, KernelTyped
    <3> QED
      BY <1>1, <1>3, <3>1 DEF Command, FindByPid, ForkFails, FindByJid, Quit
  <2> QED
    BY <1>2, <2>1, <2>2, FreshKept
<1>4. CASE MainStep
  <2>1. UNCHANGED frames
    BY <1>4 DEF MainStep, AddJob, TestFg, Sigsuspend, Unblock, ReadPid, BgKill, BgState,
                FgKill, FgState
  <2>2. NobodyMoves \/ Kill(pid, "CONT")
    BY <1>4 DEF MainStep, AddJob, TestFg, Sigsuspend, Unblock, ReadPid, BgKill, BgState,
                FgKill, FgState
  <2> QED
    BY <1>1, <1>2, <2>1, <2>2, KillIsTold, FreshKept
<1>5. ASSUME NEW sig \in Signals, Deliver(sig)
      PROVE  Fresh(p)'
  <2>1. UNCHANGED <<child, unreported>>
    BY <1>5 DEF Deliver
  <2>2. Recorded("stopped", p) => Recorded("stopped", p)'
    BY <1>5, RecordKept
  <2> QED
    BY <1>1, <2>1, <2>2, FreshKept
<1>6. ASSUME NEW sig \in Keys, KeyStep(sig)
      PROVE  Fresh(p)'
  <2>1. /\ frames # <<>> /\ Top.at # "stopped"
        /\ Return \/ \E q \in PIDs \cup {NoPid} : InFrame("forward", q)
    BY <1>6 DEF KeyStep, ReadFgpid, NoForeground, Forward, HandlerAt
  <2>2. Recorded("stopped", p) => Recorded("stopped", p)'
    BY <2>1, RecordKept
  <2>3. sig \in {"INT", "TSTP", "CONT"}
    BY DEF Keys
  <2>4. NobodyMoves \/ Kill(Top.pid, sig)
    BY <1>6 DEF KeyStep, ReadFgpid, NoForeground, Forward
  <2> QED
    BY <1>1, <2>2, <2>3, <2>4, KillIsTold, FreshKept
<1>7. CASE ChldStep
  <2>1. ASSUME NEW q \in PIDs, ReapDead(q)
        PROVE  Fresh(p)'
    <3>1. frames # <<>> /\ Top.at # "stopped" /\ InFrame("dead", q)
      BY <2>1 DEF ReapDead, HandlerAt
    <3>2. Recorded("stopped", p) => Recorded("stopped", p)'
      BY <3>1, RecordKept
    <3>3. StopsAreTold(p)
      BY <2>1 DEF ReapDead, StopsAreTold, KernelTyped
    <3> QED
      BY <3>2, <3>3, FreshKept
  <2>2. ASSUME NEW q \in PIDs, ReportStopped(q)
        PROVE  Fresh(p)'
    <3>1. /\ frames # <<>> /\ Top.at # "stopped" /\ InFrame("stopped", q)
          /\ unreported' = unreported \ {q} /\ UNCHANGED child
      BY <2>2 DEF ReportStopped, HandlerAt
    <3>2. Recorded("stopped", p) => Recorded("stopped", p)'
      BY <3>1, RecordKept
    <3>3. p = q => Recorded("stopped", p)'
      <4>1. Len(frames) \in 1 .. Len(frames) /\ Top \in Frame
        BY <3>1, TopAndBelow
      <4>2. /\ Len(frames') = Len(frames)
            /\ frames'[Len(frames)] = [Top EXCEPT !.at = "stopped", !.pid = q]
        BY <3>1, FramesAfterInFrame
      <4>3. frames'[Len(frames)].at = "stopped" /\ frames'[Len(frames)].pid = q
        BY <4>1, <4>2 DEF Frame
      <4> QED
        BY <4>1, <4>2, <4>3 DEF Recorded
    <3> QED
      BY <3>1, <3>2, <3>3 DEF Fresh
  <2>3. CASE NoMoreChildren \/ DeleteJob \/ StopJob
    <3>1. /\ frames # <<>> /\ ~(Top.at = "stopped" /\ Top.pid = p) /\ NobodyMoves
          /\ Return \/ InFrame("entered", NoPid)
      BY <2>3 DEF NoMoreChildren, DeleteJob, StopJob, HandlerAt
    <3>2. Recorded("stopped", p) => Recorded("stopped", p)'
      BY <3>1, RecordKept
    <3> QED
      BY <1>1, <3>1, <3>2, FreshKept
  <2>4. CASE StopUnlisted
    BY <1>1, <1>2, <2>4, FreshKept DEF StopUnlisted
  <2> QED
    BY <1>7, <2>1, <2>2, <2>3, <2>4 DEF ChldStep
<1>8. CASE Environment
  <2>1. UNCHANGED frames
    BY <1>8 DEF Environment, Type, SetPgid, Exec, Dies, StopsItself, Continues
  <2>2. \/ UNCHANGED <<child, unreported>>
        \/ \E q \in PIDs, st \in ChildStates \ {"doomed"} : Move(q, st)
    BY <1>8 DEF Environment, Type, SetPgid, Exec, Dies, StopsItself, Continues, ChildStates
  <2> QED
    BY <1>1, <1>2, <2>1, <2>2, MoveIsTold, FreshKept
<1>9. CASE UNCHANGED vars
  BY <1>1, <1>2, <1>9, FreshKept DEF vars
<1> QED
  BY <1>3, <1>4, <1>5, <1>6, <1>7, <1>8, <1>9 DEF Next, Gone

(* A job comes to the foreground by addjob and by fg. *)
LEMMA ForegroundMade ==
  ASSUME TypeOK, [Next]_vars, NEW s \in Slots,
         jobs'[s].state = "FG", jobs'[s].pid \in PIDs
  PROVE  \/ jobs[s].state = "FG" /\ jobs[s].pid = jobs'[s].pid
         \/ AddJob /\ jobs'[s].pid = pid
         \/ FgState /\ s = job /\ jobs'[s].pid = jobs[s].pid
<1>1. CASE UNCHANGED jobs
  BY <1>1
<1>2. CASE AddJob
  <2> DEFINE st == IF argv = "run" THEN "FG" ELSE "BG"
  <2>1. jobs' = addjob(jobs, nextjid, pid, st).jobs
    BY <1>2 DEF AddJob
  <2> HIDE DEF st
  <2>2. \/ UNCHANGED jobs
        \/ /\ pid \in PIDs
           /\ \E u \in Slots :
                 /\ jobs[u].pid = NoPid
                 /\ jobs' = [jobs EXCEPT ![u] = [pid |-> pid, jid |-> nextjid, state |-> st]]
    BY <2>1, addjobSpec
  <2>3. jobs'[s] = jobs[s] \/ jobs'[s].pid = pid
    BY <2>2, TypeOKParts DEF ListTyped
  <2> QED
    BY <1>2, <2>3
<1>3. CASE DeleteJob
  <2>1. jobs' = jobs \/ \E u \in Slots : jobs' = [jobs EXCEPT ![u] = ClearedJob]
    BY <1>3, deletejobSpec DEF DeleteJob
  <2> QED
    BY <2>1, TypeOKParts DEF ClearedJob, ListTyped
<1>4. ASSUME NEW u, NEW st \in {"FG", "BG", "ST"}, jobs' = [jobs EXCEPT ![u].state = st]
      PROVE  jobs'[s].pid = jobs[s].pid /\ (jobs[s].state = "FG" \/ (s = u /\ st = "FG"))
  BY <1>4, TypeOKParts DEF ListTyped, Job
<1>5. CASE FgState
  BY <1>4, <1>5 DEF FgState
<1>6. CASE BgState \/ StopJob
  <2>1. PICK u : jobs' = [jobs EXCEPT ![u].state = "BG"] \/ jobs' = [jobs EXCEPT ![u].state = "ST"]
    BY <1>6 DEF BgState, StopJob
  <2> QED
    BY <1>4, <2>1
<1> QED
  BY <1>1, <1>2, <1>3, <1>5, <1>6
  DEF Next, Command, Fork, FindByPid, ForkFails, FindByJid, Quit,
      MainStep, TestFg, Sigsuspend, Unblock, ReadPid, BgKill, FgKill,
      KeyStep, ReadFgpid, NoForeground, Forward, Deliver,
      ChldStep, ReapDead, ReportStopped, NoMoreChildren, StopUnlisted,
      Environment, Type, SetPgid, Exec, Dies, StopsItself, Continues, Gone, shellVars, vars

WakeInv ==
    WaitMasked /\ JobIsPid /\ ForegroundFresh /\ NextFresh /\ SleepsForFg

LEMMA ForegroundFreshStep ==
  ASSUME TypeOK, ListInv, WakeInv, [Next]_vars
  PROVE  ForegroundFresh'
<1> USE DEF WakeInv
<1>1. Alive' => Alive
  BY DEF Alive, Next, Command, Fork, FindByPid, ForkFails, FindByJid, Quit, MainAt,
         MainStep, AddJob, TestFg, Sigsuspend, Unblock, ReadPid, BgKill, BgState, FgKill,
         FgState, KeyStep, ReadFgpid, NoForeground, Forward, Deliver, ChldStep, ReapDead,
         ReportStopped, NoMoreChildren, DeleteJob, StopJob, StopUnlisted, HandlerAt,
         Environment, Type, SetPgid, Exec, Dies, StopsItself, Continues, Gone, shellVars, vars
<1>2. ASSUME Alive, NEW s \in Slots, jobs'[s].state = "FG", NEW p \in PIDs, p = jobs'[s].pid
      PROVE  Fresh(p)'
  <2>1. Fresh(p)
    <3>1. CASE jobs[s].state = "FG" /\ jobs[s].pid = jobs'[s].pid
      BY <1>2, <3>1 DEF ForegroundFresh
    <3>2. CASE AddJob /\ jobs'[s].pid = pid
      BY <1>2, <3>2 DEF AddJob, MainAt, NextFresh
    <3>3. CASE FgState /\ s = job /\ jobs'[s].pid = jobs[s].pid
      BY <1>2, <3>3 DEF FgState, MainAt, NextFresh
    <3> QED
      BY <1>2, <3>1, <3>2, <3>3, ForegroundMade
  <2>2. ~(StopJob /\ Top.pid = p)
    <3>1. SUFFICES ASSUME StopJob, Top.pid = p PROVE FALSE
      OBVIOUS
    <3>2. PICK u \in Slots : jobs[u].pid = p /\ jobs' = [jobs EXCEPT ![u].state = "ST"]
      BY <3>1, getjobpidSpec DEF StopJob
    <3>3. jobs'[s].pid = jobs[s].pid /\ jobs'[u].state = "ST"
      BY <3>2, TypeOKParts DEF ListTyped, Job
    <3>4. s = u
      BY <1>2, <3>2, <3>3 DEF ListInv, JobsInv, ListedAreChildren
    <3> QED
      BY <1>2, <3>3, <3>4
  <2> QED
    BY <2>1, <2>2, FreshStep
<1> QED
  BY <1>1, <1>2 DEF ForegroundFresh

LEMMA ContinuedIsFresh ==
  ASSUME KernelTyped, NEW p \in PIDs, Kill(p, "CONT")
  PROVE  Fresh(p)'
<1>1. Continued(p) \notin {"stopped", "doomed"}
  BY DEF Continued
<1>2. child'[p] = Continued(p)
  <2>1. IF Continued(p) # child[p] THEN Move(p, Continued(p)) ELSE NobodyMoves
    BY DEF Kill
  <2> QED
    BY <2>1 DEF Move, NobodyMoves, KernelTyped
<1> QED
  BY <1>1, <1>2 DEF Fresh

(* Where the main loop comes to when it does not stay where it is. *)
LEMMA Arrivals ==
  ASSUME [Next]_vars, pc' # pc
  PROVE  /\ pc' = "addjob" =>
               \E cmd \in Commands : ForkFails(cmd) \/ \E p \in PIDs : Fork(p, cmd)
         /\ pc' = "fg state" => FgKill
         /\ pc' = "sigsuspend" => TestFg
         /\ pc' = "asleep" => Sigsuspend
         /\ pc' = "unblock" => AddJob \/ TestFg
         /\ pc' = "waitfg" => AddJob \/ FgState \/ pc = "asleep"
<1>1. CASE Command
  <2>1. \/ \E cmd \in Commands : ForkFails(cmd) \/ \E p \in PIDs : Fork(p, cmd)
        \/ pc' \in {"bg kill", "fg kill", "read pid", "exited"}
    BY <1>1 DEF Command, FindByPid, FindByJid, Quit, Goto
  <2>2. ASSUME NEW p, NEW cmd, ForkFails(cmd) \/ Fork(p, cmd) PROVE pc' = "addjob"
    BY <2>2 DEF ForkFails, Fork, Goto
  <2> QED
    BY <2>1, <2>2
<1>2. CASE MainStep
  BY <1>2 DEF MainStep, AddJob, Unblock, ReadPid, BgKill, BgState, FgState, FgKill,
              TestFg, Sigsuspend, Goto
<1>3. CASE ~(Command \/ MainStep)
  <2>1. pc' = "crashed" \/ (pc' = "waitfg" /\ pc = "asleep")
    BY <1>3 DEF Next, KeyStep, ReadFgpid, NoForeground, Forward, Deliver, Asleep, MainAt, ChldStep, ReapDead,
         ReportStopped, NoMoreChildren, DeleteJob, StopJob, StopUnlisted, Goto,
         Environment, Type, SetPgid, Exec, Dies, StopsItself, Continues, Gone, shellVars, vars
  <2> QED
    BY <2>1
<1> QED
  BY <1>1, <1>2, <1>3

LEMMA NextFreshStep ==
  ASSUME TypeOK, ListInv, WakeInv, [Next]_vars
  PROVE  NextFresh'
<1> USE TypeOKParts DEF WakeInv
<1>1. UNCHANGED pc /\ pc \in {"addjob", "fg state"} => ~StopJob
  <2>1. SUFFICES ASSUME pc \in {"addjob", "fg state"}, StopJob PROVE FALSE
    OBVIOUS
  <2>2. frames # <<>> /\ Top.sig = "CHLD"
    BY <2>1 DEF StopJob, HandlerAt
  <2>3. Shielded
    BY <2>1 DEF WaitMasked, ListInv, FramesInv, ChldMasked
  <2> QED
    BY <2>2, <2>3, ShieldNoChld
<1>2. ASSUME pc' = "addjob", NEW p \in PIDs, p = pid'
      PROVE  Fresh(p)'
  <2>1. CASE UNCHANGED pc
    <3>1. Fresh(p)
      BY <1>2, <2>1, ShieldedJobs DEF NextFresh
    <3> QED
      BY <1>1, <1>2, <2>1, <3>1, FreshStep
  <2>2. CASE pc' # pc
    <3>1. PICK cmd \in Commands, q \in PIDs : Fork(q, cmd)
      BY <1>2, <2>2, Arrivals, PIDsAssumption DEF ForkFails
    <3>2. child'[p] = "forked"
      BY <1>2, <3>1 DEF Fork, KernelTyped
    <3> QED
      BY <3>2 DEF Fresh
  <2> QED
    BY <2>1, <2>2
<1>3. ASSUME pc' = "fg state", NEW p \in PIDs, p = jobs'[job'].pid
      PROVE  Fresh(p)'
  <2>1. CASE UNCHANGED pc
    <3>1. jobs' = jobs /\ job' = job
      BY <1>3, <2>1, ShieldedJobs
    <3>2. Fresh(p)
      BY <1>3, <2>1, <3>1 DEF NextFresh
    <3> QED
      BY <1>1, <1>3, <2>1, <3>2, FreshStep
  <2>2. CASE pc' # pc
    <3>1. FgKill
      BY <1>3, <2>2, Arrivals
    <3>2. Kill(pid, "CONT") /\ pc = "fg kill" /\ p = jobs[job].pid
      BY <1>3, <3>1 DEF FgKill, MainAt
    <3>3. p = pid
      BY <3>2, PIDsAssumption DEF JobIsPid
    <3> QED
      BY <3>2, <3>3, ContinuedIsFresh
  <2> QED
    BY <2>1, <2>2
<1>4. pc' = "addjob" /\ pid' \in PIDs => Fresh(pid)'
  BY <1>2 DEF Fresh, Recorded
<1>5. pc' = "fg state" /\ jobs'[job'].pid \in PIDs => Fresh(jobs[job].pid)'
  BY <1>3 DEF Fresh, Recorded
<1> QED
  BY <1>4, <1>5 DEF NextFresh

LEMMA SleepsForFgStep ==
  ASSUME TypeOK, ListInv, WakeInv, [Next]_vars
  PROVE  SleepsForFg'
<1> USE DEF WakeInv
<1>1. SUFFICES ASSUME pc' \in {"sigsuspend", "asleep"}, pid' \in PIDs
               PROVE  \E s \in Slots : jobs'[s].pid = pid' /\ jobs'[s].state = "FG"
  BY DEF SleepsForFg
<1>2. CASE UNCHANGED pc
  BY <1>1, <1>2, ShieldedJobs DEF SleepsForFg
<1>3. CASE pc' # pc
  <2>1. CASE TestFg
    <3>1. pid = fgpid(jobs) /\ UNCHANGED <<jobs, pid>>
      BY <1>1, <2>1 DEF TestFg, Goto
    <3> QED
      BY <1>1, <3>1, fgpidSpec, PIDsAssumption
  <2>2. CASE Sigsuspend
    BY <1>1, <2>2 DEF Sigsuspend, MainAt, SleepsForFg
  <2> QED
    BY <1>1, <1>3, <2>1, <2>2, Arrivals
<1> QED
  BY <1>2, <1>3

LEMMA WakeInvStep ==
  ASSUME TypeOK, JobFound, ListInv, WakeInv, [Next]_vars
  PROVE  WakeInv'
  BY WaitMaskedStep, JobIsPidStep, ForegroundFreshStep, NextFreshStep, SleepsForFgStep
     DEF WakeInv

LEMMA InitWakeInv == Init => WakeInv
<1> SUFFICES ASSUME Init PROVE WakeInv
  OBVIOUS
<1>1. ForegroundFresh
  BY DEF Init, initjobs, ClearedJob, ForegroundFresh
<1> QED
  BY <1>1 DEF Init, WakeInv, WaitMasked, JobIsPid, NextFresh, SleepsForFg

LEMMA WakeInvSleeps ==
  ASSUME TypeOK, NoChildForgotten, ListInv, WakeInv
  PROVE  SleepsForLiveJob
<1> SUFFICES ASSUME Asleep, "CHLD" \notin pending, pid \in PIDs
             PROVE  Running(pid)
  BY DEF SleepsForLiveJob
<1>1. frames = <<>> /\ pc = "asleep"
  BY DEF Asleep, MainAt
<1>2. 1 .. Len(frames) = {}
  <2>1. Len(frames) = 0
    BY <1>1, EmptySeq
  <2> QED
    BY <2>1
<1>3. Waitable = {}
  BY <1>2 DEF NoChildForgotten, Handling
<1>4. PICK s \in Slots : jobs[s].pid = pid /\ jobs[s].state = "FG"
  BY <1>1 DEF WakeInv, SleepsForFg
<1>5. child[pid] # "free"
  BY <1>1, <1>4, NobodyDeleted DEF ListInv, JobsInv, ListedAreChildren
<1>6. child[pid] # "zombie" /\ pid \notin unreported
  BY <1>3 DEF Waitable
<1>7. Fresh(pid)
  BY <1>1, <1>4 DEF WakeInv, ForegroundFresh, Alive
<1>8. child[pid] \notin {"stopped", "doomed"}
  BY <1>2, <1>6, <1>7 DEF Fresh, Recorded
<1> QED
  BY <1>5, <1>6, <1>8 DEF Running, TypeOK, ChildStates

(* No wake-up is lost: the shell never sleeps in waitfg for a job that has *)
(* already died or stopped without a SIGCHLD on its way, however the       *)
(* signals and the keys fall (Shell!SleepsForLiveJob; waitfg, do_bgfg,     *)
(* sigchld_handler).                                                       *)
THEOREM ShellSleepsForLiveJob == Spec => []SleepsForLiveJob
<1>1. Init => TypeOK /\ JobFound /\ NoChildForgotten /\ ListInv /\ WakeInv
  <2>1. Init => NoChildForgotten
    BY DEF Init, NoChildForgotten, Waitable
  <2> QED
    BY <2>1, InitTypeOK, InitListInv, InitWakeInv
<1>2. TypeOK /\ JobFound /\ NoChildForgotten /\ ListInv /\ WakeInv /\ [Next]_vars
        => TypeOK' /\ JobFound' /\ NoChildForgotten' /\ ListInv' /\ WakeInv'
  BY TypeOKStep, JobFoundStep, NoChildForgottenStep, ListInvStep, WakeInvStep
<1>3. TypeOK /\ NoChildForgotten /\ ListInv /\ WakeInv => SleepsForLiveJob
  BY WakeInvSleeps
<1> QED
  BY <1>1, <1>2, <1>3, PTL DEF Spec
-----------------------------------------------------------------------------
(* When the signals are handled nobody is left to report, so that a job in *)
(* the foreground runs.                                                    *)
LEMMA SettledList ==
  ASSUME TypeOK, NoChildForgotten, ListInv, WakeInv
  PROVE  ListIsUpToDate
<1> SUFFICES ASSUME Settled, NEW s \in Slots, jobs[s].pid \in PIDs
             PROVE  /\ child[jobs[s].pid] \notin {"free", "zombie"}
                    /\ jobs[s].state = "FG" => Running(jobs[s].pid)
  BY DEF ListIsUpToDate
<1>1. frames = <<>> /\ "CHLD" \notin pending /\ Alive
  BY DEF Settled
<1>2. 1 .. Len(frames) = {}
  <2>1. Len(frames) = 0
    BY <1>1, EmptySeq
  <2> QED
    BY <2>1
<1>3. Waitable = {}
  BY <1>1, <1>2 DEF NoChildForgotten, Handling
<1>4. child[jobs[s].pid] # "free"
  BY <1>1, NobodyDeleted DEF ListInv, JobsInv, ListedAreChildren
<1>5. child[jobs[s].pid] # "zombie" /\ jobs[s].pid \notin unreported
  BY <1>3 DEF Waitable
<1>6. ASSUME jobs[s].state = "FG" PROVE Running(jobs[s].pid)
  <2>1. Fresh(jobs[s].pid)
    BY <1>1, <1>6 DEF WakeInv, ForegroundFresh
  <2>2. child[jobs[s].pid] \notin {"stopped", "doomed"}
    BY <1>2, <1>5, <2>1 DEF Fresh, Recorded
  <2> QED
    BY <1>4, <1>5, <2>2 DEF Running, TypeOK, ChildStates
<1> QED
  BY <1>4, <1>5, <1>6

(* The job list tells the truth about who lives: while there are no more   *)
(* children than slots it names exactly the children, so that              *)
(* sigchld_handler finds every job it looks for; once the signals are      *)
(* handled no job on it is dead and one in the foreground runs; and what   *)
(* do_bgfg points to is never another job's slot (Shell!ListIsTrue; eval,  *)
(* do_bgfg, sigchld_handler).                                              *)
THEOREM ShellListIsTrue ==
  ASSUME RoomForAll
  PROVE  Spec => []ListIsTrue
<1>1. Init => TypeOK /\ JobFound /\ NoChildForgotten /\ ListInv /\ WakeInv
  <2>1. Init => NoChildForgotten
    BY DEF Init, NoChildForgotten, Waitable
  <2> QED
    BY <2>1, InitTypeOK, InitListInv, InitWakeInv
<1>2. TypeOK /\ JobFound /\ NoChildForgotten /\ ListInv /\ WakeInv /\ [Next]_vars
        => TypeOK' /\ JobFound' /\ NoChildForgotten' /\ ListInv' /\ WakeInv'
  BY TypeOKStep, JobFoundStep, NoChildForgottenStep, ListInvStep, WakeInvStep
<1>3. TypeOK /\ NoChildForgotten /\ ListInv /\ WakeInv => ListIsTrue
  <2>1. SUFFICES ASSUME TypeOK, NoChildForgotten, ListInv, WakeInv PROVE ListIsTrue
    OBVIOUS
  <2>2. SlotIsOwn
    BY <2>1 DEF WakeInv, JobIsPid, SlotIsOwn
  <2>3. ListedAreChildren /\ ChildrenAreListed /\ NeverCrashes
    BY <2>1 DEF ListInv, JobsInv, NobodyLost
  <2> QED
    BY <2>1, <2>2, <2>3, SettledList DEF ListIsTrue
<1> QED
  BY <1>1, <1>2, <1>3, PTL DEF Spec
-----------------------------------------------------------------------------
(* How jobs change, and what the prompt comes back to. *)
SlotChanges(s) ==
    \/ jobs'[s] = jobs[s]
    \/ /\ AddJob /\ pid \in PIDs /\ jobs[s].pid = NoPid /\ jobs'[s].pid = pid
       /\ jobs'[s].state = IF argv = "run" THEN "FG" ELSE "BG"
    \/ /\ jobs'[s].pid = jobs[s].pid
       /\ \/ BgState /\ s = job /\ jobs'[s].state = "BG"
          \/ FgState /\ s = job /\ jobs'[s].state = "FG"
          \/ StopJob /\ jobs'[s].state = "ST"

LEMMA JobsChange ==
  ASSUME TypeOK, [Next]_vars, NEW s \in Slots, jobs'[s].pid \in PIDs
  PROVE  SlotChanges(s)
<1>1. CASE UNCHANGED jobs
  BY <1>1 DEF SlotChanges
<1>2. CASE AddJob
  <2> DEFINE st == IF argv = "run" THEN "FG" ELSE "BG"
  <2>1. jobs' = addjob(jobs, nextjid, pid, st).jobs
    BY <1>2 DEF AddJob
  <2> HIDE DEF st
  <2>2. \/ UNCHANGED jobs
        \/ /\ pid \in PIDs
           /\ \E u \in Slots :
                 /\ jobs[u].pid = NoPid
                 /\ jobs' = [jobs EXCEPT ![u] = [pid |-> pid, jid |-> nextjid, state |-> st]]
    BY <2>1, addjobSpec
  <2>3. \/ jobs'[s] = jobs[s]
        \/ /\ pid \in PIDs /\ jobs[s].pid = NoPid /\ jobs'[s].pid = pid
           /\ jobs'[s].state = st
    BY <2>2, TypeOKParts DEF ListTyped
  <2> QED
    BY <1>2, <2>3 DEF SlotChanges, st
<1>3. CASE DeleteJob
  <2>1. jobs' = jobs \/ \E u \in Slots : jobs' = [jobs EXCEPT ![u] = ClearedJob]
    BY <1>3, deletejobSpec DEF DeleteJob
  <2>2. jobs'[s] = jobs[s]
    BY <2>1, TypeOKParts, PIDsAssumption DEF ClearedJob, ListTyped
  <2> QED
    BY <2>2 DEF SlotChanges
<1>4. ASSUME NEW u, NEW st \in {"FG", "BG", "ST"}, jobs' = [jobs EXCEPT ![u].state = st]
      PROVE  jobs'[s] = jobs[s] \/ (s = u /\ jobs'[s].pid = jobs[s].pid /\ jobs'[s].state = st)
  BY <1>4, TypeOKParts DEF ListTyped, Job
<1>5. CASE FgState
  BY <1>4, <1>5 DEF FgState, SlotChanges
<1>6. CASE BgState
  BY <1>4, <1>6 DEF BgState, SlotChanges
<1>7. CASE StopJob
  BY <1>4, <1>7 DEF StopJob, SlotChanges
<1> QED
  BY <1>1, <1>2, <1>3, <1>5, <1>6, <1>7
  DEF Next, Command, Fork, FindByPid, ForkFails, FindByJid, Quit,
      MainStep, TestFg, Sigsuspend, Unblock, ReadPid, BgKill, FgKill,
      KeyStep, ReadFgpid, NoForeground, Forward, Deliver,
      ChldStep, ReapDead, ReportStopped, NoMoreChildren, StopUnlisted,
      Environment, Type, SetPgid, Exec, Dies, StopsItself, Continues, Gone, shellVars, vars

(* A job on the list has a state. *)
JobsHaveStates == \A s \in Slots : jobs[s].pid \in PIDs => jobs[s].state \in {"FG", "BG", "ST"}

(* What eval and fg wait for stays in the foreground until it has stopped, *)
(* and they let go of it when waitfg has not seen it there.                *)
AwaitedInForeground ==
    /\ pc = "addjob" => argv \in {"run", "run &"}
    /\ Waiting /\ argv \in ForegroundCommands /\ pid \in PIDs =>
          \A s \in Slots : jobs[s].pid = pid => jobs[s].state \in {"FG", "ST"}
    /\ pc = "unblock" /\ argv \in ForegroundCommands /\ pid \in PIDs => LetGo(pid)

LEMMA AddsJob ==
  ASSUME [Next]_vars, pc = "addjob", pc' \in {"waitfg", "unblock"}
  PROVE  AddJob
<1>1. ~Command
  BY DEF Command, Fork, FindByPid, ForkFails, FindByJid, Quit, MainAt, Goto
<1>2. ASSUME NEW sig, KeyStep(sig) \/ Deliver(sig) PROVE FALSE
  BY <1>2 DEF KeyStep, ReadFgpid, NoForeground, Forward, Deliver, Asleep, MainAt, shellVars
<1>3. ~(ChldStep \/ Environment \/ UNCHANGED vars)
  BY DEF ChldStep, ReapDead, ReportStopped, NoMoreChildren, DeleteJob, StopJob, StopUnlisted,
         Environment, Type, SetPgid, Exec, Dies, StopsItself, Continues, Goto, shellVars, vars
<1>4. MainStep => AddJob
  BY DEF MainStep, TestFg, Sigsuspend, Unblock, ReadPid, BgKill, BgState, FgKill, FgState,
         MainAt
<1> QED
  BY <1>1, <1>2, <1>3, <1>4 DEF Next, Gone

(* Who is waited for is not replaced while eval or fg waits. *)
LEMMA StillAwaited ==
  ASSUME [Next]_vars, pc' \in {"waitfg", "sigsuspend", "asleep"}, ~AddJob, ~FgState
  PROVE  Waiting /\ UNCHANGED <<argv, pid>> /\ ~BgState
<1> USE DEF Waiting
<1>1. ~Command /\ ~BgState
  BY DEF Command, Fork, FindByPid, ForkFails, FindByJid, Quit, BgState, Goto
<1>2. CASE MainStep
  BY <1>1, <1>2 DEF MainStep, TestFg, Sigsuspend, Unblock, ReadPid, BgKill, FgKill, MainAt, Goto
<1>3. ASSUME NEW sig, KeyStep(sig) \/ Deliver(sig)
      PROVE  Waiting /\ UNCHANGED <<argv, pid>>
  BY <1>3 DEF KeyStep, ReadFgpid, NoForeground, Forward, Deliver, Asleep, MainAt, shellVars
<1>4. CASE ChldStep \/ Environment \/ UNCHANGED vars
  BY <1>1, <1>4
  DEF ChldStep, ReapDead, ReportStopped, NoMoreChildren, DeleteJob, StopJob, StopUnlisted,
      Environment, Type, SetPgid, Exec, Dies, StopsItself, Continues, Goto, shellVars, vars
<1> QED
  BY <1>1, <1>2, <1>3, <1>4 DEF Next, Gone

LEMMA JobsHaveStatesStep ==
  ASSUME TypeOK, JobsHaveStates, [Next]_vars
  PROVE  JobsHaveStates'
<1>1. ASSUME NEW s \in Slots, jobs'[s].pid \in PIDs
      PROVE  jobs'[s].state \in {"FG", "BG", "ST"}
  BY <1>1, JobsChange DEF SlotChanges, JobsHaveStates
<1> QED
  BY <1>1 DEF JobsHaveStates

(* eval and fg put the job in the foreground before they wait for it. *)
LEMMA ComesToForeground ==
  ASSUME TypeOK, ListInv, WakeInv, AwaitedInForeground, [Next]_vars,
         AddJob \/ FgState, pc' = "waitfg", pid' \in PIDs,
         NEW s \in Slots, jobs'[s].pid = pid'
  PROVE  jobs'[s].state \in {"FG", "ST"}
<1>1. SlotChanges(s)
  BY JobsChange
<1>2. CASE AddJob
  <2>1. argv = "run" /\ pid' = pid /\ pc = "addjob"
    BY <1>2 DEF AddJob, MainAt, Goto
  <2>2. jobs[s].pid # pid
    BY <2>1 DEF ListInv, JobsInv, NewIsUnlisted, Listed
  <2> QED
    BY <1>1, <2>1, <2>2 DEF SlotChanges
<1>3. CASE FgState
  <2>1. /\ pc = "fg state" /\ UNCHANGED pid
        /\ jobs' = [jobs EXCEPT ![job].state = "FG"]
    BY <1>3 DEF FgState, MainAt
  <2>2. job \in Slots /\ jobs'[s].pid = jobs[s].pid
    BY <2>1, TypeOKParts DEF WakeInv, JobIsPid, ListTyped, Job
  <2>3. s = job
    BY <2>1, <2>2 DEF WakeInv, JobIsPid
  <2> QED
    BY <2>1, <2>3, TypeOKParts DEF ListTyped, Job
<1> QED
  BY <1>2, <1>3

(* While they wait it only stops. *)
LEMMA StaysInForeground ==
  ASSUME TypeOK, AwaitedInForeground, [Next]_vars, ~AddJob, ~FgState, Waiting',
         argv' \in ForegroundCommands, pid' \in PIDs, NEW s \in Slots, jobs'[s].pid = pid'
  PROVE  jobs'[s].state \in {"FG", "ST"}
<1>1. Waiting /\ UNCHANGED <<argv, pid>> /\ ~BgState
  BY StillAwaited DEF Waiting
<1>2. SlotChanges(s)
  BY JobsChange
<1> QED
  BY <1>1, <1>2 DEF SlotChanges, AwaitedInForeground

(* waitfg ends for a job in the foreground only when fgpid named another.  *)
LEMMA TestFgLetsGo ==
  ASSUME AwaitedInForeground, TestFg, pc' = "unblock",
         argv \in ForegroundCommands, pid \in PIDs
  PROVE  LetGo(pid)
<1>1. pid # fgpid(jobs) /\ Waiting
  BY DEF TestFg, Goto, MainAt, Waiting
<1>2. SUFFICES ASSUME NEW s \in Slots, jobs[s].pid = pid, jobs[s].state # "ST"
               PROVE  \E t \in Slots \ {s} : jobs[t].state = "FG"
  BY DEF LetGo
<1>3. jobs[s].state = "FG"
  BY <1>1, <1>2 DEF AwaitedInForeground
<1>4. PICK t \in Slots : jobs[t].state = "FG" /\ fgpid(jobs) = jobs[t].pid
  BY <1>3, fgpidSpec
<1> QED
  BY <1>1, <1>2, <1>4

LEMMA AwaitedStep ==
  ASSUME TypeOK, ListInv, WakeInv, AwaitedInForeground, [Next]_vars
  PROVE  AwaitedInForeground'
<1>1. pc' = "addjob" => argv' \in {"run", "run &"}
  <2>1. CASE UNCHANGED pc
    BY <2>1, ShieldedJobs DEF AwaitedInForeground, WakeInv
  <2>2. CASE pc' # pc
    BY <2>2, Arrivals DEF ForkFails, Fork
  <2> QED
    BY <2>1, <2>2
<1>2. ASSUME Waiting', argv' \in ForegroundCommands, pid' \in PIDs,
             NEW s \in Slots, jobs'[s].pid = pid'
      PROVE  jobs'[s].state \in {"FG", "ST"}
  <2>1. CASE AddJob \/ FgState
    <3>1. pc' = "waitfg"
      BY <1>2, <2>1 DEF AddJob, FgState, Goto, Waiting
    <3> QED
      BY <1>2, <2>1, <3>1, ComesToForeground
  <2>2. CASE ~(AddJob \/ FgState)
    BY <1>2, <2>2, StaysInForeground
  <2> QED
    BY <2>1, <2>2
<1>3. ASSUME pc' = "unblock", argv' \in ForegroundCommands, pid' \in PIDs
      PROVE  LetGo(pid)'
  <2>1. CASE UNCHANGED pc
    <3>1. UNCHANGED <<jobs, argv, pid>>
      BY <1>3, <2>1, ShieldedJobs DEF WakeInv
    <3> QED
      BY <1>3, <2>1, <3>1 DEF AwaitedInForeground, LetGo
  <2>2. CASE pc' # pc
    <3>1. ~AddJob
      BY <1>3 DEF AddJob, MainAt, Goto, AwaitedInForeground, ForegroundCommands
    <3>2. TestFg
      BY <1>3, <2>2, <3>1, Arrivals
    <3>3. UNCHANGED <<jobs, argv, pid>>
      BY <3>2 DEF TestFg
    <3> QED
      BY <1>3, <3>2, <3>3, TestFgLetsGo DEF LetGo
  <2> QED
    BY <2>1, <2>2
<1> QED
  BY <1>1, <1>2, <1>3 DEF AwaitedInForeground

(* Only the restored mask brings eval and fg back to the prompt, and when  *)
(* it does the job is off the list or stopped on it, unless another slot   *)
(* is in state FG: with fg and without (Shell!WaitsForForeground; eval,    *)
(* do_bgfg, waitfg, sigchld_handler).                                      *)
THEOREM ShellWaitsForForeground == Spec => WaitsForForeground
<1>1. Init => AwaitedInForeground
  BY DEF Init, AwaitedInForeground, Waiting
<1>2. TypeOK /\ JobFound /\ ListInv /\ WakeInv /\ AwaitedInForeground /\ [Next]_vars
        => TypeOK' /\ JobFound' /\ ListInv' /\ WakeInv' /\ AwaitedInForeground'
  BY TypeOKStep, JobFoundStep, ListInvStep, WakeInvStep, AwaitedStep
<1>3. AwaitedInForeground /\ [Next]_vars
        => [pc = "unblock" /\ argv \in ForegroundCommands /\ pid \in PIDs /\ pc' = "prompt"
              => LetGo(pid)]_vars
  BY DEF AwaitedInForeground
<1> QED
  BY <1>1, <1>2, <1>3, InitTypeOK, InitListInv, InitWakeInv, PTL DEF Spec, WaitsForForeground

(* Without fg. *)
NoFgInv == TypeOK /\ JobFound /\ ForegroundInv /\ ListInv /\ JobsHaveStates

LEMMA NoFgInvStep == ASSUME NoFg, NoFgInv, [Next]_vars PROVE NoFgInv'
BY TypeOKStep, JobFoundStep, NoFgPathStep, ForegroundStep, ListInvStep, JobsHaveStatesStep
   DEF NoFgInv, ForegroundInv

LEMMA InitNoFgInv == Init => NoFgInv
<1> SUFFICES ASSUME Init PROVE NoFgInv
  OBVIOUS
<1>1. JobsHaveStates
  BY PIDsAssumption DEF Init, initjobs, ClearedJob, JobsHaveStates
<1> QED
  BY <1>1, InitTypeOK, InitForegroundInv, InitListInv DEF NoFgInv

LEMMA addjobWrites ==
  ASSUME NEW st, jobs' = addjob(jobs, nextjid, pid, st).jobs
  PROVE  \/ /\ pid \in PIDs
            /\ \E s \in Slots :
                  /\ jobs[s].pid = NoPid
                  /\ jobs' = [jobs EXCEPT ![s] = [pid |-> pid, jid |-> nextjid, state |-> st]]
         \/ jobs' = jobs /\ (pid \notin PIDs \/ \A s \in Slots : jobs[s].pid # NoPid)
BY addjobSpec

LEMMA LosesOnlyIfFull ==
  ASSUME NoFgInv, [Next]_vars, pc = "addjob", pid \in PIDs, pc' \in {"waitfg", "unblock"}
  PROVE  Listed(pid)' \/ \A s \in Slots : jobs[s].pid \in Children \ {pid}
<1> DEFINE st == IF argv = "run" THEN "FG" ELSE "BG"
<1> USE DEF NoFgInv
<1>1. frames = <<>> /\ jobs' = addjob(jobs, nextjid, pid, st).jobs /\ pid' = pid
  BY AddsJob DEF AddJob, MainAt
<1> HIDE DEF st
<1>2. \/ \E s \in Slots : jobs' = [jobs EXCEPT ![s] = [pid |-> pid, jid |-> nextjid, state |-> st]]
      \/ \A s \in Slots : jobs[s].pid # NoPid
  BY <1>1, addjobWrites
<1>3. CASE \E s \in Slots : jobs' = [jobs EXCEPT ![s] = [pid |-> pid, jid |-> nextjid, state |-> st]]
  <2>1. \E s \in Slots : jobs'[s].pid = pid
    BY <1>3, TypeOKParts DEF ListTyped
  <2> QED
    BY <1>1, <2>1 DEF Listed
<1>4. CASE \A s \in Slots : jobs[s].pid # NoPid
  <2>1. ASSUME NEW s \in Slots PROVE jobs[s].pid \in Children \ {pid}
    <3>1. jobs[s].pid \in PIDs
      BY <1>4, TypeOKParts DEF ListTyped, Job
    <3>2. child[jobs[s].pid] # "free"
      BY <1>1, <3>1, NobodyDeleted DEF ListInv, JobsInv, ListedAreChildren
    <3>3. jobs[s].pid # pid
      BY DEF ListInv, JobsInv, NewIsUnlisted, Listed
    <3> QED
      BY <3>1, <3>2, <3>3 DEF Children
  <2> QED
    BY <2>1
<1> QED
  BY <1>2, <1>3, <1>4

LEMMA ThreeTransitions ==
  ASSUME NoFgInv, [Next]_vars, NEW s \in Slots,
         jobs[s].pid \in PIDs, jobs'[s].pid = jobs[s].pid
  PROVE  \/ jobs'[s].state = jobs[s].state
         \/ <<jobs[s].state, jobs'[s].state>> \in
               {<<"FG", "ST">>, <<"ST", "BG">>, <<"BG", "ST">>}
<1> USE DEF NoFgInv
<1>1. SlotChanges(s)
  BY JobsChange
<1>2. jobs[s].state \in {"FG", "BG", "ST"}
  BY DEF JobsHaveStates
<1>3. BgState => jobs[s].state # "FG"
  BY DEF BgState, MainAt, ForegroundInv, ForegroundIsWaitedFor, Alive, Waiting
<1>4. ~FgState
  BY DEF FgState, MainAt, ForegroundInv, NoFgPath
<1> QED
  BY <1>1, <1>2, <1>3, <1>4, PIDsAssumption DEF SlotChanges

(* In a session without fg a job is lost only when every slot is taken by  *)
(* another child, and changes its state in three ways only: from FG or BG  *)
(* to ST, and from ST to BG (Shell!JobsChangeWithoutFg; eval, do_bgfg,     *)
(* sigchld_handler, addjob).                                               *)
THEOREM ShellJobsChangeWithoutFg ==
  ASSUME NoFg
  PROVE  Spec => JobsChangeWithoutFg
<1>1. NoFgInv /\ [Next]_vars => NoFgInv'
  BY NoFgInvStep
<1>2. NoFgInv /\ [Next]_vars
        => [pc = "addjob" /\ pid \in PIDs /\ pc' \in {"waitfg", "unblock"}
              => Listed(pid)' \/ \A s \in Slots : jobs[s].pid \in Children \ {pid}]_vars
  BY LosesOnlyIfFull
<1>3. NoFgInv /\ [Next]_vars
        => [\A s \in Slots : jobs[s].pid \in PIDs /\ jobs'[s].pid = jobs[s].pid
              => \/ jobs'[s].state = jobs[s].state
                 \/ <<jobs[s].state, jobs'[s].state>> \in
                       {<<"FG", "ST">>, <<"ST", "BG">>, <<"BG", "ST">>}]_vars
  BY ThreeTransitions
<1> QED
  BY <1>1, <1>2, <1>3, InitNoFgInv, PTL
     DEF Spec, JobsChangeWithoutFg, OnlyAFullListLosesJobs, TransitionsWithoutFg
=============================================================================
