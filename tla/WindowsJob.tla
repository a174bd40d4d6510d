------------------------------ MODULE WindowsJob ------------------------------
(***************************************************************************)
(* The Windows runtime Job (internal/platform/runtime_job_windows.go).  A  *)
(* daemon puts itself into a named Job that kills its members when the     *)
(* last handle closes; an observer opens the Job by name and a process by  *)
(* PID, has the kernel confirm that the one is a member of the other, and  *)
(* terminates the tree.  PIDs are reused.  The observer's threads use and  *)
(* close the same capabilities concurrently.                               *)
(***************************************************************************)
EXTENDS Integers, Sequences, FiniteSets

CONSTANTS Pids, Threads, MaxSerial,
          Daemons,   \* the processes, by order of birth, that are daemons
          Does       \* what each thread of the observer calls

VARIABLES procs,   \* every process that ran: PID, tree (its daemon), Job, running
          jobs,    \* named Jobs: limit flags and the handles that hold them
          cap,     \* the observer's capabilities and their lifetimes
          thread   \* the observer's threads

wjVars == <<procs, jobs, cap, thread>>

Serials == 1..MaxSerial
None0 == 0
Capabilities == {"job", "process", "term"}
Operations0 == {"active", "verify", "exited", "terminate"}
(* The capabilities an operation begins, one after the other.              *)
Needs == [o \in Operations0 |->
            CASE o = "active" -> <<"job">> [] o = "verify" -> <<"job", "process">>
              [] o = "exited" -> <<"process">> [] o = "terminate" -> <<"term">>]
Unowned == [job |-> None0, process |-> None0, open |-> FALSE, closed |-> FALSE, token |-> "free"]
AtRest == [at |-> "rest", op |-> "none", turn |-> 1, seen |-> "nothing"]

WjInit ==
  /\ procs = [s \in {} |-> None0]
  /\ jobs = [s \in Daemons |-> [limit |-> "none", handles |-> {}]]
  /\ cap = [c \in Capabilities |-> Unowned]
  /\ thread = [t \in Threads |-> AtRest]

Ran == DOMAIN procs
Running(s) == s \in Ran /\ procs[s].up
FreePid(pid) == \A s \in Ran : procs[s].up => procs[s].pid # pid
Members(j) == {s \in Ran : procs[s].job = j /\ procs[s].up}
Kill(dead) == [s \in Ran |-> IF s \in dead THEN [procs[s] EXCEPT !.up = FALSE] ELSE procs[s]]
(* The kernel closes one handle: the last one of a Job kills its members.  *)
Dropped(j, h) == [jobs EXCEPT ![j].handles = @ \ {h}]
KilledBy(j, h) ==
  IF jobs[j].handles = {h} /\ jobs[j].limit # "none" THEN Members(j) ELSE {}
CloseJobHandle(j, h) == jobs' = Dropped(j, h) /\ procs' = Kill(KilledBy(j, h))

-----------------------------------------------------------------------------
(* A process starts with the lowest PID no running process has (so that    *)
(* PIDs are reused as soon as they can be): an unrelated one, a            *)
(* daemon about to create its Job, or a child, which stays in the Job of   *)
(* its parent unless it can break away.                                    *)
Born(s, pid, tree, job, stage) ==
  procs' = [r \in Ran \cup {s} |-> IF r = s THEN [pid |-> pid, tree |-> tree, job |-> job,
                                                  up |-> TRUE, stage |-> stage] ELSE procs[r]]
(* configureJob sets neither breakaway flag, and verifyJob refuses both.   *)
Breaks(j) == {j}

StartProcess ==
  /\ Cardinality(Ran) < MaxSerial
  /\ \E q \in Pids : FreePid(q)
  /\ LET s == Cardinality(Ran) + 1
         pid == CHOOSE q \in Pids : FreePid(q) /\ \A r \in Pids : FreePid(r) => q <= r IN
       \/ Born(s, pid, s, None0, IF s \in Daemons THEN "create" ELSE "other")
       \/ \E d \in Ran : /\ Running(d) /\ procs[d].stage = "runs"
                         /\ \E j \in Breaks(procs[d].job) : Born(s, pid, procs[d].tree, j, "child")
  /\ UNCHANGED <<jobs, cap, thread>>

Stage(d, stage) == procs' = [procs EXCEPT ![d].stage = stage]

(* createWindowsRuntimeJob: create, configure, join, verify; a failure     *)
(* closes the Job, which by then may hold the daemon itself.               *)
CreateJob(d) ==
  /\ Running(d) /\ procs[d].stage = "create"
  /\ jobs' = [jobs EXCEPT ![d].handles = @ \cup {"owner"}] /\ Stage(d, "configure")
  /\ UNCHANGED <<cap, thread>>

SetLimits(d) == jobs' = [jobs EXCEPT ![d].limit = "kill"]
ConfigureJob(d) ==
  /\ Running(d) /\ procs[d].stage = "configure" /\ SetLimits(d) /\ Stage(d, "assign")
  /\ UNCHANGED <<cap, thread>>

AssignUnconfigured(d) ==
  /\ Running(d) /\ procs[d].stage \in {"configure", "assign"}
  /\ procs' = [procs EXCEPT ![d].job = d, ![d].stage = "verify"]
  /\ UNCHANGED <<jobs, cap, thread>>
AssignProcess(d) ==
  /\ Running(d) /\ procs[d].stage = "assign"
  /\ procs' = [procs EXCEPT ![d].job = d, ![d].stage = "verify"]
  /\ UNCHANGED <<jobs, cap, thread>>

VerifyOwner(d) ==
  /\ Running(d) /\ procs[d].stage = "verify" /\ Stage(d, "runs")
  /\ UNCHANGED <<jobs, cap, thread>>

CreateFails(d) ==
  /\ Running(d) /\ procs[d].stage \in {"configure", "assign", "verify"}
  /\ jobs' = Dropped(d, "owner")
  /\ procs' = [Kill(KilledBy(d, "owner")) EXCEPT ![d].stage = "failed"]
  /\ UNCHANGED <<cap, thread>>

(* A process exits: the owner's Job handle goes with it.                   *)
ExitProcess(s) ==
  /\ Running(s)
  /\ IF s \in Daemons /\ "owner" \in jobs[s].handles
     THEN jobs' = Dropped(s, "owner") /\ procs' = Kill({s} \cup KilledBy(s, "owner"))
     ELSE jobs' = jobs /\ procs' = Kill({s})
  /\ UNCHANGED <<cap, thread>>

-----------------------------------------------------------------------------
(* verifyJob: protected, kills on close, no breakaway.                     *)
VerifyJob(j) == jobs[j].limit = "kill"
Acquire(c, v) == cap' = [cap EXCEPT ![c] = v]

OpenRuntimeJob ==
  /\ cap["job"] = Unowned
  /\ \E j \in Daemons :
       /\ jobs[j].handles # {} /\ VerifyJob(j)
       /\ Acquire("job", [Unowned EXCEPT !.job = j, !.open = TRUE])
       /\ jobs' = [jobs EXCEPT ![j].handles = @ \cup {"job"}]
  /\ UNCHANGED <<procs, thread>>

(* openWindowsProcessIdentity: whichever process has the PID now.          *)
OpenProcessIdentity ==
  /\ cap["process"] = Unowned
  /\ \E s \in Ran : /\ Running(s)
                    /\ Acquire("process", [Unowned EXCEPT !.process = s, !.open = TRUE])
  /\ UNCHANGED <<procs, jobs, thread>>

Do0(t, next) == thread' = [thread EXCEPT ![t] = next]
Turn(t) == Needs[thread[t].op][thread[t].turn]
HeldBy(t) == {c \in Capabilities : cap[c].token = t}
GiveBack(t) == cap' = [c \in Capabilities |-> IF cap[c].token = t THEN [cap[c] EXCEPT !.token = "free"] ELSE cap[c]]

(* begin: closed is refused ...                                            *)
BeginOperation(t) ==
  /\ thread[t].at = "rest"
  /\ \E o \in Operations0 \cap Does[t] :
       /\ \A i \in DOMAIN Needs[o] : cap[Needs[o][i]] # Unowned
       /\ IF cap[Needs[o][1]].closed THEN Do0(t, AtRest)
          ELSE Do0(t, [AtRest EXCEPT !.at = "waits", !.op = o])
  /\ UNCHANGED <<procs, jobs, cap>>

(* ... the one token is taken ...                                          *)
TakeToken(t) ==
  /\ thread[t].at = "waits" /\ cap[Turn(t)].token = "free"
  /\ cap' = [cap EXCEPT ![Turn(t)].token = t]
  /\ Do0(t, [thread[t] EXCEPT !.at = "took"])
  /\ UNCHANGED <<procs, jobs>>

(* ... unless the capability is being closed, or the caller gives up ...   *)
GiveUp(t) ==
  /\ thread[t].at = "waits" /\ GiveBack(t) /\ Do0(t, AtRest)
  /\ UNCHANGED <<procs, jobs>>

(* ... and closed is looked at once more under the token.                  *)
RecheckClosed(t) ==
  /\ thread[t].at = "took"
  /\ IF cap[Turn(t)].closed \/ cap[Needs[thread[t].op][Len(Needs[thread[t].op])]].closed
     THEN GiveBack(t) /\ Do0(t, AtRest)
     ELSE /\ UNCHANGED cap
          /\ IF thread[t].turn = Len(Needs[thread[t].op])
             THEN Do0(t, [thread[t] EXCEPT !.at = "native"])
             ELSE Do0(t, [thread[t] EXCEPT !.at = "waits", !.turn = 2])
  /\ UNCHANGED <<procs, jobs>>

IsProcessInJob(s, j) == procs[s].job = j
Finish0(t, seen) == GiveBack(t) /\ Do0(t, [AtRest EXCEPT !.at = "answer", !.seen = seen])

(* The caller has the answer and goes on.                                  *)
Answered(t) ==
  /\ thread[t].at = "answer" /\ Do0(t, AtRest)
  /\ UNCHANGED <<procs, jobs, cap>>

ActiveProcesses(t) ==
  /\ thread[t].at = "native" /\ thread[t].op = "active"
  /\ Finish0(t, IF Members(cap["job"].job) = {} THEN "empty" ELSE "busy")
  /\ UNCHANGED <<procs, jobs>>

(* Exited asks the held handle, not whoever has the PID.                   *)
Exited(t) ==
  /\ thread[t].at = "native" /\ thread[t].op = "exited"
  /\ Finish0(t, IF Running(cap["process"].process) THEN "alive" ELSE "exited")
  /\ UNCHANGED <<procs, jobs>>

(* VerifyMember: both handles are duplicated into a termination capability *)
(* once the kernel says that the process is in the Job.                    *)
VerifyMember(t) ==
  /\ thread[t].at = "native" /\ thread[t].op = "verify"
  /\ LET j == cap["job"].job  s == cap["process"].process IN
     IF cap["term"] = Unowned /\ IsProcessInJob(s, j)
     THEN /\ cap' = [c \in Capabilities |->
                       IF c = "term" THEN [Unowned EXCEPT !.job = j, !.process = s, !.open = TRUE]
                       ELSE [cap[c] EXCEPT !.token = IF @ = t THEN "free" ELSE @]]
          /\ jobs' = [jobs EXCEPT ![j].handles = @ \cup {"term"}]
     ELSE GiveBack(t) /\ UNCHANGED jobs
  /\ Do0(t, AtRest)
  /\ UNCHANGED procs

(* Terminate: membership is asked again, then every member is killed.      *)
TerminateJob(j) == Kill(Members(j))
Terminate(t) ==
  /\ thread[t].at = "native" /\ thread[t].op = "terminate"
  /\ IF IsProcessInJob(cap["term"].process, cap["term"].job)
     THEN procs' = TerminateJob(cap["term"].job) ELSE UNCHANGED procs
  /\ GiveBack(t) /\ Do0(t, AtRest)
  /\ UNCHANGED jobs

(* closeWith: mark closed; later closers wait for the first one.           *)
BeginClose(t) ==
  /\ thread[t].at = "rest"
  /\ \E c \in Capabilities \cap Does[t] :
       /\ cap[c] # Unowned
       /\ Acquire(c, [cap[c] EXCEPT !.closed = TRUE])
       /\ Do0(t, [AtRest EXCEPT !.at = IF cap[c].closed THEN "joins" ELSE "closes", !.op = c])
  /\ UNCHANGED <<procs, jobs>>

MayClose(t, c) == cap[c].token = "free"
CloseNative(t) ==
  /\ thread[t].at = "closes"
  /\ LET c == thread[t].op IN
     /\ MayClose(t, c)
     /\ cap' = [cap EXCEPT ![c].open = FALSE, ![c].token = t]
     /\ IF c = "process" THEN UNCHANGED <<procs, jobs>> ELSE CloseJobHandle(cap[c].job, c)
  /\ Do0(t, AtRest)

JoinAtOnce(c) == TRUE
CloseDone(c) == ~cap[c].open
JoinClose(t) ==
  /\ thread[t].at = "joins" /\ CloseDone(thread[t].op)
  /\ Do0(t, AtRest)
  /\ UNCHANGED <<procs, jobs, cap>>

WjNext ==
  \/ StartProcess
  \/ \E s \in Ran : \/ CreateJob(s) \/ ConfigureJob(s) \/ AssignProcess(s) \/ VerifyOwner(s)
                    \/ CreateFails(s) \/ ExitProcess(s)
  \/ OpenRuntimeJob \/ OpenProcessIdentity
  \/ \E t \in Threads :
       \/ BeginOperation(t) \/ TakeToken(t) \/ GiveUp(t) \/ RecheckClosed(t)
       \/ Answered(t) \/ ActiveProcesses(t) \/ Exited(t) \/ VerifyMember(t)
       \/ Terminate(t) \/ BeginClose(t) \/ CloseNative(t) \/ JoinClose(t)

WjSpec == WjInit /\ [][WjNext]_wjVars

-----------------------------------------------------------------------------
(* The variables keep their shape, and a running member's Job kills it     *)
(* when the last handle closes: no tree outlives all who hold its Job.     *)
WjTypeOK ==
  /\ \A s \in Ran : procs[s].pid \in Pids /\ procs[s].tree \in Serials /\ procs[s].job \in 0..MaxSerial
  /\ \A t \in Threads : thread[t].turn \in 1..2
  /\ \A s \in Ran : Running(s) /\ procs[s].job # None0 => jobs[procs[s].job].handles # {}
  /\ \A s \in Ran : procs[s].stage \in {"verify", "runs"} => jobs[s].limit # "none"

(* No thread is inside a native call on a handle that another one closed.  *)
UsesOpenHandles ==
  \A t \in Threads : thread[t].at = "native" =>
    \A i \in DOMAIN Needs[thread[t].op] : cap[Needs[thread[t].op][i]].open

(* A Close that returns leaves the handle closed, whoever closed it first. *)
CloseMeansClosed ==
  \A t \in Threads :
    thread[t].at \in {"closes", "joins"} /\ thread'[t].at = "rest"
      => ~cap'[thread[t].op].open

(* Terminate kills the tree of the process whose identity was opened, and  *)
(* nothing else, whoever has taken over that PID in the meantime.          *)
KillsOneTree ==
  \A t \in Threads :
    thread[t].at = "native" /\ thread[t].op = "terminate" /\ thread'[t].at = "rest" =>
      \A s \in Ran : procs[s].up /\ ~procs'[s].up
                       => procs[s].tree = procs[cap["term"].process].tree

(* An empty Job means that the daemon and all its descendants are gone.    *)
EmptyMeansGone ==
  \A t \in Threads :
    thread[t].at = "native" /\ thread'[t].seen = "empty" =>
      \A s \in Ran : procs[s].tree = cap["job"].job /\ procs[s].stage \in {"verify", "runs", "child"} => ~procs[s].up

(* Exited speaks of the process that was opened, not of its PID.           *)
ExitedIsTheHeldOne ==
  \A t \in Threads :
    thread[t].at = "native" /\ thread[t].op = "exited" /\ thread'[t].at = "answer" =>
      (thread'[t].seen = "exited") = ~procs[cap["process"].process].up

\* Everything above that a reachable state promises.
WjSafe ==
  /\ WjTypeOK /\ UsesOpenHandles

\* Everything above that a step promises.
WjStepOK ==
  /\ CloseMeansClosed /\ KillsOneTree /\ EmptyMeansGone /\ ExitedIsTheHeldOne
=============================================================================
