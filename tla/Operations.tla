----------------------------- MODULE Operations -----------------------------
(***************************************************************************)
(* What a control request goes through in internal/runtime and             *)
(* internal/state: doOperation, which runs each operation ID once and      *)
(* answers repetitions from a bounded table, the maintenance token, the    *)
(* If-Revision check, the mutation, and Coordinator.Do, which publishes    *)
(* the next revision.                                                      *)
(***************************************************************************)
EXTENDS Integers, FiniteSets

CONSTANTS
  Requests,    \* goroutines serving a request, each serves one
  Keys,        \* operation kinds with their IDs
  Limit,       \* entries the table may hold (256 in the code)
  MaxRevision, \* bound: background observations stop here
  Reinstalls,  \* the keys of reinstallations
  NoKey        \* an operation without an ID

VARIABLES
  table,       \* Manager.operations: key -> the request that made its entry
  answered,    \* the requests whose entry.done is closed
  call,        \* where each request stands
  holder,      \* who holds Manager.maintenance
  revision,    \* Snapshot.Revision in the store
  latched,     \* Manager.mutationDegraded
  shut,        \* Manager.closing
  repair,      \* Manager.coreRecovery
  forgotten    \* history: keys evicted, or run beside a full table

opsVars == <<table, answered, call, holder, revision, latched, shut, repair, forgotten>>

NoRequest == "nobody"
NoRev  == -1

ASSUME NamesAssumption == NoRequest \notin Requests /\ NoKey \notin Keys
ASSUME LimitAssumption == IsFiniteSet(Keys) /\ Limit \in Nat

\* key, rev: what the request names; entry: the request whose entry it runs or
\* waits for; acted: whether its mutation took effect.
NewCall == [at |-> "new", key |-> NoKey, rev |-> NoRev, entry |-> NoRequest,
            acted |-> FALSE, result |-> "none"]

CallPlaces  == {"new", "wait", "ready", "lock", "held", "publish", "settle", "done"}
Results == {"none", "ok", "failed", "conflict", "refused", "cancelled"}
\* Results that tell the caller that nothing was changed.
Clean   == {"conflict", "refused", "cancelled"}

CallTo(r, p) == call' = [call EXCEPT ![r].at = p]
Settle(r, res) == call' = [call EXCEPT ![r].at = "settle", ![r].result = res]
ReturnCall(r, res) == call' = [call EXCEPT ![r].at = "done", ![r].result = res]

OpsInit ==
  /\ table = [k \in Keys |-> NoRequest]
  /\ answered = {}
  /\ call = [r \in Requests |-> NewCall]
  /\ holder = NoRequest
  /\ revision = 0
  /\ latched = FALSE
  /\ shut = FALSE
  /\ repair \in BOOLEAN
  /\ forgotten = {}

Stored == {k \in Keys : table[k] # NoRequest}

\* The request r for key k, naming revision rev, starts at place p under entry e.
Start(r, k, rev, p, e) ==
  /\ call[r].at = "new" /\ ~shut
  /\ call' = [call EXCEPT ![r] = [@ EXCEPT !.at = p, !.key = k, !.rev = rev, !.entry = e]]

\* A request without an ID runs without an entry.
RunAnonymous(r, rev) ==
  /\ Start(r, NoKey, rev, "ready", NoRequest)
  /\ UNCHANGED <<table, answered, holder, revision, latched, shut, repair, forgotten>>

\* A known ID: wait for the entry, running or done.
Repeat(r, k) ==
  /\ k \in Stored
  /\ Start(r, k, NoRev, "wait", table[k])
  /\ UNCHANGED <<table, answered, holder, revision, latched, shut, repair, forgotten>>

\* Entries the eviction loop may drop: it stops as soon as there is room, and
\* the map iterates in any order.
Evictable == {k \in Stored : table[k] \in answered}

\* A new ID gets an entry; at the limit a finished one makes room for it.
Insert(r, k, rev) ==
  /\ k \notin Stored
  /\ Start(r, k, rev, "ready", r)
  /\ \/ /\ Cardinality(Stored) < Limit
        /\ table' = [table EXCEPT ![k] = r]
        /\ UNCHANGED forgotten
     \/ /\ Cardinality(Stored) >= Limit
        /\ \E old \in Evictable :
             /\ table' = [table EXCEPT ![old] = NoRequest, ![k] = r]
             /\ forgotten' = forgotten \cup {old}
  /\ UNCHANGED <<answered, holder, revision, latched, shut, repair>>

\* The table is full of running operations: run without an entry.
Bypass(r, k, rev) ==
  /\ k \notin Stored /\ Cardinality(Stored) >= Limit /\ Evictable = {}
  /\ Start(r, k, rev, "ready", NoRequest)
  /\ forgotten' = forgotten \cup {k}
  /\ UNCHANGED <<table, answered, holder, revision, latched, shut, repair>>

\* The first answer is given to every repetition.
RequestAnswered(r) ==
  /\ call[r].at = "wait" /\ call[r].entry \in answered
  /\ ReturnCall(r, call[call[r].entry].result)
  /\ UNCHANGED <<table, answered, holder, revision, latched, shut, repair, forgotten>>

\* The client of a waiting repetition leaves.
LeaveWait(r) ==
  /\ call[r].at = "wait"
  /\ ReturnCall(r, "cancelled")
  /\ UNCHANGED <<table, answered, holder, revision, latched, shut, repair, forgotten>>

\* executeOnce begins: while the core needs a reinstallation nothing else runs.
Execute(r) ==
  /\ call[r].at = "ready"
  /\ IF repair /\ call[r].key \notin Reinstalls THEN Settle(r, "refused") ELSE CallTo(r, "lock")
  /\ UNCHANGED <<table, answered, holder, revision, latched, shut, repair, forgotten>>

\* Mutant: If-Revision is not compared once the token is held.
LockUnchecked(r) ==
  /\ call[r].at = "lock" /\ holder = NoRequest
  /\ IF shut \/ latched THEN Settle(r, "refused") /\ UNCHANGED holder
     ELSE CallTo(r, "held") /\ holder' = r
  /\ UNCHANGED <<table, answered, revision, latched, shut, repair, forgotten>>

\* lockMutation and the checks of withControllerMutation behind it.
LockMutation(r) ==
  /\ call[r].at = "lock" /\ holder = NoRequest
  /\ \/ (shut \/ latched) /\ Settle(r, "refused") /\ UNCHANGED holder
     \/ /\ ~shut /\ ~latched /\ call[r].rev \notin {NoRev, revision}
        /\ Settle(r, "conflict") /\ UNCHANGED holder
     \/ /\ ~shut /\ ~latched /\ call[r].rev \in {NoRev, revision}
        /\ CallTo(r, "held") /\ holder' = r
  /\ UNCHANGED <<table, answered, revision, latched, shut, repair, forgotten>>

\* The request's context ends while it waits for the token.
LeaveLock(r) ==
  /\ call[r].at = "lock"
  /\ Settle(r, "cancelled")
  /\ UNCHANGED <<table, answered, holder, revision, latched, shut, repair, forgotten>>

\* The mutation takes effect, or fails with or without having had one (the core
\* answered an error, or its answer was lost).
Mutate(r) ==
  /\ call[r].at = "held"
  /\ \E acted, ok \in BOOLEAN :
       /\ ok => acted
       /\ call' = [call EXCEPT ![r].acted = acted,
                               ![r].at = IF ok THEN "publish" ELSE "settle",
                               ![r].result = IF ok THEN "none" ELSE "failed"]
       /\ holder' = IF ok THEN r ELSE NoRequest
  /\ UNCHANGED <<table, answered, revision, latched, shut, repair, forgotten>>

\* Coordinator.Do on behalf of the mutation, with a context that is not
\* cancelled and without If-Revision; then the deferred unlock.
Publish(r) ==
  /\ call[r].at = "publish"
  /\ revision' = revision + 1
  /\ repair' = (repair /\ call[r].key \notin Reinstalls)
  /\ Settle(r, "ok")
  /\ holder' = NoRequest
  /\ UNCHANGED <<table, answered, latched, shut, forgotten>>

\* Mutant: the failed compensation is published without the caller's unlock.
PublishKeepsToken(r) ==
  /\ call[r].at = "publish"
  /\ revision' = revision + 1
  /\ latched' = TRUE
  /\ Settle(r, "failed")
  /\ UNCHANGED <<table, answered, holder, shut, repair, forgotten>>

\* A compensation failed: CommittedError stores the next snapshot and its
\* revision although the caller gets an error, and the latch is set.
PublishCommittedError(r) ==
  /\ call[r].at = "publish"
  /\ revision' = revision + 1
  /\ latched' = TRUE
  /\ Settle(r, "failed")
  /\ holder' = NoRequest
  /\ UNCHANGED <<table, answered, shut, repair, forgotten>>

\* Mutant: entry.done is closed for successes only.
FinishOnSuccess(r) ==
  /\ call[r].at = "settle"
  /\ CallTo(r, "done")
  /\ answered' = answered \cup (IF call[r].result = "ok" THEN {r} \cap {call[r].entry} ELSE {})
  /\ UNCHANGED <<table, holder, revision, latched, shut, repair, forgotten>>

\* doOperation stores the answer, closes entry.done and returns it.
Finish(r) ==
  /\ call[r].at = "settle"
  /\ CallTo(r, "done")
  /\ answered' = answered \cup ({r} \cap {call[r].entry})
  /\ UNCHANGED <<table, holder, revision, latched, shut, repair, forgotten>>

\* setCoreState from the supervisor's observations.
SetCoreState ==
  /\ holder = NoRequest /\ ~shut
  /\ revision < MaxRevision
  /\ revision' = revision + 1
  /\ UNCHANGED <<table, answered, call, holder, latched, shut, repair, forgotten>>

\* Run returns: closing is set before anything else is torn down.
Closing ==
  /\ ~shut
  /\ shut' = TRUE
  /\ UNCHANGED <<table, answered, call, holder, revision, latched, repair, forgotten>>

\* A request begins; with If-Revision it names the revision its client read.
Arrive(r) ==
  \E rev \in {NoRev, revision} :
    \/ RunAnonymous(r, rev)
    \/ \E k \in Keys : Repeat(r, k) \/ Insert(r, k, rev) \/ Bypass(r, k, rev)

Serve(r) ==
  \/ RequestAnswered(r) \/ Execute(r) \/ LockMutation(r) \/ Mutate(r)
  \/ Publish(r) \/ PublishCommittedError(r) \/ Finish(r)

OpsNext ==
  \/ \E r \in Requests : Arrive(r) \/ Serve(r) \/ LeaveWait(r) \/ LeaveLock(r)
  \/ SetCoreState
  \/ Closing

OpsSpec == OpsInit /\ [][OpsNext]_opsVars
-----------------------------------------------------------------------------
OpsTypeOK ==
  /\ table \in [Keys -> Requests \cup {NoRequest}]
  /\ answered \subseteq Requests
  /\ call \in [Requests -> [at : CallPlaces, key : Keys \cup {NoKey}, rev : Nat \cup {NoRev},
                            entry : Requests \cup {NoRequest}, acted : BOOLEAN, result : Results]]
  /\ holder \in Requests \cup {NoRequest}
  /\ holder # NoRequest => call[holder].at \in {"held", "publish"}
  /\ revision \in Nat /\ latched \in BOOLEAN /\ shut \in BOOLEAN /\ repair \in BOOLEAN
  /\ forgotten \subseteq Keys

\* An operation ID has its effect at most once, whatever its repetitions and
\* their order, unless the bounded table had to forget the ID (doOperation).
OncePerID ==
  \A k \in Keys \ forgotten :
    Cardinality({r \in Requests : call[r].key = k /\ call[r].acted}) <= 1

\* A request told of a conflict, a refusal or a cancellation has changed nothing,
\* and one told of success, first or repetition, has its effect: once a mutation
\* took effect neither a cancellation nor a late revision check hides it
\* (withControllerMutation publishes without cancellation and If-Revision).
HonestAnswer ==
  \A r \in Requests : call[r].at = "done" =>
    /\ call[r].result \in Clean => ~call[r].acted
    /\ call[r].result = "ok" =>
         \E q \in Requests : call[q].key = call[r].key /\ call[q].acted

\* A mutation that named the revision its client had read changes nothing once
\* anything else was published since that reading.
NoLostUpdate ==
  [][\A r \in Requests :
       ~call[r].acted /\ call'[r].acted /\ call[r].rev # NoRev => revision = call[r].rev]_opsVars

\* The table never exceeds its limit and never loses a running operation, so a
\* repetition of a running operation always finds it.
TableBounded ==
  /\ Cardinality(Stored) <= Limit
  /\ \A r \in Requests :
       call[r].at \in {"ready", "lock", "held", "publish", "settle"} /\ call[r].entry = r
         => table[call[r].key] = r

\* Whoever waits for another request's answer gets one, or leaves: the first
\* request always closes its entry.
RepetitionsAnswered ==
  \A r \in Requests : call[r].at = "wait" ~> call[r].at = "done"

\* Everything above that a reachable state promises.
OpsSafe ==
  /\ OpsTypeOK /\ OncePerID /\ HonestAnswer /\ TableBounded
=============================================================================
