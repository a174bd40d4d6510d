----------------------------- MODULE Scheduler -----------------------------
(***************************************************************************)
(* The subscription scheduler (internal/subscription/scheduler.go): one    *)
(* goroutine that sleeps until the next profile is due or an edit is       *)
(* announced on a channel of capacity one, refreshes what is due, and      *)
(* delays failing profiles by a doubling, capped interval that any change  *)
(* of the schedule forgets. The jitter of at most 5% is left out.          *)
(***************************************************************************)
EXTENDS Integers, FiniteSets

CONSTANTS
  Subs,        \* subscriptions
  Horizon,     \* bound: the last instant of the clock
  IdlePoll, MinRetry, MaxRetry,  \* SchedulerOptions
  Intervals,   \* refresh intervals a client may choose
  MaxChanges   \* bound: edits

VARIABLES
  clock,
  plan,        \* the catalog: [auto, base, interval] of each subscription
  notice,      \* a notification waits in SchedulerOptions.Changes
  failures, nextAllowed, identities,   \* the maps of Run; -1 where absent
  at,          \* where Run stands
  queue,       \* dueIDs that are still to be looked at
  current,     \* the subscription being refreshed, with its identity
  wakeAt,      \* when the timer of the sleep fires
  changes,
  lastFail     \* history: when the running series of failures last failed

schVars == <<clock, plan, notice, failures, nextAllowed, identities, at, queue, current,
             wakeAt, changes, lastFail>>

Never == -1
NoSub == [id |-> "none", identity |-> <<>>]

\* RetryDelay: the loop doubles until the limit, and never past it.
Doubled[n \in Nat] ==
  IF n <= 1 THEN MinRetry
  ELSE LET d == Doubled[n - 1] IN
       IF d >= MaxRetry THEN d ELSE IF d > MaxRetry \div 2 THEN MaxRetry ELSE 2 * d


RetryDelay(n) == IF Doubled[n] > MaxRetry THEN MaxRetry ELSE Doubled[n]

\* What identifies the schedule of a profile (scheduleIdentity).
Identity(p, s) == <<p[s].base, p[s].interval>>

\* When the scheduler considers s due: base and interval, or later if a retry
\* is delayed. A profile never refreshed (base Never) is due at once.
DueAt(p, allowed, s) ==
  LET planned == IF p[s].base = Never THEN clock ELSE p[s].base + p[s].interval
  IN IF allowed[s] > planned THEN allowed[s] ELSE planned

Scheduled == {s \in Subs : plan[s].auto}
DueNow(allowed) == {s \in Scheduled : DueAt(plan, allowed, s) <= clock}

SchInit ==
  /\ clock = 0
  /\ plan = [s \in Subs |-> [auto |-> TRUE, base |-> Never, interval |-> CHOOSE i \in Intervals : \A j \in Intervals : j <= i]]
  /\ notice = FALSE
  /\ failures = [s \in Subs |-> 0]
  /\ nextAllowed = [s \in Subs |-> Never]
  /\ identities = [s \in Subs |-> <<>>]
  /\ at = "look" /\ queue = {} /\ current = NoSub /\ wakeAt = 0
  /\ changes = 0
  /\ lastFail = [s \in Subs |-> Never]

\* reconcile: a changed schedule forgets the delays of its past failures.
Changed == {s \in Subs : identities[s] # <<>> /\ identities[s] # Identity(plan, s)}
Reconciled(f, absent) == [s \in Subs |-> IF s \in Changed THEN absent ELSE f[s]]
Reconcile ==
  /\ identities' = [s \in Subs |-> Identity(plan, s)]
  /\ lastFail' = Reconciled(lastFail, Never)

\* The head of the loop: what is due now, or how long to sleep.
Look ==
  /\ at = "look"
  /\ Reconcile
  /\ failures' = Reconciled(failures, 0)
  /\ nextAllowed' = Reconciled(nextAllowed, Never)
  /\ LET due == DueNow(nextAllowed')
         next == {DueAt(plan, nextAllowed', s) : s \in Scheduled} \cup {clock + IdlePoll}
     IN \/ /\ due # {} /\ queue' = due /\ at' = "each" /\ UNCHANGED wakeAt
        \/ /\ due = {} /\ at' = "sleep" /\ UNCHANGED queue
           /\ wakeAt' = CHOOSE t \in next : \A u \in next : t <= u
  /\ UNCHANGED <<clock, plan, notice, current, changes>>

\* The select: a notification or the timer.
Wake ==
  /\ at = "sleep"
  /\ \/ notice /\ notice' = FALSE
     \/ clock >= wakeAt /\ UNCHANGED notice
  /\ at' = "look"
  /\ UNCHANGED <<clock, plan, failures, nextAllowed, identities, queue, current, wakeAt, changes, lastFail>>

\* One due subscription (the order of the catalog is not modelled): it is
\* checked again, because refreshing the others took time, and then refreshed.
RefreshNext ==
  /\ at = "each" /\ queue # {}
  /\ Reconcile
  /\ failures' = Reconciled(failures, 0)
  /\ nextAllowed' = Reconciled(nextAllowed, Never)
  /\ \E s \in queue :
       /\ queue' = queue \ {s}
       /\ IF s \in DueNow(nextAllowed')
          THEN at' = "refresh" /\ current' = [id |-> s, identity |-> Identity(plan, s)]
          ELSE UNCHANGED <<at, current>>
  /\ UNCHANGED <<clock, plan, notice, wakeAt, changes>>

RoundDone ==
  /\ at = "each" /\ queue = {} /\ at' = "look"
  /\ UNCHANGED <<clock, plan, notice, failures, nextAllowed, identities, queue, current, wakeAt, changes, lastFail>>

\* Refresh succeeded: the catalog has a new base, and the next one is due an
\* interval after it.
Refreshed ==
  LET s == current.id IN
  /\ at = "refresh" /\ at' = "each" /\ current' = NoSub
  /\ plan' = [plan EXCEPT ![s].base = clock]
  /\ identities' = [t \in Subs |-> Identity(plan', t)]
  /\ failures' = [Reconciled(failures, 0) EXCEPT ![s] = 0]
  /\ nextAllowed' = [Reconciled(nextAllowed, Never) EXCEPT ![s] = clock + plan[s].interval]
  /\ lastFail' = [Reconciled(lastFail, Never) EXCEPT ![s] = Never]
  /\ UNCHANGED <<clock, notice, queue, wakeAt, changes>>

\* Mutant: the failed subscription stays the current one.
RefreshFailedKeeps ==
  /\ at = "refresh" /\ at' = "each"
  /\ UNCHANGED <<current, identities, failures, nextAllowed, lastFail, clock, plan, notice, queue, wakeAt, changes>>

\* Refresh failed: the retry is delayed, unless the schedule was edited meanwhile.
RefreshFailed ==
  LET s == current.id
      same == Identity(plan, s) = current.identity
  IN
  /\ at = "refresh" /\ at' = "each" /\ current' = NoSub
  /\ identities' = [t \in Subs |-> Identity(plan, t)]
  /\ failures' = [Reconciled(failures, 0) EXCEPT ![s] = IF same THEN @ + 1 ELSE @]
  /\ nextAllowed' = [Reconciled(nextAllowed, Never) EXCEPT ![s] = IF same THEN clock + RetryDelay(failures'[s]) ELSE @]
  /\ lastFail' = [Reconciled(lastFail, Never) EXCEPT ![s] = IF same THEN clock ELSE @]
  /\ UNCHANGED <<clock, plan, notice, queue, wakeAt, changes>>

\* A committed edit (SetSubscription, SetSubscriptionEnabled): a new interval
\* starts a new schedule; the notification is dropped when one is waiting.
EditPlan ==
  /\ changes < MaxChanges /\ changes' = changes + 1
  /\ \E s \in Subs, i \in Intervals, auto \in BOOLEAN :
       plan' = [plan EXCEPT ![s] = [auto |-> auto, interval |-> i,
                                    base |-> IF i = @.interval THEN @.base ELSE clock]]
  /\ notice' = TRUE
  /\ UNCHANGED <<clock, failures, nextAllowed, identities, at, queue, current, wakeAt, lastFail>>

\* Time passes where the goroutine waits, in the select and in Refresh.
Tick ==
  /\ clock < Horizon /\ at \in {"sleep", "refresh"}
  /\ clock' = clock + 1
  /\ UNCHANGED <<plan, notice, failures, nextAllowed, identities, at, queue, current, wakeAt, changes, lastFail>>

SchStep == Look \/ Wake \/ RefreshNext \/ RoundDone \/ Refreshed \/ RefreshFailed

SchNext == SchStep \/ EditPlan \/ Tick

SchSpec == SchInit /\ [][SchNext]_schVars
-----------------------------------------------------------------------------
SchTypeOK ==
  /\ clock \in 0..Horizon
  /\ plan \in [Subs -> [auto : BOOLEAN, base : -1..Horizon, interval : Intervals]]
  /\ notice \in BOOLEAN
  /\ failures \in [Subs -> Nat] /\ nextAllowed \in [Subs -> Int]
  /\ at \in {"look", "sleep", "each", "refresh"}
  /\ queue \subseteq Subs
  /\ (at = "refresh") <=> (current # NoSub)

\* While the scheduler sleeps with nothing announced, its timer fires no later
\* than any subscription is due: no edit between its reading the catalog and
\* its sleep, and none coalesced with an earlier one, is slept through, although
\* an edit also drops the delays of past failures.
NoOversleep ==
  at = "sleep" /\ ~notice => \A s \in Scheduled :
    LET d == DueAt(plan, Reconciled(nextAllowed, Never), s) IN wakeAt <= d \/ wakeAt <= clock

\* A subscription whose schedule did not change is not tried again before
\* min(MaxRetry, MinRetry * 2^(n-1)) has passed since its n-th failure in a row.
BackoffHonoured ==
  at = "refresh" =>
    LET s == current.id
        cap(x) == IF x > MaxRetry THEN MaxRetry ELSE x
    IN lastFail[s] # Never /\ Identity(plan, s) = current.identity
         => clock >= lastFail[s] + cap(MinRetry * 2 ^ (failures[s] - 1))

\* Whatever is due, and stays enabled, is looked at: the loop never sleeps on.
DueIsRefreshed ==
  \A s \in Subs : (at = "sleep" /\ s \in DueNow(nextAllowed)) ~> (at = "refresh" \/ s \notin DueNow(nextAllowed))

\* Everything above that a reachable state promises.
SchSafe ==
  /\ SchTypeOK /\ NoOversleep /\ BackoffHonoured
=============================================================================
