---------------------------- MODULE Subscriptions ----------------------------
(***************************************************************************)
(* The subscription operations of internal/runtime over the catalog and    *)
(* caches of internal/subscription: prepare outside the maintenance token, *)
(* commit catalog and cache under it, generate and reload the core's       *)
(* configuration, and compensate in the reverse order when a step fails.   *)
(* A document is named by the goroutine that fetched it, a profile by its  *)
(* position in the catalog (identifiers are random and never reused).      *)
(***************************************************************************)
EXTENDS Integers, FiniteSets

CONSTANTS
  Workers,     \* goroutines serving a subscription operation, each serves one
  Serves,      \* the kinds of operation each worker may be asked for
  Profiles,    \* 1..n
  MaxFaults,   \* bound: failing file writes
  MaxRejects,  \* bound: configurations that mihomo rejects
  MaxEdits     \* bound: concurrent settings changes

VARIABLES
  cat,         \* Service.catalog
  durable,     \* the catalog file
  cache,       \* the cache file of each profile
  conf,        \* the document the core's configuration was generated from
  confGen,     \* Manager.configGeneration
  job,         \* where each operation stands
  token,       \* who holds Manager.maintenance
  mutLatch,    \* Manager.mutationDegraded
  trusted,     \* Manager.trustedCore is set
  faults, rejects, edits,
  withdrawn,   \* history: documents whose commit was rolled back
  amiss        \* history: a compensation failed, or an error hid a replacement

subVars == <<cat, durable, cache, conf, confGen, job, token, mutLatch, trusted,
             faults, rejects, edits, withdrawn, amiss>>
files   == <<cat, durable, cache>>
history == <<withdrawn, amiss>>

NoDoc  == "none"       \* no cache, or generation 0
First  == "first"      \* the document cached when the model starts
Direct == "direct"     \* the configuration without a subscription
NoOne  == "no one"

\* Version 0: not added yet; -1: removed.
NoProfile == [on |-> FALSE, version |-> 0, doc |-> NoDoc]
Gone      == [NoProfile EXCEPT !.version = -1]
There(c, p) == c.prof[p].version > 0

Creates   == {"add", "setupAdd"}
Refreshes == {"refresh", "setupRefresh"}
Setups    == {"setupAdd", "setupRefresh"}
Edits     == {"remove", "enable", "disable", "set"}
Kinds     == Creates \cup Refreshes \cup Edits \cup {"use"}

Rest == [at |-> "rest", kind |-> "none", p |-> 0, version |-> 0, doc |-> NoDoc,
         fresh |-> FALSE, gen |-> 0, tries |-> 0, before |-> [prof |-> <<>>, active |-> 0],
         cacheBefore |-> NoDoc]

SubInit ==
  /\ cat = [prof |-> [p \in Profiles |->
              IF p = 1 THEN [on |-> TRUE, version |-> 1, doc |-> First] ELSE NoProfile],
            active |-> 1]
  /\ durable = cat
  /\ cache = [p \in Profiles |-> cat.prof[p].doc]
  /\ conf = First
  /\ confGen = 0
  /\ job = [w \in Workers |-> Rest]
  /\ token = NoOne
  /\ mutLatch = FALSE
  /\ trusted \in BOOLEAN
  /\ faults = 0 /\ rejects = 0 /\ edits = 0
  /\ withdrawn = {}
  /\ amiss = FALSE

\* Normalize and fillDefaults: an active profile that is not enabled or has no
\* cache is replaced by the first one that has.
Eligible(c) == {p \in Profiles : There(c, p) /\ c.prof[p].on /\ c.prof[p].doc # NoDoc}
Normalize(c) ==
  LET e == Eligible(c) IN
  [c EXCEPT !.active = IF @ \in e THEN @
                       ELSE IF e = {} THEN 0 ELSE CHOOSE p \in e : \A q \in e : p <= q]

\* The document that the configuration of catalog c is generated from.
DocOf(c) == IF c.active = 0 THEN Direct ELSE c.prof[c.active].doc

\* AtomicWrite fails before the replacement ("lost"), or after it, when only the
\* directory could not be synced ("kept"): both report an error.
Outcomes == {"ok", "lost", "kept"}
Written(old, new, w) == IF w = "lost" THEN old ELSE new
Failures(ws) == Cardinality({i \in DOMAIN ws : ws[i] # "ok"})
Spend(ws) == faults + Failures(ws) <= MaxFaults /\ faults' = faults + Failures(ws)

JobTo(w, p)  == job' = [job EXCEPT ![w].at = p]
\* The operation ends and its deferred unlock returns the token.
End(w) == job' = [job EXCEPT ![w] = [Rest EXCEPT !.at = "over"]]
\* A failed refresh is recorded in its profile before it ends.
Fail(w) == IF job[w].kind \in Refreshes THEN JobTo(w, "note") ELSE End(w)
Unlock(w) == token' = IF token = w THEN NoOne ELSE token
\* markConfigDegraded, and commitSubscriptionCandidate in setup mode.
Degrade(w) == mutLatch' = (mutLatch \/ trusted \/ job[w].kind \in Setups)
-----------------------------------------------------------------------------
(* Preparation, without the token.                                         *)

\* The profile is looked up and its version captured (PrepareRefresh and
\* UseSubscription; a new profile gets a new identifier).
BeginSub(w, kind, p) ==
  /\ job[w].at = "rest"
  /\ IF kind \in Creates
     THEN cat.prof[p].version = 0 /\ durable.prof[p].version = 0
          /\ \A v \in Workers : job[v].kind \in Creates => job[v].p # p
     ELSE There(cat, p)
  /\ kind = "use" => p \in Eligible(cat)
  /\ job' = [job EXCEPT ![w] = [@ EXCEPT !.kind = kind, !.p = p, !.version = cat.prof[p].version,
                 !.at = IF kind \in Edits THEN "token" ELSE IF kind = "use" THEN "config" ELSE "fetch"]]
  /\ UNCHANGED <<files, conf, confGen, token, mutLatch, trusted, faults, rejects, edits, history>>

\* The source answers with a new document, or with 304: then the document is
\* the cache file as it is now, read without Service.mu.
Fetch(w) ==
  /\ job[w].at = "fetch"
  /\ \E fresh \in BOOLEAN :
       /\ fresh \/ (job[w].kind \in Refreshes /\ cache[job[w].p] # NoDoc)
       /\ job' = [job EXCEPT ![w] = [@ EXCEPT !.at = "config", !.fresh = fresh,
                    !.doc = IF fresh THEN w ELSE cache[job[w].p]]]
  /\ UNCHANGED <<files, conf, confGen, token, mutLatch, trusted, faults, rejects, edits, history>>

FetchFails(w) ==
  /\ job[w].at = "fetch"
  /\ Fail(w)
  /\ UNCHANGED <<files, conf, confGen, token, mutLatch, trusted, faults, rejects, edits, history>>

\* noteRefreshError, without the token: the catalog is saved with a LastError,
\* unless the profile changed meanwhile.
NoteRefreshError(w) ==
  /\ job[w].at = "note"
  /\ End(w)
  /\ IF cat.prof[job[w].p].version = job[w].version
     THEN \E s \in Outcomes : durable' = Written(durable, cat, s) /\ Spend(<<s>>)
     ELSE UNCHANGED <<durable, faults>>
  /\ UNCHANGED <<cat, cache, conf, confGen, token, mutLatch, trusted, rejects, edits, history>>

\* prepareConfig: the configuration is generated from the document (use reads
\* the cache under Service.mu) and from the settings of the captured generation.
PrepareConfig(w) ==
  /\ job[w].at = "config"
  /\ job' = [job EXCEPT ![w] = [@ EXCEPT !.at = "token", !.gen = confGen,
               !.doc = IF job[w].kind = "use" THEN cache[job[w].p] ELSE @]]
  /\ UNCHANGED <<files, conf, confGen, token, mutLatch, trusted, faults, rejects, edits, history>>

\* lockMutation.
TakeToken(w) ==
  /\ job[w].at = "token" /\ token = NoOne
  /\ \/ mutLatch /\ End(w) /\ UNCHANGED token
     \/ ~mutLatch /\ JobTo(w, "commit") /\ token' = w
  /\ UNCHANGED <<files, conf, confGen, mutLatch, trusted, faults, rejects, edits, history>>

\* A setup operation whose inputs changed prepares again, at most twice
\* (retrySetupPreparation, ReprepareSetupRefresh); a 304 whose cache changed
\* meanwhile is fetched again.
Reprepare(w) ==
  LET o == job[w]
      changed == o.kind = "setupRefresh" /\ There(cat, o.p) /\ cat.prof[o.p].version # o.version
  IN
  /\ o.at = "commit" /\ o.kind \in Setups
  /\ changed \/ o.gen # confGen
  /\ Unlock(w)
  /\ IF o.tries = 2 \/ cat.prof[o.p].version = -1 THEN End(w)
     ELSE job' = [job EXCEPT ![w] = [@ EXCEPT !.tries = @ + 1, !.version = cat.prof[o.p].version,
                    !.at = IF ~o.fresh /\ o.kind \in Refreshes /\ changed THEN "fetch" ELSE "config"]]
  /\ UNCHANGED <<files, conf, confGen, mutLatch, trusted, faults, rejects, edits, history>>
-----------------------------------------------------------------------------
(* The commit of a document, under Service.mu.                             *)

\* The profile as the commit leaves it.
Committed(w) ==
  LET o == job[w]
      old == IF o.kind \in Creates THEN [on |-> TRUE, version |-> 1, doc |-> NoDoc] ELSE cat.prof[o.p]
      new == [on |-> old.on \/ o.kind \in Setups, version |-> old.version + 1,
              doc |-> IF o.fresh THEN o.doc ELSE old.doc]
      chosen == IF o.kind \in Setups THEN o.p ELSE cat.active
  IN Normalize([prof |-> [cat.prof EXCEPT ![o.p] = new], active |-> chosen])

Stale(w) == job[w].kind \in Refreshes /\ cat.prof[job[w].p].version # job[w].version

\* The new cache and the new catalog, which of the two writes is in question.
NewCache(w) == [cache EXCEPT ![job[w].p] = IF job[w].fresh THEN job[w].doc ELSE @]

\* The document of this commit, if it is a new one.
Own(w) == IF job[w].fresh THEN {job[w].doc} ELSE {}

AtCommit(w) ==
  /\ job[w].at = "commit" /\ job[w].kind \in Creates \cup Refreshes
  /\ ~(job[w].kind \in Setups /\ job[w].gen # confGen)

\* Mutant: the conflict path returns without the deferred unlock.
CommitStaleLocked(w) ==
  /\ AtCommit(w) /\ Stale(w)
  /\ job[w].kind \in Setups => ~There(cat, job[w].p)
  /\ End(w)
  /\ UNCHANGED <<files, conf, confGen, token, mutLatch, trusted, faults, rejects, edits, history>>

\* The profile changed or vanished while the document was being prepared.
CommitStale(w) ==
  /\ AtCommit(w) /\ Stale(w)
  /\ job[w].kind \in Setups => ~There(cat, job[w].p)
  /\ End(w) /\ Unlock(w)
  /\ UNCHANGED <<files, conf, confGen, mutLatch, trusted, faults, rejects, edits, history>>

CommitSaved(w) ==
  /\ AtCommit(w) /\ ~Stale(w)
  /\ cat' = Committed(w) /\ durable' = cat' /\ cache' = NewCache(w)
  /\ job' = [job EXCEPT ![w] = [@ EXCEPT !.before = cat, !.cacheBefore = cache[job[w].p],
               !.at = IF cat'.active = job[w].p THEN "apply" ELSE "publish"]]
  /\ UNCHANGED <<conf, confGen, token, mutLatch, trusted, faults, rejects, edits, history>>

\* The cache could not be written: its old bytes are put back (failAfterRestore).
CommitCacheFails(w) ==
  LET p == job[w].p IN
  /\ AtCommit(w) /\ ~Stale(w) /\ job[w].fresh
  /\ \E s \in {"lost", "kept"}, r \in Outcomes :
       /\ cache' = [cache EXCEPT ![p] = Written(Written(@, job[w].doc, s), @, r)]
       /\ Spend(<<s, r>>)
       /\ amiss' = (amiss \/ r = "lost")
       /\ mutLatch' = (mutLatch \/ (r # "ok" /\ job[w].kind \in Setups))
  /\ withdrawn' = withdrawn \cup Own(w)
  /\ IF mutLatch' # mutLatch THEN End(w) ELSE Fail(w)
  /\ Unlock(w)
  /\ UNCHANGED <<cat, durable, conf, confGen, trusted, rejects, edits>>

\* The catalog could not be saved: the old catalog is saved again and, unless
\* the new one is what stayed on disk, the old cache is put back as well.
CommitUndone(w) ==
  LET p == job[w].p IN
  /\ AtCommit(w) /\ ~Stale(w)
  /\ \E s \in {"lost", "kept"}, c, r \in Outcomes :
       /\ ~(s = "kept" /\ c = "lost")
       /\ ~job[w].fresh => r = "ok"
       /\ durable' = Written(Written(durable, Committed(w), s), cat, c)
       /\ cache' = [cache EXCEPT ![p] = Written(NewCache(w)[p], @, r)]
       /\ Spend(<<s, c, r>>)
       /\ amiss' = (amiss \/ r = "lost")
       /\ mutLatch' = (mutLatch \/ (r # "ok" /\ job[w].kind \in Setups))
  /\ withdrawn' = withdrawn \cup Own(w)
  /\ IF mutLatch' # mutLatch THEN End(w) ELSE Fail(w)
  /\ Unlock(w)
  /\ UNCHANGED <<cat, conf, confGen, trusted, rejects, edits>>

\* The new catalog stayed on disk and could not be withdrawn. Outside setup it
\* is kept, and its caller gets the error without a configuration applied.
CommitKept(w) ==
  /\ AtCommit(w) /\ ~Stale(w) /\ job[w].kind \notin Setups
  /\ Spend(<<"kept", "lost">>)
  /\ cat' = Committed(w) /\ durable' = cat' /\ cache' = NewCache(w)
  /\ amiss' = TRUE
  /\ Fail(w) /\ Unlock(w)
  /\ UNCHANGED <<conf, confGen, mutLatch, trusted, rejects, edits, withdrawn>>

\* settleSetupCommitLocked: in setup the old cache is put back first, then the
\* old catalog; where that fails again the new cache is written once more.
CommitSettled(w) ==
  LET p == job[w].p IN
  /\ AtCommit(w) /\ ~Stale(w) /\ job[w].kind \in Setups
  /\ \E r, c, f \in Outcomes :
       LET stays == c = "lost"
           back  == Written(NewCache(w)[p], cache[p], r)
       IN
       /\ r = "lost" => c = "ok"
       /\ (r = "lost" \/ ~stays \/ ~job[w].fresh) => f = "ok"
       /\ ~job[w].fresh => r = "ok"
       /\ Spend(<<"kept", "lost", r, c, f>>)
       /\ durable' = IF r = "lost" \/ stays THEN Committed(w) ELSE cat
       /\ cat' = durable'
       /\ cache' = [cache EXCEPT ![p] = IF stays /\ r # "lost" THEN Written(back, NewCache(w)[p], f) ELSE back]
       /\ amiss' = (amiss \/ r = "lost" \/ stays)
       /\ mutLatch' = (mutLatch \/ r # "ok" \/ c # "ok")
  /\ withdrawn' = withdrawn \cup Own(w)
  /\ IF mutLatch' # mutLatch THEN End(w) ELSE Fail(w)
  /\ Unlock(w)
  /\ UNCHANGED <<conf, confGen, trusted, rejects, edits>>
-----------------------------------------------------------------------------
(* Changes of the catalog alone.                                           *)

Edited(w) ==
  LET o == job[w]
      prof == CASE o.kind = "remove"  -> Gone
                [] o.kind = "use"     -> cat.prof[o.p]
                [] o.kind = "enable"  -> [cat.prof[o.p] EXCEPT !.on = TRUE, !.version = @ + 1]
                [] o.kind = "disable" -> [cat.prof[o.p] EXCEPT !.on = FALSE, !.version = @ + 1]
                [] o.kind = "set"     -> [cat.prof[o.p] EXCEPT !.version = @ + 1]
  IN Normalize([prof |-> [cat.prof EXCEPT ![o.p] = prof],
                active |-> IF o.kind = "use" THEN o.p ELSE cat.active])

\* Service.Mutate: memory follows only a save without an error.
MutateCatalog(w) ==
  LET o == job[w]
      conflict == ~There(cat, o.p) \/ (o.kind = "use" /\ cat.prof[o.p].version # o.version)
  IN
  /\ o.at = "commit" /\ o.kind \in Edits \cup {"use"}
  /\ \/ conflict /\ End(w) /\ Unlock(w) /\ UNCHANGED <<cat, durable, faults>>
     \/ /\ ~conflict
        /\ \E s \in {"lost", "kept"} : durable' = Written(durable, Edited(w), s) /\ Spend(<<s>>)
        /\ End(w) /\ Unlock(w) /\ UNCHANGED cat
     \/ /\ ~conflict
        /\ cat' = Edited(w) /\ durable' = cat'
        /\ job' = [job EXCEPT ![w] = [@ EXCEPT !.before = cat,
             !.at = IF o.kind = "use" THEN "apply"
                    ELSE IF cat'.active # cat.active THEN "regenerate"
                    ELSE IF o.kind = "remove" THEN "selections" ELSE "publish"]]
        /\ UNCHANGED <<token, faults>>
  /\ UNCHANGED <<cache, conf, confGen, mutLatch, trusted, rejects, edits, history>>

\* prepareCatalogConfig under the token, from the cache of the new active
\* profile; the cache may be unreadable or mihomo may refuse the candidate.
Regenerate(w) ==
  /\ job[w].at = "regenerate"
  /\ \/ /\ job' = [job EXCEPT ![w] = [@ EXCEPT !.at = "apply", !.gen = confGen,
                     !.doc = IF cat.active = 0 THEN Direct ELSE cache[cat.active]]]
        /\ UNCHANGED rejects
     \/ JobTo(w, "rollback") /\ rejects < MaxRejects /\ rejects' = rejects + 1
  /\ UNCHANGED <<files, conf, confGen, token, mutLatch, trusted, faults, edits, history>>
\* RemoveSubscription of an inactive profile drops its saved GLOBAL selection
\* from the settings.
DropSelection(w) ==
  /\ job[w].at = "selections"
  /\ \/ JobTo(w, "publish") /\ confGen' \in {confGen, confGen + 1} /\ UNCHANGED faults
     \/ JobTo(w, "rollback") /\ Spend(<<"lost">>) /\ UNCHANGED confGen
  /\ UNCHANGED <<files, conf, token, mutLatch, trusted, rejects, edits, history>>
-----------------------------------------------------------------------------
(* Publication of the configuration, its compensation, and the end.        *)

\* commitRuntimeConfig: the settings must still be those of the candidate, the
\* file is replaced and mihomo reloads it.
Apply(w) ==
  /\ job[w].at = "apply"
  /\ job[w].gen = confGen
  /\ conf' = job[w].doc
  /\ confGen' = IF trusted THEN confGen + 1 ELSE confGen
  /\ JobTo(w, "publish")
  /\ UNCHANGED <<files, token, mutLatch, trusted, faults, rejects, edits, history>>

\* The settings changed, the file could not be replaced, or mihomo rejected the
\* configuration and runs the previous one again.
ApplyFails(w) ==
  /\ job[w].at = "apply"
  /\ \/ job[w].gen # confGen /\ UNCHANGED <<conf, faults, rejects, amiss>>
     \/ job[w].gen = confGen /\ Spend(<<"lost">>) /\ UNCHANGED <<conf, rejects, amiss>>
     \/ /\ job[w].gen = confGen /\ ~trusted /\ Spend(<<"kept">>)
        /\ conf' = job[w].doc /\ amiss' = TRUE /\ UNCHANGED rejects
     \/ /\ job[w].gen = confGen /\ rejects < MaxRejects /\ rejects' = rejects + 1
        /\ UNCHANGED <<conf, faults, amiss>>
  /\ JobTo(w, "rollback")
  /\ UNCHANGED <<files, confGen, token, mutLatch, trusted, edits, withdrawn>>

\* Neither configuration could be confirmed: the error is marked degraded.
ApplyDegrades(w) ==
  /\ job[w].at = "apply" /\ job[w].gen = confGen
  /\ rejects < MaxRejects /\ rejects' = rejects + 1 /\ Spend(<<"lost">>)
  /\ conf' \in {conf, job[w].doc}
  /\ amiss' = TRUE
  /\ Degrade(w)
  /\ JobTo(w, "rollback")
  /\ UNCHANGED <<files, confGen, token, trusted, edits, withdrawn>>

\* Service.Rollback of a receipt (cache first, then catalog), or Service.Restore
\* of a catalog. A failure is marked degraded.
Rollback(w) ==
  LET o == job[w]
      paired == o.kind \in Creates \cup Refreshes /\ o.fresh
  IN
  /\ o.at = "rollback"
  /\ \E r, c \in Outcomes :
       /\ ~paired => r = "ok"
       /\ r # "ok" => c = "ok"
       /\ Spend(<<r, c>>)
       /\ cache' = IF paired THEN [cache EXCEPT ![o.p] = Written(@, o.cacheBefore, r)] ELSE cache
       /\ durable' = IF r = "ok" THEN Written(durable, o.before, c) ELSE durable
       /\ cat' = IF r = "ok" /\ c = "ok" THEN o.before ELSE cat
       /\ amiss' = (amiss \/ r # "ok" \/ c # "ok")
       /\ IF r # "ok" \/ c # "ok" THEN Degrade(w) ELSE UNCHANGED mutLatch
  /\ withdrawn' = withdrawn \cup Own(w)
  /\ (~amiss' /\ Fail(w)) \/ End(w)   \* conflicts are not recorded
  /\ Unlock(w)
  /\ UNCHANGED <<conf, confGen, trusted, rejects, edits>>

\* The state is published and the token returned; a removed profile's cache is
\* deleted first, and a failure to do so is only a warning.
PublishSub(w) ==
  /\ job[w].at = "publish"
  /\ cache' = IF job[w].kind = "remove" THEN [cache EXCEPT ![job[w].p] = NoDoc] ELSE cache
  /\ End(w) /\ Unlock(w)
  /\ UNCHANGED <<cat, durable, conf, confGen, mutLatch, trusted, faults, rejects, edits, history>>

\* A settings change by another mutation, under the token (publishSettings).
ChangeSettings ==
  /\ token = NoOne /\ edits < MaxEdits
  /\ edits' = edits + 1 /\ confGen' = confGen + 1
  /\ UNCHANGED <<files, conf, job, token, mutLatch, trusted, faults, rejects, history>>

SubStep(w) ==
  \/ Fetch(w) \/ FetchFails(w) \/ NoteRefreshError(w) \/ PrepareConfig(w) \/ TakeToken(w) \/ Reprepare(w)
  \/ CommitStale(w) \/ CommitSaved(w) \/ CommitCacheFails(w) \/ CommitUndone(w)
  \/ CommitKept(w) \/ CommitSettled(w) \/ MutateCatalog(w) \/ Regenerate(w) \/ DropSelection(w)
  \/ Apply(w) \/ ApplyFails(w) \/ ApplyDegrades(w) \/ Rollback(w) \/ PublishSub(w)

SubNext ==
  \/ \E w \in Workers :
       SubStep(w) \/ \E kind \in Serves[w], p \in Profiles : BeginSub(w, kind, p)
  \/ ChangeSettings

SubSpec == SubInit /\ [][SubNext]_subVars
-----------------------------------------------------------------------------
Docs == Workers \cup {NoDoc, First}
Catalogs == [prof : [Profiles -> [on : BOOLEAN, version : Int, doc : Docs]],
             active : Profiles \cup {0}]

SubTypeOK ==
  /\ cat \in Catalogs /\ durable \in Catalogs
  /\ cache \in [Profiles -> Docs]
  /\ conf \in Docs \cup {Direct}
  /\ confGen \in Nat
  /\ token \in Workers \cup {NoOne}
  /\ token # NoOne => job[token].at \in {"commit", "regenerate", "selections", "apply", "rollback", "publish"}
  /\ mutLatch \in BOOLEAN /\ trusted \in BOOLEAN /\ amiss \in BOOLEAN
  /\ withdrawn \subseteq Workers \cup {First}

\* A cache file always holds the bytes that the catalog, in memory and on disk,
\* describes for its profile, whatever write of a commit or of its undoing
\* failed, as long as no compensation failed (commitRefreshLocked, Rollback).
CachePaired ==
  ~amiss => \A c \in {cat, durable} : \A p \in Profiles :
    There(c, p) /\ There(cat, p) => cache[p] = c.prof[p].doc

\* Between operations the core runs the configuration of the active profile, or
\* one made from a document that was withdrawn while its reader prepared.
ConfigOfActive ==
  token = NoOne /\ ~amiss => conf = DocOf(cat) \/ conf \in withdrawn

\* The core never runs a configuration made from bytes that were rolled back:
\* "readers must observe both from one committed cache generation" (ReadCache).
ConfigOfCommitted ==
  token = NoOne /\ ~amiss => conf = DocOf(cat)

\* Everything above that a reachable state promises.
SubSafe ==
  /\ SubTypeOK /\ CachePaired /\ ConfigOfActive
=============================================================================
