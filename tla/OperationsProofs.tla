-------------------------- MODULE OperationsProofs --------------------------
(***************************************************************************)
(* Proofs about Operations for any requests, keys and table size: each     *)
(* operation ID acts once, answers are honest, the table is bounded and    *)
(* keeps running operations, and no mutation acts on a stale revision.     *)
(*                                                                         *)
(* None of these is inductive.  What the code relies on is added below:    *)
(* which request owns an entry, whom a repetition follows, what an entry   *)
(* says about its owner until it is forgotten, and who holds the token.    *)
(***************************************************************************)
EXTENDS Operations, FiniteSetTheorems, TLAPS

CallRecords == [at : CallPlaces, key : Keys \cup {NoKey}, rev : Nat \cup {NoRev},
                entry : Requests \cup {NoRequest}, acted : BOOLEAN, result : Results]

Running == {"ready", "lock", "held", "publish", "settle"}
Holding == {"held", "publish"}

\* The request r made the entry it runs under; or r repeats what another owns.
Owns(r) == call[r].entry = r
Follows(r) == call[r].entry \notin {r, NoRequest}

DataOK ==
  /\ table \in [Keys -> Requests \cup {NoRequest}]
  /\ answered \subseteq Requests
  /\ call \in [Requests -> CallRecords]
  /\ holder \in Requests \cup {NoRequest}
  /\ revision \in Nat
  /\ forgotten \subseteq Keys

FlagsOK == latched \in BOOLEAN /\ shut \in BOOLEAN /\ repair \in BOOLEAN

\* What a request's place says about its effect and its answer.
PlacesOK ==
  \A r \in Requests :
    /\ call[r].at = "new" => call[r].key = NoKey /\ call[r].entry = NoRequest
    /\ call[r].at \in {"new", "wait", "ready", "lock", "held"} => ~call[r].acted
    /\ call[r].at = "publish" => call[r].acted
    /\ call[r].at \in {"settle", "done"} /\ call[r].result \in Clean => ~call[r].acted
    /\ call[r].at \in {"settle", "done"} /\ call[r].result = "ok" => call[r].acted \/ Follows(r)
    /\ call[r].at = "wait" => Follows(r)

\* A repetition changes nothing itself and names the ID of a request that owns
\* its entry.  A success it reports is that request's.
RepetitionsOK ==
  \A r \in Requests : Follows(r) =>
    /\ call[r].at \in {"wait", "done"} /\ ~call[r].acted
    /\ Owns(call[r].entry) /\ call[call[r].entry].key = call[r].key
    /\ call[r].at = "done" /\ call[r].result = "ok" => call[call[r].entry].acted

\* An ID without an entry is forgotten; an entry names its owner, and every
\* owner is in the table while it runs and until its ID is forgotten.
EntriesOK ==
  /\ \A r \in Requests : call[r].entry = NoRequest => call[r].key \in forgotten \cup {NoKey}
  /\ \A r \in Requests : Owns(r) => call[r].key \in Keys
  /\ \A k \in Keys : table[k] # NoRequest => Owns(table[k]) /\ call[table[k]].key = k
  /\ \A r \in Requests : Owns(r) /\ (call[r].at \in Running \/ call[r].key \notin forgotten)
                           => table[call[r].key] = r
  /\ \A r \in answered : call[r].at = "done" /\ Owns(r)

\* One request holds the token, and what it compared still holds.
TokenOK ==
  /\ \A r \in Requests : call[r].at \in Holding <=> holder = r
  /\ \A r \in Requests : call[r].at = "held" => call[r].rev \in {NoRev, revision}

WithinLimit == Cardinality(Stored) <= Limit

OpsInv == DataOK /\ FlagsOK /\ PlacesOK /\ RepetitionsOK /\ EntriesOK /\ TokenOK /\ WithinLimit
-----------------------------------------------------------------------------
(* Lemmas about the operators.                                             *)

USE NamesAssumption, LimitAssumption

LEMMA CallUpdate ==
  ASSUME NEW c \in CallRecords
  PROVE  /\ \A p \in CallPlaces : [c EXCEPT !.at = p] \in CallRecords
         /\ \A p \in CallPlaces, res \in Results :
              [c EXCEPT !.at = p, !.result = res] \in CallRecords
         /\ \A p \in CallPlaces, k \in Keys \cup {NoKey}, rev \in Nat \cup {NoRev},
               e \in Requests \cup {NoRequest} :
              [c EXCEPT !.at = p, !.key = k, !.rev = rev, !.entry = e] \in CallRecords
         /\ \A p \in CallPlaces, res \in Results, b \in BOOLEAN :
              [c EXCEPT !.acted = b, !.at = p, !.result = res] \in CallRecords
BY Zenon DEF CallRecords

\* A set without two different members has at most one.
LEMMA AtMostOne ==
  ASSUME NEW S, \A x, y \in S : x = y
  PROVE  Cardinality(S) <= 1
<1>1. CASE S = {}
  BY <1>1, FS_EmptySet
<1>2. CASE S # {}
  <2>1. PICK x : x \in S
    BY Zenon, <1>2
  <2>2. S = {x}
    BY Zenon, <2>1
  <2>3. Cardinality({x}) = 1
    BY FS_Singleton, Zenon
  <2> QED
    BY <2>2, <2>3
<1> QED
  BY Zenon, <1>1, <1>2

\* The table's size only depends on the keys that have an entry.
LEMMA StoredFinite == IsFiniteSet(Stored) /\ Cardinality(Stored) \in Nat
<1>1. Stored \in SUBSET Keys
  BY Zenon DEF Stored
<1> QED
  BY Zenon, <1>1, FS_Subset, FS_CardinalityType

-----------------------------------------------------------------------------
(* The invariant is inductive: requests that arrive.                       *)

\* A request that starts was new: nobody's entry is its own.
LEMMA NewCaller ==
  ASSUME OpsInv, NEW r \in Requests, call[r].at = "new"
  PROVE  /\ ~Owns(r) /\ ~Follows(r) /\ ~call[r].acted /\ holder # r /\ r \notin answered
         /\ \A k \in Keys : table[k] # r
         /\ \A q \in Requests : Follows(q) => call[q].entry # r
BY DEF OpsInv, DataOK, PlacesOK, EntriesOK, RepetitionsOK, TokenOK, Owns, Follows, Holding

LEMMA StartType ==
  ASSUME OpsInv, NEW r \in Requests, NEW k \in Keys \cup {NoKey}, NEW rev \in {NoRev, revision},
         NEW p \in CallPlaces, NEW e \in Requests \cup {NoRequest}, Start(r, k, rev, p, e)
  PROVE  /\ call' \in [Requests -> CallRecords]
         /\ call'[r].at = p /\ call'[r].key = k /\ call'[r].rev = rev /\ call'[r].entry = e
         /\ ~call'[r].acted
         /\ \A q \in Requests : q # r => call'[q] = call[q]
<1>1. call[r] \in CallRecords /\ ~call[r].acted
  BY Zenon, NewCaller DEF OpsInv, DataOK, Start
<1>2. [call[r] EXCEPT !.at = p, !.key = k, !.rev = rev, !.entry = e] \in CallRecords
  BY Zenon, <1>1, CallUpdate DEF OpsInv, DataOK
<1> QED
  BY Zenon, <1>1, <1>2 DEF Start, OpsInv, DataOK, CallRecords

\* Without an entry: RunAnonymous and Bypass.
LEMMA BareStep ==
  ASSUME OpsInv, NEW r \in Requests, NEW k \in Keys \cup {NoKey}, NEW rev \in {NoRev, revision},
         Start(r, k, rev, "ready", NoRequest), k \in forgotten' \cup {NoKey},
         forgotten \subseteq forgotten', forgotten' \subseteq Keys,
         UNCHANGED <<table, answered, holder, revision, latched, shut, repair>>
  PROVE  OpsInv'
<1> USE DEF OpsInv
<1>1. "ready" \in CallPlaces /\ call[r].at = "new" /\ Stored' = Stored
  BY Zenon DEF Start, CallPlaces, Stored
<1>2. /\ call' \in [Requests -> CallRecords]
      /\ call'[r].at = "ready" /\ call'[r].key = k /\ call'[r].entry = NoRequest
      /\ ~call'[r].acted
      /\ \A q \in Requests : q # r => call'[q] = call[q]
  BY <1>1, StartType DEF OpsInv
<1> HIDE DEF OpsInv
<1>3. DataOK' /\ FlagsOK' /\ WithinLimit'
  BY Zenon, <1>1, <1>2 DEF OpsInv, DataOK, FlagsOK, WithinLimit
<1>4. PlacesOK'
  BY <1>2 DEF OpsInv, PlacesOK, Follows, Clean
<1>5. RepetitionsOK'
  BY <1>1, <1>2, NewCaller DEF OpsInv, DataOK, CallRecords, RepetitionsOK, Follows, Owns
<1>6. EntriesOK'
  BY <1>1, <1>2, NewCaller DEF OpsInv, DataOK, CallRecords, EntriesOK, Owns, Running
<1>7. TokenOK'
  BY Zenon, <1>1, <1>2, NewCaller DEF OpsInv, TokenOK, Holding
<1> QED
  BY Zenon, <1>3, <1>4, <1>5, <1>6, <1>7 DEF OpsInv

LEMMA RepeatStep ==
  ASSUME OpsInv, NEW r \in Requests, NEW k \in Keys, Repeat(r, k)
  PROVE  OpsInv'
<1>1. /\ "wait" \in CallPlaces /\ call[r].at = "new" /\ Stored' = Stored
      /\ table[k] \in Requests /\ NoRev \in {NoRev, revision}
  BY Zenon DEF OpsInv, DataOK, Repeat, Start, CallPlaces, Stored
<1>2. /\ call' \in [Requests -> CallRecords]
      /\ call'[r].at = "wait" /\ call'[r].key = k /\ call'[r].entry = table[k]
      /\ ~call'[r].acted
      /\ \A q \in Requests : q # r => call'[q] = call[q]
  BY <1>1, StartType DEF Repeat
<1>3. Owns(table[k]) /\ call[table[k]].key = k /\ table[k] # r
  BY Zenon, <1>1, NewCaller DEF OpsInv, EntriesOK
<1>4. DataOK' /\ FlagsOK' /\ WithinLimit'
  BY Zenon, <1>1, <1>2 DEF OpsInv, DataOK, FlagsOK, WithinLimit, Repeat
<1>5. PlacesOK'
  BY <1>1, <1>2, <1>3 DEF OpsInv, PlacesOK, Follows, Clean
<1>6. RepetitionsOK'
  BY <1>1, <1>2, <1>3, NewCaller DEF OpsInv, DataOK, CallRecords, RepetitionsOK, Follows, Owns
<1>7. EntriesOK'
  BY <1>1, <1>2, <1>3, NewCaller
     DEF OpsInv, DataOK, CallRecords, EntriesOK, Owns, Running, Repeat
<1>8. TokenOK'
  BY Zenon, <1>1, <1>2, NewCaller DEF OpsInv, TokenOK, Holding, Repeat
<1> QED
  BY Zenon, <1>4, <1>5, <1>6, <1>7, <1>8 DEF OpsInv

\* The table after an insertion has one entry more, or the same number.
LEMMA InsertSize ==
  ASSUME OpsInv, NEW r \in Requests, NEW k \in Keys, NEW rev, Insert(r, k, rev)
  PROVE  Cardinality(Stored') <= Limit
<1>1. k \notin Stored /\ table \in [Keys -> Requests \cup {NoRequest}] /\ Cardinality(Stored) <= Limit
  BY Zenon DEF OpsInv, DataOK, WithinLimit, Insert
<1>2. CASE Cardinality(Stored) < Limit /\ table' = [table EXCEPT ![k] = r]
  <2>1. Stored' = Stored \cup {k}
    BY Zenon, <1>1, <1>2 DEF Stored
  <2>2. Cardinality(Stored \cup {k}) = Cardinality(Stored) + 1
    BY Zenon, <1>1, StoredFinite, FS_AddElement
  <2> QED
    BY <1>2, <2>1, <2>2, StoredFinite
<1>3. CASE \E old \in Evictable : table' = [table EXCEPT ![old] = NoRequest, ![k] = r]
  <2>1. PICK old \in Evictable : table' = [table EXCEPT ![old] = NoRequest, ![k] = r]
    BY Zenon, <1>3
  <2>2. old \in Stored /\ old \in Keys
    BY Zenon DEF Evictable, Stored
  <2>3. Stored' = (Stored \ {old}) \cup {k}
    BY Zenon, <1>1, <2>1, <2>2 DEF Stored
  <2>4. IsFiniteSet(Stored \ {old}) /\ Cardinality(Stored \ {old}) = Cardinality(Stored) - 1
    BY Zenon, <2>2, StoredFinite, FS_RemoveElement
  <2>5. Cardinality((Stored \ {old}) \cup {k}) = Cardinality(Stored \ {old}) + 1
    BY Zenon, <1>1, <2>4, FS_AddElement
  <2> QED
    BY <1>1, <2>3, <2>4, <2>5, StoredFinite
<1> QED
  BY Zenon, <1>2, <1>3 DEF Insert

\* An insertion forgets at most the ID of an answered request.
LEMMA InsertStep ==
  ASSUME OpsInv, NEW r \in Requests, NEW k \in Keys, NEW rev \in {NoRev, revision},
         Insert(r, k, rev)
  PROVE  OpsInv'
<1>1. "ready" \in CallPlaces /\ call[r].at = "new" /\ table[k] = NoRequest
  BY Zenon DEF OpsInv, DataOK, Insert, Start, CallPlaces, Stored
<1>2. /\ call' \in [Requests -> CallRecords]
      /\ call'[r].at = "ready" /\ call'[r].key = k /\ call'[r].entry = r
      /\ ~call'[r].acted
      /\ \A q \in Requests : q # r => call'[q] = call[q]
  BY <1>1, StartType DEF Insert
<1>3. PICK old \in Keys \cup {NoKey} :
        /\ table' \in [Keys -> Requests \cup {NoRequest}]
        /\ table'[k] = r
        /\ \A x \in Keys : x # k => table'[x] = IF x = old THEN NoRequest ELSE table[x]
        /\ old \in Keys => table[old] \in answered /\ old \in forgotten'
        /\ forgotten' = forgotten \cup ({old} \cap Keys)
  <2>1. CASE table' = [table EXCEPT ![k] = r] /\ UNCHANGED forgotten
    <3> WITNESS NoKey \in Keys \cup {NoKey}
    <3> QED
      BY Zenon, <2>1 DEF OpsInv, DataOK
  <2>2. CASE \E x \in Evictable : /\ table' = [table EXCEPT ![x] = NoRequest, ![k] = r]
                                  /\ forgotten' = forgotten \cup {x}
    <3>1. PICK x \in Evictable : /\ table' = [table EXCEPT ![x] = NoRequest, ![k] = r]
                                 /\ forgotten' = forgotten \cup {x}
      BY Zenon, <2>2
    <3>2. x \in Keys /\ table[x] \in answered
      BY Zenon DEF Evictable, Stored
    <3> QED
      BY <3>1, <3>2 DEF OpsInv, DataOK
  <2> QED
    BY Zenon, <2>1, <2>2 DEF Insert
<1>4. UNCHANGED <<answered, holder, revision, latched, shut, repair>>
  BY Zenon DEF Insert
<1>5. DataOK' /\ FlagsOK' /\ WithinLimit'
  BY Zenon, <1>2, <1>3, <1>4, InsertSize DEF OpsInv, DataOK, FlagsOK, WithinLimit
<1>6. PlacesOK'
  BY <1>2 DEF OpsInv, PlacesOK, Follows, Clean
<1>7. RepetitionsOK'
  BY <1>1, <1>2, NewCaller DEF OpsInv, DataOK, CallRecords, RepetitionsOK, Follows, Owns
<1>8. EntriesOK'
  <2>1. \A q \in Requests : call'[q].entry = NoRequest => call'[q].key \in forgotten' \cup {NoKey}
    BY <1>2, <1>3 DEF OpsInv, EntriesOK
  <2>2. \A q \in Requests : Owns(q)' => call'[q].key \in Keys
    BY Zenon, <1>2 DEF OpsInv, EntriesOK, Owns
  <2>3. \A x \in Keys : table'[x] # NoRequest => Owns(table[x])' /\ call'[table'[x]].key = x
    BY <1>1, <1>2, <1>3, NewCaller DEF OpsInv, DataOK, EntriesOK, Owns
  <2>4. \A q \in Requests :
          Owns(q)' /\ (call'[q].at \in Running \/ call'[q].key \notin forgotten')
            => table'[call'[q].key] = q
    BY <1>1, <1>2, <1>3 DEF OpsInv, EntriesOK, Owns, Running
  <2>5. \A q \in answered' : call'[q].at = "done" /\ Owns(q)'
    BY <1>1, <1>2, <1>4 DEF OpsInv, DataOK, EntriesOK, Owns
  <2> QED
    BY Zenon, <2>1, <2>2, <2>3, <2>4, <2>5 DEF EntriesOK, Owns
<1>9. TokenOK'
  BY Zenon, <1>1, <1>2, <1>4, NewCaller DEF OpsInv, TokenOK, Holding
<1> QED
  BY Zenon, <1>5, <1>6, <1>7, <1>8, <1>9 DEF OpsInv

LEMMA ArriveStep ==
  ASSUME OpsInv, NEW r \in Requests, Arrive(r)
  PROVE  OpsInv'
<1>1. ASSUME NEW rev \in {NoRev, revision}, RunAnonymous(r, rev)
      PROVE  OpsInv'
  BY Zenon, <1>1, BareStep DEF RunAnonymous, OpsInv, DataOK
<1>2. ASSUME NEW rev \in {NoRev, revision}, NEW k \in Keys, Bypass(r, k, rev)
      PROVE  OpsInv'
  BY Zenon, <1>2, BareStep DEF Bypass, OpsInv, DataOK
<1> QED
  BY Zenon, <1>1, <1>2, RepeatStep, InsertStep DEF Arrive

-----------------------------------------------------------------------------
(* The invariant is inductive: requests that are served.                   *)

\* A served request keeps what it names; only its place, its effect and its
\* answer change, and the table stays.
Moves(r) ==
  /\ call' \in [Requests -> CallRecords]
  /\ call'[r].key = call[r].key /\ call'[r].rev = call[r].rev /\ call'[r].entry = call[r].entry
  /\ \A q \in Requests : q # r => call'[q] = call[q]
  /\ UNCHANGED <<table, shut, forgotten>>

\* What a move must respect for the invariant to survive it.
LEMMA MoveStep ==
  ASSUME OpsInv, NEW r \in Requests, Moves(r), call[r].at # "new", call'[r].at # "new",
         call'[r].at \in Running => call[r].at \in Running,
         call[r].at # "done",
         answered' = answered \/ (answered' = answered \cup ({r} \cap {call[r].entry}) /\ call'[r].at = "done"),
         call[r].acted => call'[r].acted,
         Follows(r) => call'[r].at = "done" /\ ~call'[r].acted,
         Follows(r) /\ call'[r].result = "ok" => call[call[r].entry].acted
  PROVE  RepetitionsOK' /\ EntriesOK'
<1>1. RepetitionsOK'
  BY DEF OpsInv, DataOK, CallRecords, RepetitionsOK, Follows, Owns, Moves
<1>2. EntriesOK'
  BY DEF OpsInv, DataOK, CallRecords, EntriesOK, Owns, Moves, Running
<1> QED
  BY Zenon, <1>1, <1>2

LEMMA CallToType ==
  ASSUME OpsInv, NEW r \in Requests, NEW p \in CallPlaces, CallTo(r, p),
         UNCHANGED <<table, shut, forgotten>>
  PROVE  Moves(r) /\ call'[r].at = p /\ call'[r].acted = call[r].acted
                  /\ call'[r].result = call[r].result
<1>1. call[r] \in CallRecords /\ [call[r] EXCEPT !.at = p] \in CallRecords
  BY Zenon, CallUpdate DEF OpsInv, DataOK
<1> QED
  BY Zenon, <1>1 DEF CallTo, Moves, OpsInv, DataOK, CallRecords

LEMMA AnswerType ==
  ASSUME OpsInv, NEW r \in Requests, NEW res \in Results, UNCHANGED <<table, shut, forgotten>>
  PROVE  /\ ReturnCall(r, res) =>
              Moves(r) /\ call'[r].at = "done" /\ call'[r].acted = call[r].acted /\ call'[r].result = res
         /\ Settle(r, res) =>
              Moves(r) /\ call'[r].at = "settle" /\ call'[r].acted = call[r].acted /\ call'[r].result = res
<1>1. CASE ReturnCall(r, res)
  <2>1. /\ call[r] \in CallRecords
        /\ [call[r] EXCEPT !.at = "done", !.result = res] \in CallRecords
    BY Zenon, CallUpdate DEF OpsInv, DataOK, CallPlaces
  <2> QED
    BY <1>1, <2>1 DEF Moves, OpsInv, DataOK, CallRecords, ReturnCall, Settle
<1>2. CASE Settle(r, res)
  <2>1. /\ call[r] \in CallRecords
        /\ [call[r] EXCEPT !.at = "settle", !.result = res] \in CallRecords
    BY Zenon, CallUpdate DEF OpsInv, DataOK, CallPlaces
  <2> QED
    BY <1>2, <2>1 DEF Moves, OpsInv, DataOK, CallRecords, ReturnCall, Settle
<1> QED
  BY Zenon, <1>1, <1>2

\* Owners and requests without an entry are the ones that run.
LEMMA RunnersOwn ==
  ASSUME OpsInv, NEW r \in Requests, call[r].at \in Running
  PROVE  ~Follows(r)
BY Zenon DEF OpsInv, RepetitionsOK, Running

\* A repetition's end: it is answered, or its client leaves.
LEMMA WaitSteps ==
  ASSUME OpsInv, NEW r \in Requests, RequestAnswered(r) \/ LeaveWait(r)
  PROVE  OpsInv'
<1>1. /\ call[r].at = "wait" /\ "done" \in CallPlaces /\ "cancelled" \in Results
      /\ UNCHANGED <<table, answered, holder, revision, latched, shut, repair, forgotten>>
  BY Zenon DEF RequestAnswered, LeaveWait, CallPlaces, Results
<1>2. Follows(r) /\ ~call[r].acted /\ call[r].entry \in Requests
  BY Zenon, <1>1 DEF OpsInv, DataOK, CallRecords, PlacesOK, Follows
<1>3. PICK res \in Results : /\ ReturnCall(r, res)
                             /\ res = "ok" => call[call[r].entry].acted
  <2>1. CASE LeaveWait(r)
    BY Zenon, <1>1, <2>1 DEF LeaveWait
  <2>2. CASE RequestAnswered(r)
    <3>1. call[call[r].entry].result \in Results
      BY Zenon, <1>2 DEF OpsInv, DataOK, CallRecords
    <3>2. call[call[r].entry].result = "ok" => call[call[r].entry].acted
      BY Zenon, <1>2, <2>2 DEF RequestAnswered, OpsInv, EntriesOK, PlacesOK, Owns, Follows
    <3> QED
      BY Zenon, <2>2, <3>1, <3>2 DEF RequestAnswered
  <2> QED
    BY Zenon, <2>1, <2>2
<1>4. Moves(r) /\ call'[r].at = "done" /\ ~call'[r].acted /\ call'[r].result = res
  BY Zenon, <1>1, <1>2, <1>3, AnswerType
<1>5. DataOK' /\ FlagsOK' /\ WithinLimit'
  BY Zenon, <1>1, <1>4 DEF OpsInv, DataOK, FlagsOK, WithinLimit, Stored, Moves
<1>6. PlacesOK'
  BY <1>1, <1>2, <1>4 DEF OpsInv, PlacesOK, Follows, Clean, Moves
<1>7. RepetitionsOK' /\ EntriesOK'
  BY Zenon, <1>1, <1>2, <1>3, <1>4, MoveStep DEF Running
<1>8. TokenOK'
  BY Zenon, <1>1, <1>4 DEF OpsInv, TokenOK, Holding, Moves
<1> QED
  BY Zenon, <1>5, <1>6, <1>7, <1>8 DEF OpsInv

\* The steps of a request that runs, given what each does to its place.
LEMMA RunStep ==
  ASSUME OpsInv, NEW r \in Requests, Moves(r), call[r].at \in Running,
         call'[r].at \in Running \cup {"done"},
         answered' = answered \/ (answered' = answered \cup ({r} \cap {call[r].entry}) /\ call'[r].at = "done"),
         call[r].acted => call'[r].acted,
         call'[r].at \in {"ready", "lock", "held"} => ~call'[r].acted,
         call'[r].at = "publish" => call'[r].acted,
         call'[r].at \in {"settle", "done"} /\ call'[r].result \in Clean => ~call'[r].acted,
         call'[r].at \in {"settle", "done"} /\ call'[r].result = "ok" => call'[r].acted,
         revision' \in Nat, holder' \in Requests \cup {NoRequest}, latched' \in BOOLEAN, repair' \in BOOLEAN,
         TokenOK'
  PROVE  OpsInv'
<1>1. ~Follows(r)
  BY Zenon, RunnersOwn
<1>2. DataOK' /\ FlagsOK' /\ WithinLimit'
  BY Zenon DEF OpsInv, DataOK, FlagsOK, WithinLimit, Stored, Moves
<1>3. PlacesOK'
  BY <1>1 DEF OpsInv, PlacesOK, Follows, Clean, Moves, Running
<1>4. RepetitionsOK' /\ EntriesOK'
  BY Zenon, <1>1, MoveStep DEF Running
<1> QED
  BY Zenon, <1>2, <1>3, <1>4 DEF OpsInv

LEMMA ServeStep ==
  ASSUME OpsInv, NEW r \in Requests,
         Execute(r) \/ LockMutation(r) \/ LeaveLock(r) \/ Mutate(r) \/ Publish(r)
           \/ PublishCommittedError(r) \/ Finish(r)
  PROVE  OpsInv'
<1> USE DEF Running, Holding, Clean
<1>1. /\ {"ready", "lock", "held", "publish", "settle", "done"} \subseteq CallPlaces
      /\ {"none", "ok", "failed", "conflict", "refused", "cancelled"} \subseteq Results
  BY Zenon DEF CallPlaces, Results
<1>2. /\ holder \in Requests \cup {NoRequest} /\ revision \in Nat /\ FlagsOK
      /\ call[r].at \in {"held", "publish"} <=> holder = r
      /\ call[r].at \in {"ready", "lock", "held"} => ~call[r].acted
      /\ call[r].at = "settle" => /\ call[r].result \in Clean => ~call[r].acted
                                  /\ call[r].result = "ok" => call[r].acted
      /\ call[r].at = "publish" => call[r].acted
  BY Zenon, RunnersOwn DEF OpsInv, DataOK, TokenOK, PlacesOK
<1>3. CASE Execute(r)
  <2>1. UNCHANGED <<table, answered, holder, revision, latched, shut, repair, forgotten>>
    BY Zenon, <1>3 DEF Execute
  <2>2. /\ Moves(r) /\ call[r].at = "ready" /\ call'[r].acted = call[r].acted
        /\ \/ call'[r].at = "lock"
           \/ call'[r].at = "settle" /\ call'[r].result = "refused"
    BY Zenon, <1>1, <1>3, <2>1, AnswerType, CallToType DEF Execute
  <2>3. TokenOK'
    BY Zenon, <2>1, <2>2 DEF OpsInv, TokenOK, Moves
  <2> QED
    BY Zenon, <1>2, <2>1, <2>2, <2>3, RunStep DEF FlagsOK
<1>4. CASE LockMutation(r)
  <2>1. UNCHANGED <<table, answered, revision, latched, shut, repair, forgotten>>
    BY Zenon, <1>4 DEF LockMutation
  <2>2. /\ Moves(r) /\ call[r].at = "lock" /\ call'[r].acted = call[r].acted /\ holder = NoRequest
        /\ \/ /\ call'[r].at = "settle" /\ call'[r].result \in {"refused", "conflict"}
              /\ holder' = holder
           \/ call'[r].at = "held" /\ holder' = r /\ call[r].rev \in {NoRev, revision}
    BY Zenon, <1>1, <1>4, <2>1, AnswerType, CallToType DEF LockMutation
  <2>3. TokenOK'
    BY <2>1, <2>2 DEF OpsInv, TokenOK, Moves
  <2> QED
    BY Zenon, <1>2, <2>1, <2>2, <2>3, RunStep DEF FlagsOK
<1>5. CASE LeaveLock(r)
  <2>1. UNCHANGED <<table, answered, holder, revision, latched, shut, repair, forgotten>>
    BY Zenon, <1>5 DEF LeaveLock
  <2>2. /\ Moves(r) /\ call[r].at = "lock" /\ call'[r].acted = call[r].acted
        /\ call'[r].at = "settle" /\ call'[r].result = "cancelled"
    BY Zenon, <1>1, <1>5, <2>1, AnswerType DEF LeaveLock
  <2>3. TokenOK'
    BY Zenon, <2>1, <2>2 DEF OpsInv, TokenOK, Moves
  <2> QED
    BY Zenon, <1>2, <2>1, <2>2, <2>3, RunStep DEF FlagsOK
<1>6. CASE Mutate(r)
  <2>1. UNCHANGED <<table, answered, revision, latched, shut, repair, forgotten>>
    BY Zenon, <1>6 DEF Mutate
  <2>2. PICK acted \in BOOLEAN, ok \in BOOLEAN :
          /\ ok => acted
          /\ call' = [call EXCEPT ![r].acted = acted,
                                  ![r].at = IF ok THEN "publish" ELSE "settle",
                                  ![r].result = IF ok THEN "none" ELSE "failed"]
          /\ holder' = IF ok THEN r ELSE NoRequest
    BY Zenon, <1>6 DEF Mutate
  <2>3. DEFINE p == IF ok THEN "publish" ELSE "settle"
               res == IF ok THEN "none" ELSE "failed"
  <2>4. p \in CallPlaces /\ res \in Results
    BY Zenon, <1>1
  <2>5. /\ call[r] \in CallRecords
        /\ [call[r] EXCEPT !.acted = acted, !.at = p, !.result = res] \in CallRecords
    <3> HIDE DEF p, res
    <3> QED
      BY Zenon, <2>4, CallUpdate DEF OpsInv, DataOK
  <2>6. /\ Moves(r) /\ call[r].at = "held" /\ call'[r].acted = acted
        /\ call'[r].at = p /\ call'[r].result = res
    <3>1. call \in [Requests -> CallRecords] /\ call[r].at = "held"
      BY Zenon, <1>6 DEF Mutate, OpsInv, DataOK
    <3>2. call' = [call EXCEPT ![r] = [call[r] EXCEPT !.acted = acted, !.at = p, !.result = res]]
      BY <2>2, <3>1
    <3>3. call' \in [Requests -> CallRecords] /\ \A q \in Requests : q # r => call'[q] = call[q]
      BY Zenon, <2>5, <3>1, <3>2
    <3>4. call'[r] = [call[r] EXCEPT !.acted = acted, !.at = p, !.result = res]
      BY Zenon, <3>1, <3>2
    <3> HIDE DEF p, res
    <3>5. /\ call'[r].key = call[r].key /\ call'[r].rev = call[r].rev /\ call'[r].entry = call[r].entry
          /\ call'[r].acted = acted /\ call'[r].at = p /\ call'[r].result = res
      BY <2>5, <3>4 DEF CallRecords
    <3> QED
      BY Zenon, <2>1, <3>1, <3>3, <3>5 DEF Moves
  <2>7. TokenOK'
    BY <1>2, <2>1, <2>2, <2>6 DEF OpsInv, TokenOK, Moves
  <2>8. /\ \/ call'[r].at = "publish" /\ call'[r].acted
           \/ call'[r].at = "settle" /\ call'[r].result = "failed"
        /\ holder' \in Requests \cup {NoRequest} /\ ~call[r].acted
    BY Zenon, <1>2, <2>2, <2>6
  <2> QED
    BY Zenon, <1>2, <2>1, <2>6, <2>7, <2>8, RunStep DEF FlagsOK
<1>7. CASE Publish(r)
  <2>1. UNCHANGED <<table, answered, latched, shut, forgotten>>
    BY Zenon, <1>7 DEF Publish
  <2>2. /\ Moves(r) /\ call[r].at = "publish" /\ call'[r].acted = call[r].acted
        /\ call'[r].at = "settle" /\ call'[r].result = "ok" /\ holder' = NoRequest
        /\ revision' = revision + 1 /\ repair' \in BOOLEAN
    BY Zenon, <1>1, <1>7, <2>1, AnswerType DEF Publish
  <2>3. TokenOK'
    BY Zenon, <1>2, <2>1, <2>2 DEF OpsInv, TokenOK, Moves
  <2> QED
    BY <1>2, <2>1, <2>2, <2>3, RunStep DEF FlagsOK
<1>8. CASE PublishCommittedError(r)
  <2>1. UNCHANGED <<table, answered, shut, repair, forgotten>>
    BY Zenon, <1>8 DEF PublishCommittedError
  <2>2. /\ Moves(r) /\ call[r].at = "publish" /\ call'[r].acted = call[r].acted
        /\ call'[r].at = "settle" /\ call'[r].result = "failed" /\ holder' = NoRequest
        /\ revision' = revision + 1 /\ latched' = TRUE
    BY Zenon, <1>1, <1>8, <2>1, AnswerType DEF PublishCommittedError
  <2>3. TokenOK'
    BY Zenon, <1>2, <2>1, <2>2 DEF OpsInv, TokenOK, Moves
  <2> QED
    BY <1>2, <2>1, <2>2, <2>3, RunStep DEF FlagsOK
<1>9. CASE Finish(r)
  <2>1. /\ UNCHANGED <<table, holder, revision, latched, shut, repair, forgotten>>
        /\ answered' = answered \cup ({r} \cap {call[r].entry})
    BY Zenon, <1>9 DEF Finish
  <2>2. /\ Moves(r) /\ call[r].at = "settle" /\ call'[r].acted = call[r].acted
        /\ call'[r].at = "done" /\ call'[r].result = call[r].result
    BY Zenon, <1>1, <1>9, <2>1, CallToType DEF Finish
  <2>3. TokenOK'
    BY Zenon, <2>1, <2>2 DEF OpsInv, TokenOK, Moves
  <2> QED
    BY Zenon, <1>2, <2>1, <2>2, <2>3, RunStep DEF FlagsOK
<1> QED
  BY Zenon, <1>3, <1>4, <1>5, <1>6, <1>7, <1>8, <1>9

-----------------------------------------------------------------------------
(* The theorems.                                                           *)

LEMMA InitInv == OpsInit => OpsInv
<1> SUFFICES ASSUME OpsInit PROVE OpsInv
  OBVIOUS
<1>1. NewCall \in CallRecords
  BY Zenon DEF NewCall, CallRecords, CallPlaces, Results, NoRev
<1>2. DataOK /\ FlagsOK
  BY Zenon, <1>1 DEF OpsInit, DataOK, FlagsOK
<1>3. PlacesOK /\ RepetitionsOK /\ EntriesOK /\ TokenOK
  BY Zenon DEF OpsInit, NewCall, PlacesOK, RepetitionsOK, EntriesOK, TokenOK, Follows,
     Owns, Running, Holding
<1>4. Stored = {}
  BY Zenon DEF OpsInit, Stored
<1>5. WithinLimit
  BY <1>4, FS_EmptySet DEF WithinLimit
<1> QED
  BY Zenon, <1>2, <1>3, <1>5 DEF OpsInv

LEMMA NextInv == OpsInv /\ [OpsNext]_opsVars => OpsInv'
<1> SUFFICES ASSUME OpsInv, [OpsNext]_opsVars PROVE OpsInv'
  OBVIOUS
<1>1. CASE SetCoreState
  <2>1. /\ DataOK' /\ FlagsOK' /\ WithinLimit'
    BY <1>1 DEF SetCoreState, OpsInv, DataOK, FlagsOK, WithinLimit, Stored
  <2>2. PlacesOK' /\ RepetitionsOK' /\ EntriesOK'
    BY <1>1 DEF SetCoreState, OpsInv, PlacesOK, RepetitionsOK, EntriesOK, Follows, Owns
  <2>3. TokenOK'
    BY Zenon, <1>1 DEF SetCoreState, OpsInv, TokenOK, Holding
  <2> QED
    BY Zenon, <2>1, <2>2, <2>3 DEF OpsInv
<1>2. CASE Closing \/ UNCHANGED opsVars
  <2>1. DataOK' /\ FlagsOK' /\ WithinLimit'
    BY Zenon, <1>2 DEF Closing, opsVars, OpsInv, DataOK, FlagsOK, WithinLimit, Stored
  <2>2. PlacesOK' /\ RepetitionsOK' /\ EntriesOK' /\ TokenOK'
    BY <1>2 DEF Closing, opsVars, OpsInv, PlacesOK, RepetitionsOK, EntriesOK, TokenOK, Follows, Owns
  <2> QED
    BY Zenon, <2>1, <2>2 DEF OpsInv
<1>3. ASSUME NEW r \in Requests, Arrive(r) \/ Serve(r) \/ LeaveWait(r) \/ LeaveLock(r)
      PROVE  OpsInv'
  BY Zenon, <1>3, ArriveStep, WaitSteps, ServeStep DEF Serve
<1> QED
  BY Zenon, <1>1, <1>2, <1>3 DEF OpsNext

THEOREM Invariance == OpsSpec => []OpsInv
BY InitInv, NextInv, PTL DEF OpsSpec

\* The invariant contains the four promises of OpsSafe.
LEMMA InvIsSafe == OpsInv => OpsSafe
<1> SUFFICES ASSUME OpsInv PROVE OpsSafe
  OBVIOUS
<1>1. OpsTypeOK
  BY Zenon DEF OpsInv, DataOK, FlagsOK, TokenOK, Holding, OpsTypeOK, CallRecords
<1>2. OncePerID
  <2> SUFFICES ASSUME NEW k \in Keys \ forgotten
               PROVE  Cardinality({r \in Requests : call[r].key = k /\ call[r].acted}) <= 1
    BY Zenon DEF OncePerID
  <2>1. ASSUME NEW r \in Requests, call[r].key = k, call[r].acted
        PROVE  table[k] = r
    BY <2>1 DEF OpsInv, EntriesOK, RepetitionsOK, Follows, Owns
  <2> QED
    BY Zenon, <2>1, AtMostOne
<1>3. HonestAnswer
  BY Zenon DEF OpsInv, DataOK, CallRecords, PlacesOK, RepetitionsOK, Follows, HonestAnswer
<1>4. TableBounded
  BY Zenon DEF OpsInv, WithinLimit, EntriesOK, Owns, Running, TableBounded
<1> QED
  BY Zenon, <1>1, <1>2, <1>3, <1>4 DEF OpsSafe

\* For any requests, keys and table size: an operation ID the table has not
\* forgotten acts at most once, every answer is true to the effect, the table
\* keeps its limit and its running operations (doOperation).
THEOREM OperationsAreSafe == OpsSpec => []OpsSafe
BY Invariance, InvIsSafe, PTL

\* A mutation takes effect in Mutate alone, while its request holds the token.
LEMMA ActsWhileHeld ==
  ASSUME OpsInv, [OpsNext]_opsVars, NEW r \in Requests, ~call[r].acted, call'[r].acted
  PROVE  call[r].at = "held"
<1>1. call \in [Requests -> CallRecords]
  BY Zenon DEF OpsInv, DataOK
<1>2. ASSUME NEW q \in Requests, Arrive(q)
      PROVE  call'[r].acted = call[r].acted
  <2>1. \A k, rev, p, e : Start(q, k, rev, p, e) => call'[r].acted = call[r].acted
    BY <1>1 DEF Start, CallRecords
  <2> QED
    BY Zenon, <1>2, <2>1 DEF Arrive, RunAnonymous, Repeat, Insert, Bypass
<1>3. /\ \A q \in Requests : \A p : CallTo(q, p) => call'[r].acted = call[r].acted
      /\ \A q \in Requests : \A res : Settle(q, res) => call'[r].acted = call[r].acted
      /\ \A q \in Requests : \A res : ReturnCall(q, res) => call'[r].acted = call[r].acted
  <2>1. ASSUME NEW q \in Requests, NEW p, CallTo(q, p) PROVE call'[r].acted = call[r].acted
    BY <1>1, <2>1 DEF CallTo, CallRecords
  <2>2. ASSUME NEW q \in Requests, NEW res, Settle(q, res) PROVE call'[r].acted = call[r].acted
    BY <1>1, <2>2 DEF Settle, CallRecords
  <2>3. ASSUME NEW q \in Requests, NEW res, ReturnCall(q, res) PROVE call'[r].acted = call[r].acted
    BY <1>1, <2>3 DEF ReturnCall, CallRecords
  <2> QED
    BY Zenon, <2>1, <2>2, <2>3
<1>4. ASSUME NEW q \in Requests,
             \/ RequestAnswered(q) \/ LeaveWait(q) \/ Execute(q) \/ LockMutation(q) \/ LeaveLock(q)
             \/ Publish(q) \/ PublishCommittedError(q) \/ Finish(q)
      PROVE  call'[r].acted = call[r].acted
  BY Zenon, <1>3, <1>4 DEF RequestAnswered, LeaveWait, Execute, LockMutation, LeaveLock,
     Publish, PublishCommittedError, Finish
<1>5. ASSUME NEW q \in Requests, Mutate(q)
      PROVE  call[r].at = "held"
  BY Zenon, <1>1, <1>5 DEF Mutate, CallRecords
<1>6. CASE SetCoreState \/ Closing \/ UNCHANGED opsVars
  BY Zenon, <1>6 DEF SetCoreState, Closing, opsVars
<1> QED
  BY Zenon, <1>2, <1>4, <1>5, <1>6 DEF OpsNext, Serve

\* No mutation takes effect on a revision other than the one it named: what is
\* compared under the token stays true until the effect (withControllerMutation).
THEOREM NoUpdateIsLost == OpsSpec => NoLostUpdate
<1>1. ASSUME OpsInv, [OpsNext]_opsVars, NEW r \in Requests, ~call[r].acted, call'[r].acted,
             call[r].rev # NoRev
      PROVE  revision = call[r].rev
  BY Zenon, <1>1, ActsWhileHeld DEF OpsInv, TokenOK
<1>2. OpsInv /\ [OpsNext]_opsVars =>
        [\A r \in Requests :
           ~call[r].acted /\ call'[r].acted /\ call[r].rev # NoRev => revision = call[r].rev]_opsVars
  BY Zenon, <1>1
<1> QED
  BY <1>2, Invariance, PTL DEF OpsSpec, NoLostUpdate
=============================================================================
