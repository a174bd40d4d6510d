--------------------------- MODULE SubscriptionPage ---------------------------
(***************************************************************************)
(* The terminal interface's subscriptions page (internal/tui/pages/        *)
(* subscriptions): a list with actions of its own, and a dialog that adds  *)
(* or edits one subscription. Every request runs beside the interface and  *)
(* its answer comes back as a message, in any order, perhaps after the     *)
(* dialog was closed or another one opened; a request given up may still   *)
(* be executed. Guards by dialog epoch, connection epoch, query number and *)
(* operation decide what an answer may change.                             *)
(***************************************************************************)
EXTENDS Naturals, FiniteSets

CONSTANTS
  OldIds, NewIds,    \* subscriptions there at first, and identifiers of later ones (numbers)
  Plans              \* what a user does: keys and dialogs used, and the bounds on operations,
                     \* dialogs, queries of checkSave, changes by other clients, lost connections

AllIds == OldIds \cup NewIds

ASSUME PageAssumption ==
  /\ AllIds \subseteq Nat \ {0} /\ \A i \in OldIds, j \in NewIds : i < j
  /\ Plans \subseteq [keys : SUBSET {"toggle", "update", "refresh", "use", "remove", "all", "focus"},
                      forms : SUBSET {"add", "edit"},
                      posts : Nat, dialogs : Nat, checks : Nat, theirs : Nat, drops : Nat]

VARIABLES
  cat,     \* the daemon: rows, active, revision, and the operations it executed
  sp,      \* the page
  posts,   \* mutations between page and daemon
  asks,    \* checkSave's queries
  reads,   \* reads of a URL for the dialog
  lists,   \* lists on their way to the page
  polls,   \* savePollMsg
  theirs, drops, plan

subVars == <<cat, sp, posts, asks, reads, lists, polls, theirs, drops, plan>>

NoSub == [name |-> "none", on |-> FALSE, cached |-> FALSE]
NoForm == [kind |-> "none"]
NoAction == [kind |-> "none"]
AddKey == 0
NoURL == [of |-> 0, v |-> "none"]

SubInit ==
  /\ plan \in Plans
  /\ cat = [rows |-> [i \in AllIds |-> IF i \in OldIds THEN [name |-> "base", on |-> TRUE, cached |-> TRUE] ELSE NoSub],
            urls |-> [i \in AllIds |-> "base"], active |-> 0, rev |-> 1, ran |-> {}, added |-> {}]
  /\ sp = [rows |-> cat.rows, active |-> 0, rev |-> 1, focus |-> CHOOSE i \in OldIds : \A j \in OldIds : i <= j,
           pend |-> {}, cancels |-> {}, intent |-> NoAction, form |-> NoForm, epoch |-> 0,
           save |-> "editing", op |-> 0, yes |-> FALSE, seq |-> 0, query |-> FALSE, lost |-> FALSE, conn |-> 0,
           nextOp |-> 1, again |-> {}]
  /\ posts = {} /\ asks = {} /\ reads = {} /\ lists = {} /\ polls = {}
  /\ theirs = 0 /\ drops = 0

-----------------------------------------------------------------------------
(* The list *)

Present(rows) == {i \in AllIds : rows[i] # NoSub}
Index(rows, id) == Cardinality({i \in Present(rows) : i < id})
RowAt(rows, k) == CHOOSE i \in Present(rows) : Index(rows, i) = k
Lesser(a, b) == IF a < b THEN a ELSE b

\* The row that takes the focus when the one at position k is gone
Nearest(rows, k) == IF Present(rows) = {} THEN 0 ELSE RowAt(rows, Lesser(k, Cardinality(Present(rows)) - 1))

SetSubscriptions(u, l) ==
  [u EXCEPT !.rows = l.rows, !.active = l.active, !.rev = l.rev,
            !.focus = IF @ \in Present(l.rows) THEN @
                      ELSE Nearest(l.rows, IF @ \in Present(u.rows) THEN Index(u.rows, @) ELSE 0)]

Upsert(u, id, row) ==
  [u EXCEPT !.rows[id] = row, !.focus = IF id \in Present(u.rows) THEN @ ELSE id]

RemoveLocal(u, id) ==
  IF id \notin Present(u.rows) THEN u
  ELSE LET rows == [u.rows EXCEPT ![id] = NoSub] IN
       [u EXCEPT !.rows = rows, !.active = IF @ = id THEN 0 ELSE @,
                 !.focus = Nearest(rows, Index(u.rows, id))]

Shows(u) == sp' = u

-----------------------------------------------------------------------------
(* Requests *)

Post(op, kind, id, rev, dialog) ==
  [op |-> op, kind |-> kind, id |-> id, rev |-> rev, dialog |-> dialog, detail |-> FALSE, want |-> FALSE,
   name |-> "keep", url |-> "keep", allow |-> FALSE, todo |-> {}, srv |-> "sent", out |-> "none", orev |-> 0, row |-> NoSub, made |-> 0, gone |-> FALSE]

\* toggle, cycleProxy, refresh and use, from the list
ListAction(kind) ==
  /\ kind \in plan.keys /\ sp.form = NoForm /\ sp.intent = NoAction /\ sp.focus # 0 /\ sp.nextOp <= plan.posts
  /\ posts' = posts \cup {[Post(sp.nextOp, kind, sp.focus, sp.rev, 0) EXCEPT !.want = kind = "toggle" /\ ~sp.rows[sp.focus].on]}
  /\ Shows([sp EXCEPT !.pend = @ \cup {sp.focus}, !.nextOp = @ + 1,
                                   !.cancels = IF kind = "refresh" THEN @ \cup {sp.nextOp} ELSE @])
  /\ UNCHANGED <<cat, asks, reads, lists, polls, theirs, drops>>

\* "d" and "ctrl+r" ask the shell for a confirmation; the identity and the revision of
\* the request are those of the moment of asking.
Intend(kind) ==
  /\ kind \in plan.keys /\ sp.form = NoForm /\ sp.intent = NoAction /\ sp.focus # 0 /\ sp.nextOp <= plan.posts
  /\ Shows([sp EXCEPT !.nextOp = @ + 1,
                      !.intent = [Post(sp.nextOp, kind, sp.focus, sp.rev, 0) EXCEPT
                                    !.todo = IF kind = "all" THEN Present(sp.rows) ELSE {}],
                      !.cancels = IF kind = "all" THEN @ \cup {sp.nextOp} ELSE @])
  /\ UNCHANGED <<cat, posts, asks, reads, lists, polls, theirs, drops>>

\* The shell's answer: Executes, or Cancel with canceledRefreshAllMsg
ShellAnswers(yes) ==
  /\ sp.intent # NoAction
  /\ posts' = posts \cup (IF yes THEN {sp.intent} ELSE {})
  /\ Shows([sp EXCEPT !.intent = NoAction, !.cancels = IF yes THEN @ ELSE @ \ {sp.intent.op}])
  /\ UNCHANGED <<cat, asks, reads, lists, polls, theirs, drops>>

FocusMoves ==
  /\ "focus" \in plan.keys /\ sp.form = NoForm /\ sp.intent = NoAction
  /\ \E i \in Present(sp.rows) :
       /\ Index(sp.rows, i) + 1 = Index(sp.rows, sp.focus) \/ Index(sp.rows, i) = Index(sp.rows, sp.focus) + 1
       /\ Shows([sp EXCEPT !.focus = i])
  /\ UNCHANGED <<cat, posts, asks, reads, lists, polls, theirs, drops>>

-----------------------------------------------------------------------------
(* The dialog *)

\* readFormURL: not when the URL is known or was typed over
Reading(u) ==
  IF u.form.kind # "edit" \/ u.form.touched \/ u.form.base # NoURL THEN {}
  ELSE {[epoch |-> u.epoch, conn |-> u.conn, id |-> u.form.id]}

OpenForm(kind) ==
  /\ kind \in plan.forms /\ sp.form = NoForm /\ sp.intent = NoAction /\ sp.epoch < 2 * plan.dialogs
  /\ kind = "edit" => sp.focus # 0
  /\ LET u == [sp EXCEPT !.epoch = @ + 1, !.save = "editing", !.yes = FALSE,
                         !.form = [kind |-> kind, id |-> IF kind = "edit" THEN sp.focus ELSE 0, rev |-> sp.rev,
                                   was |-> IF kind = "edit" THEN sp.rows[sp.focus].name ELSE "none",
                                   name |-> IF kind = "edit" THEN sp.rows[sp.focus].name ELSE "mine",
                                   url |-> NoURL, base |-> NoURL, touched |-> kind = "add", allow |-> FALSE,
                                   action |-> 0, uncertain |-> FALSE]]
     IN Shows(u) /\ reads' = reads \cup Reading(u)
  /\ UNCHANGED <<cat, posts, asks, lists, polls, theirs, drops>>

CloseForm(u) == [u EXCEPT !.epoch = @ + 1, !.form = NoForm, !.op = 0, !.save = "editing", !.query = FALSE]

Editable == sp.form # NoForm /\ sp.save = "editing" /\ sp.form.action = 0 /\ ~sp.form.uncertain

TypeName ==
  /\ Editable /\ sp.form.kind = "edit"
  /\ Shows([sp EXCEPT !.form.name = "mine"])
  /\ UNCHANGED <<cat, posts, asks, reads, lists, polls, theirs, drops>>

TypeURL ==
  /\ Editable /\ sp.form.kind = "edit"
  /\ Shows([sp EXCEPT !.form.url = [of |-> sp.form.id, v |-> "mine"], !.form.touched = TRUE, !.form.allow = FALSE])
  /\ UNCHANGED <<cat, posts, asks, reads, lists, polls, theirs, drops>>

\* updateRequest: only what differs from what the dialog was opened with
PatchName(f) == IF f.name = f.was THEN "keep" ELSE f.name
PatchURL(f) == IF f.touched /\ f.url # NoURL /\ f.url # f.base THEN f.url.v ELSE "keep"
EmptyPatch(f) == PatchName(f) = "keep" /\ PatchURL(f) = "keep"

\* submitForm: a new operation every time
Submitted(u, rev) ==
  [Post(u.nextOp, IF u.form.kind = "add" THEN "add" ELSE "update", u.form.id, rev, 0) EXCEPT
     !.name = IF u.form.kind = "add" THEN "mine" ELSE PatchName(u.form), !.url = PatchURL(u.form),
     !.allow = u.form.allow, !.dialog = u.epoch]

Submitting(u) ==
  [u EXCEPT !.save = "sending", !.op = u.nextOp, !.nextOp = @ + 1,
                         !.pend = @ \cup {IF u.form.kind = "add" THEN AddKey ELSE u.form.id}]

\* Enter on the last field; an edit without a change closes the dialog.
PressSave ==
  /\ Editable
  /\ \/ /\ sp.form.kind = "edit" /\ EmptyPatch(sp.form)
        /\ Shows(CloseForm(sp)) /\ UNCHANGED posts
     \/ /\ sp.form.kind = "add" \/ ~EmptyPatch(sp.form)
        /\ sp.nextOp <= plan.posts
        /\ posts' = posts \cup {Submitted(sp, sp.form.rev)}
        /\ Shows(Submitting(sp))
  /\ UNCHANGED <<cat, asks, reads, lists, polls, theirs, drops>>

\* submitDetailAction
MayAct(kind) ==
  /\ sp.form.id \in Present(sp.rows) /\ ~sp.lost /\ sp.form.id \notin sp.pend
  /\ kind = "use" => sp.form.id # sp.active /\ sp.rows[sp.form.id].on /\ sp.rows[sp.form.id].cached

DetailAction(kind) ==
  /\ Editable /\ sp.form.kind = "edit" /\ sp.nextOp <= plan.posts
  /\ MayAct(kind)
  /\ posts' = posts \cup {[Post(sp.nextOp, kind, sp.form.id, sp.rev, sp.epoch) EXCEPT
                          !.detail = TRUE, !.want = kind = "toggle" /\ ~sp.rows[sp.form.id].on]}
  /\ Shows([sp EXCEPT !.form.action = sp.nextOp, !.nextOp = @ + 1, !.pend = @ \cup {sp.form.id},
                                   !.cancels = @ \cup {sp.nextOp}])
  /\ UNCHANGED <<cat, asks, reads, lists, polls, theirs, drops>>

-----------------------------------------------------------------------------
(* After a save was sent *)

Checking(u) == [u EXCEPT !.seq = @ + 1, !.query = TRUE, !.save = "checking"]

\* checkSave's query. Only an unknown outcome and a retry ask for the operation first.
Ask(u, purpose) ==
  [epoch |-> u.epoch, seq |-> u.seq, purpose |-> purpose, op |-> u.op, id |-> u.form.id,
   name |-> PatchName(u.form), url |-> PatchURL(u.form), at |-> IF purpose = "conflict" THEN "list" ELSE "status",
   out |-> "none", matches |-> FALSE, list |-> [rows |-> [i \in AllIds |-> NoSub], active |-> 0, rev |-> 0]]

\* u with a query on its way; nothing happens while the connection is lost.
ChecksFrom(u, purpose) ==
  IF u.lost THEN Shows(u) /\ UNCHANGED asks
  ELSE u.seq < plan.checks /\ Shows(Checking(u)) /\ asks' = asks \cup {Ask(Checking(u), purpose)}

Deciding == sp.form # NoForm /\ sp.save \in {"conflict", "retry", "refs"}

\* updateSaveKeys: Esc; closing does not cancel the save.
SaveEsc ==
  /\ sp.form # NoForm /\ sp.save \notin {"editing", "sending"}
  /\ Shows(IF sp.save = "retry" THEN [sp EXCEPT !.save = "unknown"] ELSE CloseForm(sp))
  /\ UNCHANGED <<cat, posts, asks, reads, lists, polls, theirs, drops>>

SaveTurns ==
  /\ Deciding
  /\ Shows([sp EXCEPT !.yes = ~@])
  /\ UNCHANGED <<cat, posts, asks, reads, lists, polls, theirs, drops>>

SaveRefused ==
  /\ Deciding /\ ~sp.yes
  /\ Shows(IF sp.save = "retry" THEN [sp EXCEPT !.save = "unknown"] ELSE CloseForm(sp))
  /\ UNCHANGED <<cat, posts, asks, reads, lists, polls, theirs, drops>>

SaveConfirmed ==
  /\ Deciding /\ sp.yes
  /\ IF sp.save = "refs"
     THEN LET u == [sp EXCEPT !.form.allow = TRUE] IN
          /\ sp.nextOp <= plan.posts
          /\ posts' = posts \cup {Submitted(u, u.form.rev)} /\ Shows(Submitting(u))
          /\ UNCHANGED asks
     ELSE ChecksFrom(sp, sp.save) /\ UNCHANGED posts
  /\ UNCHANGED <<cat, reads, lists, polls, theirs, drops>>

\* Enter on an unknown or a running save
SaveEnter ==
  /\ sp.form # NoForm /\ ~sp.lost
  /\ \/ sp.save = "unknown" /\ Shows([sp EXCEPT !.save = "retry", !.yes = FALSE]) /\ UNCHANGED asks
     \/ sp.save = "running" /\ ChecksFrom(sp, "unknown")
  /\ UNCHANGED <<cat, posts, reads, lists, polls, theirs, drops>>

\* Esc while editing, and while an action runs
FormEsc ==
  /\ sp.form # NoForm /\ sp.save = "editing"
  /\ Shows(CloseForm(sp))
  /\ UNCHANGED <<cat, posts, asks, reads, lists, polls, theirs, drops>>

\* savePollMsg
Poll(e) ==
  /\ e \in polls /\ polls' = polls \ {e}
  /\ IF sp.form # NoForm /\ e = sp.epoch /\ sp.save = "running" /\ ~sp.lost
     THEN ChecksFrom(sp, "unknown")
     ELSE UNCHANGED <<sp, asks>>
  /\ UNCHANGED <<cat, posts, reads, lists, theirs, drops>>

\* ObserveConnection
Disconnects ==
  /\ ~sp.lost /\ drops < plan.drops /\ drops' = drops + 1
  /\ Shows([sp EXCEPT !.lost = TRUE, !.conn = @ + 1, !.seq = IF sp.query THEN @ + 1 ELSE @,
                      !.save = IF sp.form # NoForm /\ @ \in {"checking", "running"} THEN "unknown" ELSE @])
  /\ UNCHANGED <<cat, posts, asks, reads, lists, polls, theirs>>

Reconnects ==
  /\ sp.lost
  /\ LET u == [sp EXCEPT !.lost = FALSE, !.conn = @ + 1] IN
     IF u.form # NoForm /\ u.save \in {"unknown", "running"}
     THEN ChecksFrom(u, "unknown")
     ELSE Shows(u) /\ UNCHANGED asks
  /\ UNCHANGED <<cat, posts, reads, lists, polls, theirs, drops>>

-----------------------------------------------------------------------------
(* Answers that reach the page *)

\* finishSave
FinishSave(u, p) ==
  LET v == [u EXCEPT !.pend = @ \ {p.id, AddKey}]
      id == IF p.kind = "add" THEN p.made ELSE p.id
  IN CASE p.out = "ok" ->
            Shows(CloseForm(Upsert([v EXCEPT !.rev = p.orev], id, p.row))) /\ UNCHANGED <<asks, reads>>
       [] p.out = "refs" -> Shows([v EXCEPT !.save = "refs", !.yes = FALSE]) /\ UNCHANGED <<asks, reads>>
       [] p.out = "conflict" ->
            Shows([v EXCEPT !.save = "conflict", !.yes = FALSE]) /\ UNCHANGED <<asks, reads>>
       [] p.out = "unknown" -> ChecksFrom([v EXCEPT !.save = "unknown"], "unknown") /\ UNCHANGED reads
       [] p.out = "rejected" ->
            LET w == [v EXCEPT !.save = "editing"] IN
            Shows(w) /\ reads' = reads \cup Reading(w) /\ UNCHANGED asks

Active(u, p) ==
  IF p.kind = "use" THEN p.id
  ELSE IF u.active = p.id /\ ((p.kind = "toggle" /\ ~p.row.on) \/ (p.kind = "update" /\ ~p.row.cached)) THEN 0
  ELSE u.active

\* Mutant: a late answer of an action is always applied.
DetailAlways(u, p) ==
  LET v == [u EXCEPT !.pend = @ \ {p.id}, !.form = IF @ # NoForm /\ u.epoch = p.dialog THEN [@ EXCEPT !.action = 0] ELSE @]
  IN IF p.out = "ok" THEN [Upsert([v EXCEPT !.rev = p.orev], p.id, p.row) EXCEPT !.active = Active(v, p)] ELSE v

\* finishDetailAction: a newer list wins over a late answer, and only the dialog's own
\* action moves the revision its draft is based on.
FinishDetail(u, p) ==
  LET current == u.form # NoForm /\ u.epoch = p.dialog /\ u.form.action = p.op
      v == [u EXCEPT !.pend = @ \ {p.id}]
      w == IF current THEN [v EXCEPT !.form.action = 0] ELSE v
      x == IF p.orev < w.rev THEN w
           ELSE [Upsert([w EXCEPT !.rev = p.orev], p.id, p.row) EXCEPT !.active = Active(w, p)]
      y == IF current /\ p.orev >= w.rev /\ w.form.rev = p.rev THEN [x EXCEPT !.form.rev = p.orev] ELSE x
  IN IF p.out = "ok" THEN y
     ELSE IF ~current THEN w
     ELSE IF p.out = "unknown" THEN [w EXCEPT !.form.uncertain = TRUE] ELSE w

DetailReloads(p) ==
  /\ sp.form # NoForm /\ sp.epoch = p.dialog /\ sp.form.action = p.op
  /\ p.out \in {"unknown", "conflict"}

\* The other results of mutationResultMsg
FinishMutation(u, p) ==
  LET v == [u EXCEPT !.pend = @ \ {p.id, AddKey}]
      w == [v EXCEPT !.rev = p.orev]
  IN   IF p.out # "ok" THEN v
       ELSE IF p.kind = "remove" THEN RemoveLocal(w, p.id)
       ELSE [Upsert(w, IF p.kind = "add" THEN p.made ELSE p.id, p.row) EXCEPT !.active = Active(u, p)]

\* refreshAllResultMsg
FinishAll(u, p) ==
  LET v == [u EXCEPT !.pend = {}] IN
  IF p.out = "ok" /\ p.orev > 0 THEN [v EXCEPT !.rev = p.orev] ELSE v

OfSave(u, p) == u.form # NoForm /\ u.save = "sending" /\ p.op = u.op

Asked == [rows |-> [i \in AllIds |-> NoSub], active |-> 0, rev |-> 0]

\* A request given up while the daemon may still get it stays behind as gone.
Leaves(p) == posts' = (posts \ {p}) \cup (IF p.srv = "sent" THEN {[p EXCEPT !.gone = TRUE]} ELSE {})

TakeResult(p) ==
  /\ p.out # "none" /\ ~p.gone
  /\ Leaves(p)
  /\ LET u == [sp EXCEPT !.cancels = @ \ {p.op}] IN
     CASE p.kind = "all" ->
            /\ Shows(FinishAll(u, p)) /\ UNCHANGED <<asks, reads>>
            /\ lists' = IF p.out \in {"ok", "conflict"} THEN lists \cup {Asked} ELSE lists
       [] p.detail ->
            /\ Shows(FinishDetail(u, p)) /\ UNCHANGED <<asks, reads>>
            /\ lists' = IF DetailReloads(p) THEN lists \cup {Asked} ELSE lists
       [] p.kind # "all" /\ ~p.detail /\ OfSave(u, p) -> FinishSave(u, p) /\ UNCHANGED lists
       [] p.kind # "all" /\ ~p.detail /\ ~OfSave(u, p) ->
            /\ Shows(FinishMutation(u, p)) /\ UNCHANGED <<asks, reads>>
            /\ lists' = IF p.out = "conflict" THEN lists \cup {Asked} ELSE lists
  /\ UNCHANGED <<cat, polls, theirs, drops>>

\* subscriptionsResultMsg and the session's own lists
DeliverList(l) ==
  /\ l # Asked
  /\ lists' = lists \ {l}
  /\ Shows(SetSubscriptions(sp, l))
  /\ UNCHANGED <<cat, posts, asks, reads, polls, theirs, drops>>

\* Mutant: a read of an earlier dialog is accepted.
RevealAny(r) == sp.form # NoForm /\ r.conn = sp.conn /\ sp.save = "editing"

\* revealResultMsg
RevealFits(r) ==
  /\ sp.form # NoForm /\ r.epoch = sp.epoch /\ r.conn = sp.conn /\ r.id = sp.form.id
  /\ sp.save = "editing"

Reveal(r) ==
  /\ r \in reads /\ reads' = reads \ {r}
  /\ \/ /\ RevealFits(r) /\ ~sp.form.touched
        /\ LET url == [of |-> r.id, v |-> cat.urls[r.id]] IN
           Shows([sp EXCEPT !.form.url = url, !.form.base = url])
     \/ UNCHANGED <<sp>>
  /\ UNCHANGED <<cat, posts, asks, lists, polls, theirs, drops>>

\* saveCheckMsg
CheckStands(a) == sp.form # NoForm /\ a.epoch = sp.epoch /\ a.seq = sp.seq

CheckFails(u, a) == [u EXCEPT !.save = IF a.purpose = "conflict" THEN "conflict" ELSE "unknown", !.yes = FALSE]

FinishCheck(a) ==
  /\ a.out # "none"
  /\ asks' = asks \ {a}
  /\ LET v == SetSubscriptions(sp, a.list) IN
     \/ ~CheckStands(a) /\ UNCHANGED <<sp, polls, posts>>
     \/ /\ CheckStands(a) /\ a.out = "running"
        /\ Shows([sp EXCEPT !.save = "running"]) /\ polls' = polls \cup {sp.epoch} /\ UNCHANGED posts
     \/ /\ CheckStands(a) /\ (a.out = "failed" \/ (a.out = "list" /\ a.list.rev < sp.rev))
        /\ Shows(CheckFails(sp, a)) /\ UNCHANGED <<polls, posts>>
     \/ /\ CheckStands(a) /\ a.out = "list" /\ a.list.rev >= sp.rev
        /\ IF sp.form.id # 0 /\ sp.form.id \notin Present(v.rows) THEN Shows(CloseForm(v)) /\ UNCHANGED posts
           ELSE IF a.purpose # "unknown"
           THEN /\ sp.nextOp <= plan.posts
                /\ posts' = posts \cup {Submitted(v, a.list.rev)}
                /\ Shows([Submitting(v) EXCEPT !.again = IF a.purpose = "retry" THEN @ \cup {<<sp.epoch, sp.nextOp>>} ELSE @])
           ELSE /\ Shows(IF a.matches THEN CloseForm(v) ELSE [v EXCEPT !.save = "unknown"])
                /\ UNCHANGED posts
        /\ UNCHANGED polls
  /\ UNCHANGED <<cat, reads, lists, theirs, drops>>

-----------------------------------------------------------------------------
(* The daemon and the requests on their way *)

FreshId == {i \in NewIds : cat.rows[i] = NoSub /\ \A j \in NewIds : j < i => cat.rows[j] # NoSub}

\* What a request does to the catalog
Effect(p) ==
  LET next == [cat EXCEPT !.rev = @ + 1, !.ran = @ \cup {p.op}] IN
  CASE p.kind = "update" ->
         [next EXCEPT !.rows[p.id].name = IF p.name = "keep" THEN @ ELSE p.name,
                      !.urls[p.id] = IF p.url = "keep" THEN @ ELSE p.url]
    [] p.kind = "refresh" -> [next EXCEPT !.rows[p.id].cached = TRUE]
    [] p.kind = "use" -> [next EXCEPT !.active = p.id]
    [] p.kind = "toggle" -> [next EXCEPT !.rows[p.id].on = p.want, !.active = IF @ = p.id /\ ~p.want THEN 0 ELSE @]
    [] p.kind = "remove" -> [next EXCEPT !.rows[p.id] = NoSub, !.active = IF @ = p.id THEN 0 ELSE @]

\* The daemon executes a request, or refuses it.
Executes(p) ==
  /\ p.srv = "sent" /\ p.kind # "all"
  /\ \/ /\ p.rev = cat.rev /\ p.kind # "add" /\ p.id \in Present(cat.rows)
        /\ p.kind = "use" => cat.rows[p.id].on /\ cat.rows[p.id].cached
        /\ cat' = Effect(p)
        /\ posts' = (posts \ {p}) \cup
             {[p EXCEPT !.srv = "done", !.out = IF @ = "none" THEN "ok" ELSE @, !.orev = cat.rev + 1, !.row = cat'.rows[p.id]]}
     \/ /\ p.rev = cat.rev /\ p.kind = "add"
        /\ \E i \in FreshId, fetched \in BOOLEAN :
             /\ cat' = [cat EXCEPT !.rev = @ + 1, !.ran = @ \cup {p.op}, !.added = @ \cup {<<p.dialog, p.op>>},
                                   !.rows[i] = [name |-> "mine", on |-> TRUE, cached |-> fetched], !.urls[i] = "mine"]
             /\ posts' = (posts \ {p}) \cup
                  {[p EXCEPT !.srv = "done", !.out = IF @ = "none" THEN "ok" ELSE @, !.orev = cat.rev + 1,
                             !.row = cat'.rows[i], !.made = i]}
     \/ /\ UNCHANGED cat
        /\ \E o \in {"rejected"} \cup (IF p.rev # cat.rev THEN {"conflict"} ELSE {})
                    \cup (IF (p.kind = "add" \/ p.url # "keep") /\ ~p.allow THEN {"refs"} ELSE {}) :
             posts' = (posts \ {p}) \cup {[p EXCEPT !.srv = "done", !.out = IF @ = "none" THEN o ELSE @]}
  /\ UNCHANGED <<sp, asks, reads, lists, polls, theirs, drops>>

\* refreshAllWithID: one subscription after the other, each with the last revision
ExecutesItem(p) ==
  /\ p.srv = "sent" /\ p.kind = "all"
  /\ LET i == CHOOSE j \in p.todo : \A k \in p.todo : j <= k IN
     \/ /\ p.todo # {} /\ p.rev = cat.rev /\ cat.rows[i] # NoSub
        /\ cat' = [cat EXCEPT !.rev = @ + 1, !.rows[i].cached = TRUE]
        /\ posts' = (posts \ {p}) \cup {[p EXCEPT !.todo = @ \ {i}, !.rev = cat.rev + 1]}
     \/ /\ p.todo # {} /\ UNCHANGED cat
        /\ posts' = (posts \ {p}) \cup
             {[p EXCEPT !.srv = "done", !.out = IF @ # "none" THEN @ ELSE IF p.rev # cat.rev THEN "conflict" ELSE "rejected"]}
     \/ /\ p.todo = {} /\ UNCHANGED cat
        /\ posts' = (posts \ {p}) \cup {[p EXCEPT !.srv = "done", !.out = IF @ = "none" THEN "ok" ELSE @, !.orev = p.rev]}
  /\ UNCHANGED <<sp, asks, reads, lists, polls, theirs, drops>>

\* The page's request times out or its connection breaks, before or after its execution.
GiveUp(p) ==
  /\ p.out # "unknown" /\ ~p.gone
  /\ posts' = (posts \ {p}) \cup {[p EXCEPT !.out = "unknown"]}
  /\ UNCHANGED <<cat, sp, asks, reads, lists, polls, theirs, drops>>

\* Of a request nobody waits for nothing may be left.
Vanish(p) ==
  /\ p.gone /\ posts' = posts \ {p}
  /\ UNCHANGED <<cat, sp, asks, reads, lists, polls, theirs, drops>>

\* The daemon's answers to a query of checkSave
AskStatus(a) ==
  /\ a.at = "status"
  /\ \/ asks' = (asks \ {a}) \cup {[a EXCEPT !.at = "list"]}
     \/ asks' = (asks \ {a}) \cup {[a EXCEPT !.at = "done", !.out = "failed"]}
     \/ /\ \E p \in posts : p.op = a.op /\ p.srv = "sent"
        /\ asks' = (asks \ {a}) \cup {[a EXCEPT !.at = "done", !.out = "running"]}
  /\ UNCHANGED <<cat, sp, posts, reads, lists, polls, theirs, drops>>

Matches(a) ==
  /\ a.purpose = "unknown" /\ a.id # 0 /\ a.id \in Present(cat.rows)
  /\ a.name \in {"keep", cat.rows[a.id].name} /\ a.url \in {"keep", cat.urls[a.id]}

CatalogNow == [rows |-> cat.rows, active |-> cat.active, rev |-> cat.rev]

AskList(a) ==
  /\ a.at = "list"
  /\ \/ asks' = (asks \ {a}) \cup {[a EXCEPT !.at = "done", !.out = "failed"]}
     \/ asks' = (asks \ {a}) \cup {[a EXCEPT !.at = "done", !.out = "list", !.list = CatalogNow, !.matches = Matches(a)]}
  /\ UNCHANGED <<cat, sp, posts, reads, lists, polls, theirs, drops>>

\* A list is read for a reload, or by the session, which delivers its lists in order.
ReadList ==
  /\ \/ Asked \in lists /\ lists' = (lists \ {Asked}) \cup {CatalogNow}
     \/ ~sp.lost /\ lists = {} /\ sp.rev # cat.rev /\ lists' = {CatalogNow}
  /\ UNCHANGED <<cat, sp, posts, asks, reads, polls, theirs, drops>>

\* Another client renames or removes a subscription.
Theirs ==
  /\ theirs < plan.theirs /\ theirs' = theirs + 1
  /\ \E i \in Present(cat.rows) :
       cat' \in {[cat EXCEPT !.rev = @ + 1, !.rows[i].name = "theirs", !.urls[i] = "theirs"],
                 [cat EXCEPT !.rev = @ + 1, !.rows[i] = NoSub, !.active = IF @ = i THEN 0 ELSE @]}
  /\ UNCHANGED <<sp, posts, asks, reads, lists, polls, drops>>

PageMoves ==
  \/ \E k \in {"toggle", "update", "refresh", "use"} : ListAction(k)
  \/ \E k \in {"remove", "all"} : Intend(k)
  \/ \E y \in BOOLEAN : ShellAnswers(y)
  \/ FocusMoves
  \/ \E k \in {"add", "edit"} : OpenForm(k)
  \/ TypeName \/ TypeURL \/ PressSave \/ FormEsc
  \/ \E k \in {"toggle", "use"} : DetailAction(k)
  \/ SaveEsc \/ SaveTurns \/ SaveRefused \/ SaveConfirmed \/ SaveEnter
  \/ Disconnects \/ Reconnects
  \/ \E e \in polls : Poll(e)
  \/ \E p \in posts : TakeResult(p) \/ Executes(p) \/ ExecutesItem(p) \/ GiveUp(p) \/ Vanish(p)
  \/ \E l \in lists : DeliverList(l)
  \/ \E r \in reads : Reveal(r)
  \/ \E a \in asks : AskStatus(a) \/ AskList(a) \/ FinishCheck(a)
  \/ ReadList \/ Theirs

SubNext == PageMoves /\ UNCHANGED plan

-----------------------------------------------------------------------------
(* Properties *)

Waiting == {p \in posts : ~p.gone}

SubTypeOK ==
  /\ cat.rev \in Nat /\ cat.active \in AllIds \cup {0} /\ sp.active \in AllIds \cup {0}
  /\ sp.save \in {"editing", "sending", "conflict", "unknown", "retry", "checking", "running", "refs"}
  /\ sp.pend \subseteq AllIds \cup {AddKey} /\ sp.cancels \subseteq 1 .. plan.posts
  /\ theirs <= plan.theirs /\ drops <= plan.drops /\ plan \in Plans

\* The focus is on a row that is there, whatever was added, removed or reloaded meanwhile.
FocusOnRow == IF Present(sp.rows) = {} THEN sp.focus = 0 ELSE sp.focus \in Present(sp.rows)

\* A row is marked as working only while a request about it is on its way, and
\* a cancel function is kept only for a request that runs or waits for its confirmation.
WorkIsReal ==
  /\ \A k \in sp.pend : \E p \in Waiting : IF k = AddKey THEN p.kind = "add" ELSE p.id = k
  /\ \A o \in sp.cancels : (\E p \in Waiting : p.op = o) \/ (sp.intent # NoAction /\ sp.intent.op = o)

\* A dialog that only waits (no key but Esc helps) waits for a message that will come.
DialogWaits ==
  sp.form # NoForm =>
    /\ sp.save = "sending" => \E p \in Waiting : p.op = sp.op
    /\ sp.save = "checking" => \E a \in asks : a.epoch = sp.epoch /\ a.seq = sp.seq
    /\ sp.save = "running" => sp.epoch \in polls
    /\ sp.form.action # 0 => \E p \in Waiting : p.op = sp.form.action

\* One dialog adds a subscription twice only after the user was told that the first may
\* have succeeded and confirmed.
NoSilentDuplicate ==
  \A e \in 1 .. sp.epoch :
    Cardinality({x \in cat.added : x[1] = e}) <= 1 + Cardinality({x \in sp.again : x[1] = e})

\* When the dialog says a save was rejected, it neither happened nor will.
RejectedIsRejected ==
  sp.form # NoForm /\ sp.op # 0 /\ sp.save \in {"editing", "conflict", "refs"} =>
    sp.op \notin cat.ran /\ \A p \in posts : p.op # sp.op

\* The URL shown is that of the dialog's own subscription.
URLOfForm == sp.form # NoForm => sp.form.url.of \in {0, sp.form.id}

\* No message changes what the user typed.
DraftKept ==
  sp.form # NoForm /\ sp'.form # NoForm /\ sp.epoch = sp'.epoch =>
    /\ sp.form.touched => sp'.form.url = sp.form.url \/ sp'.form.url.v = "mine"
    /\ sp.form.name = "mine" => sp'.form.name = "mine"

\* Neither a dialog's own action nor the check of a save takes the page back to an older
\* revision than it shows.
NotTakenBack ==
  sp'.rev < sp.rev =>
    /\ asks \subseteq asks'
    /\ \A p \in posts \ posts' : ~p.detail

SubSafe == SubTypeOK /\ FocusOnRow /\ WorkIsReal /\ DialogWaits /\ NoSilentDuplicate /\ RejectedIsRejected /\ URLOfForm

SubStepOK == DraftKept /\ NotTakenBack
=============================================================================
