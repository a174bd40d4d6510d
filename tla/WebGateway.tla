------------------------------ MODULE WebGateway ------------------------------
(***************************************************************************)
(* The Web gateway of the daemon (web/): the routing of a request to the   *)
(* controller, the mutator or the panel's files, the relay of a WebSocket  *)
(* by two copies joined by their handler, and the server's shutdown.       *)
(***************************************************************************)
EXTENDS Integers, Sequences, FiniteSets

CONSTANTS GatewayRequests,  \* [path, method, upgrade, bearer, cookie, token, body] requests
          MaxTraffic        \* bound on what befalls the relayed connections; a plain request counts twice

VARIABLES server,      \* Server.Serve: "serving", "shutting", "returned"
          overdue,   \* Shutdown's time ran out and Close cut the connections
          page,      \* the plain handler: [at, path, method, fields, session, root]
          tree,      \* the build the panel directory holds (0: none)
          sessions,  \* Server.sessions
          relay,     \* the WebSocket handler: [at, first, told]
          copies,    \* direction -> [at, reading, err, stopped]
          ends,      \* connection -> "open", "normal", "abnormal", "broken" at the far end
          shutEnds,      \* connections closed at this end
          cancelled, \* relayCtx
          traffic

gwVars == <<server, overdue, page, tree, sessions, relay, copies, ends, shutEnds, cancelled,
            traffic>>

relayVars == <<relay, copies, ends, shutEnds, cancelled>>

Reads == {"GET", "HEAD"}
Streams == {"traffic", "connections"}
NoPage == [at |-> "idle", path |-> "none", method |-> "none", fields |-> {}, session |-> 0, root |-> 0]

(***************************************************************************)
(* Authentication and classification                                       *)
(***************************************************************************)

\* Authenticator.Authorized: a bearer token decides, then the cookie, then the query.
Authorized(r) ==
  IF r.bearer # "none" THEN r.bearer = "good"
  ELSE IF r.cookie # "none" THEN r.cookie = "good" ELSE r.token = "good"

\* Paths are classes of paths: "mount" is a panel's tree, "group" is /proxies/{g},
\* "delay" is /proxies/{g}/delay, "conn" is /connections/{id}, "meta" stands for
\* API prefixes without a rule of their own, "asset" and "view" for the rest.
LooksLikeAPI(p) == p \notin {"mount", "asset", "view", "root", "auth", "setup"}

Unlisted(p) == IF LooksLikeAPI(p) THEN "unknown" ELSE "static"

Classify(m, p) ==
  CASE p = "mount" -> "static"
    [] p = "storage" -> IF m \in {"GET", "HEAD", "PUT", "DELETE"} THEN "storage" ELSE "unknown"
    [] p \notin {"mount", "storage"} /\ m \in Reads -> IF LooksLikeAPI(p) THEN "read" ELSE "static"
    [] p = "upgrade" /\ m \notin Reads -> "managed"
    [] p = "group" /\ m = "PUT" -> "select"
    [] p \in {"connections", "conn"} /\ m = "DELETE" -> "close"
    [] p \in {"delay", "restart"} /\ m = "POST" -> "unwired"
    [] p = "configs" /\ m \in {"PATCH", "PUT"} -> "configs"
    [] OTHER -> Unlisted(p)

ClassifyUpgrade(r) ==
  LET a == Classify(r.method, r.path) IN
  IF r.upgrade /\ a = "read" /\ r.path \in Streams THEN "stream" ELSE a

\* handleConfigMutation, then webMutator.ApplyConfigPatch with the same tests
ConfigMutation(r) ==
  LET b == r.body
      alone(f) == b.fields = {f} /\ (f = "tun" \/ r.method = "PATCH")
  IN  CASE b.json # "one" -> "bad"
        [] b.json = "one" /\ (b.fields = {} \/ "managed" \in b.fields) -> "rejected"
        [] OTHER -> IF \E f \in {"level", "mode", "tun"} : alone(f)
                    THEN IF b.fit THEN "mutate" ELSE "bad"
                    ELSE "rejected"

\* What the handler does with a request of a known session.
Dispatch(r) ==
  LET a == ClassifyUpgrade(r) IN
  CASE a \in {"read", "storage"} -> "proxy"
    [] a \in {"select", "close"} -> IF a = "close" \/ r.body.fit THEN "mutate" ELSE "bad"
    [] a = "configs" -> ConfigMutation(r)
    [] a \in {"managed", "unknown", "unwired"} -> "rejected"
    [] OTHER -> a

\* handleAuth
Auth(r) == CASE r.method = "GET" -> "login"
             [] r.method = "POST" -> IF r.body.fit THEN "redirect" ELSE "denied"
             [] OTHER -> "denied"

\* What the handler does with a request, and whether it counts a session for it.
Route(r) ==
  CASE r.path = "auth" -> Auth(r)
    [] r.path # "auth" /\ r.token = "good" -> "redirect"
    [] r.path = "setup" /\ r.token # "good" -> IF Authorized(r) THEN "redirect" ELSE "login"
    [] OTHER -> IF Authorized(r) THEN Dispatch(r)
                ELSE IF LooksLikeAPI(r.path) \/ r.upgrade THEN "denied"
                ELSE IF r.method \in Reads THEN "static" ELSE "login"

HasSession(r) == r.path # "auth" /\ r.token # "good" /\ Authorized(r)

(***************************************************************************)
(* Plain requests                                                          *)
(***************************************************************************)

UncountedTwice(r) == IF HasSession(r) THEN 2 ELSE 0

\* sessions.Add(1), and the deferred Add(-1) of every return
Counted(r) == IF HasSession(r) THEN 1 ELSE 0
Uncounted(r) == IF HasSession(r) THEN 1 ELSE 0

AtOnce == {"login", "redirect", "denied", "rejected", "bad"}

\* The handler writes a login page, a redirect or a refusal and returns.
Refuse ==
  /\ server = "serving" /\ page.at = "idle" /\ traffic + 1 < MaxTraffic
  /\ \E r \in GatewayRequests :
       Route(r) \in AtOnce /\ sessions' = sessions + Counted(r) - Uncounted(r)
  /\ traffic' = traffic + 2
  /\ UNCHANGED <<server, overdue, page, tree>> /\ UNCHANGED relayVars

ServeRequest ==
  /\ server = "serving" /\ page.at = "idle" /\ traffic + 1 < MaxTraffic
  /\ \E r \in GatewayRequests :
       /\ Route(r) \in {"proxy", "mutate", "static"}
       /\ page' = [at |-> Route(r), path |-> r.path, method |-> r.method, fields |-> r.body.fields,
                   session |-> Counted(r), root |-> 0]
       /\ sessions' = sessions + Counted(r)
  /\ traffic' = traffic + 2
  /\ UNCHANGED <<server, overdue, tree>> /\ UNCHANGED relayVars

\* serveStatic once it has a root: a file, the index for a route of the panel's own,
\* nothing for a static asset that is not there.
StaticAnswer(path, there) ==
  IF path = "asset" THEN IF there THEN "file" ELSE "missing" ELSE "index"

\* PanelDir or ActiveDir
ResolveRoot ==
  /\ page.at = "static"
  /\ page' = [page EXCEPT !.root = tree, !.at = IF tree = 0 THEN "missing" ELSE "looking"]
  /\ UNCHANGED <<server, overdue, tree, sessions, traffic>> /\ UNCHANGED relayVars

\* The build may have been replaced or removed since its directory was resolved.
Lookup ==
  /\ page.at = "looking"
  /\ \E there \in BOOLEAN :
       /\ there => tree = page.root
       /\ page' = [page EXCEPT !.at = StaticAnswer(page.path, there)]
  /\ UNCHANGED <<server, overdue, tree, sessions, traffic>> /\ UNCHANGED relayVars

\* servePanelIndex reads the file; FileServer opens it again.
FetchFile ==
  /\ page.at \in {"index", "file"} /\ tree # page.root
  /\ page' = [page EXCEPT !.at = "missing"]
  /\ UNCHANGED <<server, overdue, tree, sessions, traffic>> /\ UNCHANGED relayVars

\* The proxy's, the mutator's or the file's answer is written and the handler returns.
Reply ==
  /\ page.at \notin {"idle", "static", "looking"}
  /\ page.at \in {"index", "file"} => tree = page.root
  /\ page' = NoPage
  /\ sessions' = sessions - page.session
  /\ UNCHANGED <<server, overdue, tree, traffic>> /\ UNCHANGED relayVars

\* A panel operation replaces the build or removes it (module Panels); at any other
\* time nothing here sees it.
Replaced ==
  /\ page.at \in {"looking", "index", "file"} /\ tree = 1 /\ tree' \in {0, 2}
  /\ UNCHANGED <<server, overdue, page, sessions, traffic>> /\ UNCHANGED relayVars

(***************************************************************************)
(* The relay of a WebSocket                                                *)
(***************************************************************************)

Directions == {"up", "down"}
Ends == {"client", "core"}
Source(d) == IF d = "up" THEN "client" ELSE "core"
Peer(d) == IF d = "up" THEN "core" ELSE "client"
Sibling(d) == IF d = "up" THEN "down" ELSE "up"
NoCopy == [at |-> "none", reading |-> FALSE, err |-> "none", stopped |-> FALSE]

\* proxyWebSocket dials the controller, then accepts the client.
StartRelay ==
  /\ server = "serving" /\ relay.at = "idle"
  /\ \E r \in GatewayRequests : Route(r) = "stream"
  /\ relay' = [at |-> "dialing", first |-> "none", told |-> "none"]
  /\ sessions' = sessions + 1
  /\ UNCHANGED <<server, overdue, page, tree, traffic, copies, ends, shutEnds, cancelled>>

Handshake ==
  /\ relay.at = "dialing"
  /\ \/ /\ relay' = [relay EXCEPT !.at = "relaying"]
        /\ copies' = [d \in Directions |-> [NoCopy EXCEPT !.at = "copying"]]
        /\ ends' = [c \in Ends |-> "open"]
        /\ UNCHANGED sessions
     \/ /\ relay' = [relay EXCEPT !.at = "over"]
        /\ sessions' = sessions - 1
        /\ UNCHANGED <<copies, ends>>
  /\ UNCHANGED <<server, overdue, page, tree, traffic, shutEnds, cancelled>>

\* The far end closes with a Close frame, or the connection breaks.
FarEnd(c) ==
  /\ relay.at \in {"relaying", "closing", "joining"} /\ ends[c] = "open" /\ traffic < MaxTraffic
  /\ \E how \in {"normal", "abnormal", "broken"} : ends' = [ends EXCEPT ![c] = how]
  /\ traffic' = traffic + 1
  /\ UNCHANGED <<server, overdue, page, tree, sessions, relay, copies, shutEnds, cancelled>>

\* An error on a connection c: what it is closed with at this end, what came from
\* the far end, or the cancellation of relayCtx.
ErrorsOf(c, reading) ==
  IF c \in shutEnds THEN {"closed"}
  ELSE (IF ends[c] = "broken" THEN {"io"} ELSE {})
       \cup (IF reading /\ ends[c] \in {"normal", "abnormal"} THEN {ends[c]} ELSE {})
       \cup (IF cancelled THEN {"canceled"} ELSE {})

\* copyWS returns on the first error of src.Read or dst.Write; the library has
\* closed that connection by then. A write follows a message that was read.
CopyEnds(d, reading) ==
  LET c == IF reading THEN Source(d) ELSE Peer(d) IN
  /\ copies[d].at = "copying"
  /\ ~reading => Source(d) \notin shutEnds
  /\ \E e \in ErrorsOf(c, reading) :
       copies' = [copies EXCEPT ![d] = [at |-> "returned", reading |-> reading, err |-> e,
                                        stopped |-> cancelled]]
  /\ shutEnds' = shutEnds \cup {c}
  /\ UNCHANGED <<server, overdue, page, tree, traffic, sessions, relay, ends, cancelled>>

\* results <- result: the order of arrival need not be the order of the errors.
Deliver(d) ==
  /\ copies[d].at = "returned"
  /\ copies' = [copies EXCEPT ![d].at = "sent"]
  /\ UNCHANGED <<server, overdue, page, tree, traffic, sessions, relay, ends, shutEnds, cancelled>>

\* first := <-results; cancelRelay()
TakeFirst(d) ==
  /\ relay.at = "relaying" /\ copies[d].at = "sent"
  /\ relay' = [relay EXCEPT !.at = "closing", !.first = d]
  /\ cancelled' = TRUE
  /\ UNCHANGED <<server, overdue, page, tree, traffic, sessions, copies, ends, shutEnds>>

\* closeWebSocketRelayPeer, then CloseNow of both
ClosePeers ==
  /\ relay.at = "closing"
  /\ relay' = [relay EXCEPT !.at = "joining"]
  /\ shutEnds' = Ends
  /\ UNCHANGED <<server, overdue, page, tree, traffic, sessions, copies, ends, cancelled>>

Normal(e) == e = "normal"
Status(e) == e \in {"normal", "abnormal"}
Cause(e) == e \in {"closed", "canceled"}

\* The results that are no failure: a normal close, a write on a connection whose
\* reader got a Close frame, and a close or a cancellation seen after cancelRelay.
Passed(d, second) ==
  LET c == copies[d]  s == copies[Sibling(d)] IN
  \/ Normal(c.err)
  \/ ~c.reading /\ s.reading /\ Status(s.err) /\ c.err = "closed"
  \/ second /\ c.stopped /\ Cause(c.err)

\* webSocketRelayFailure: a real failure before a cancellation
RelayFailure(f) ==
  LET s == Sibling(f)
      left == (IF Passed(f, FALSE) THEN <<>> ELSE <<copies[f].err>>)
              \o (IF Passed(s, TRUE) THEN <<>> ELSE <<copies[s].err>>)
      real == SelectSeq(left, LAMBDA e : e # "canceled")
  IN  IF real # <<>> THEN real[1] ELSE IF left # <<>> THEN left[1] ELSE "none"

\* second := <-results; the one report; the deferred calls
JoinCopies ==
  /\ relay.at = "joining" /\ \A d \in Directions : copies[d].at = "sent"
  /\ relay' = [relay EXCEPT !.at = "over", !.told = RelayFailure(relay.first)]
  /\ sessions' = sessions - 1
  /\ UNCHANGED <<server, overdue, page, tree, traffic, copies, ends, shutEnds, cancelled>>

(***************************************************************************)
(* Serve                                                                   *)
(***************************************************************************)

\* Shutdown waits for the handlers of connections it still owns: a relay has
\* taken its connection over.
StillOwned == page.at # "idle" \/ relay.at = "dialing"

ContextDone ==
  /\ server = "serving" /\ server' = "shutting"
  /\ UNCHANGED <<overdue, page, tree, traffic, sessions>> /\ UNCHANGED relayVars

\* Shutdown returns once nothing is owned; Close does not wait.
ServeReturns ==
  /\ server = "shutting"
  /\ server' = "returned" /\ overdue' = StillOwned
  /\ UNCHANGED <<page, tree, traffic, sessions>> /\ UNCHANGED relayVars

GwInit ==
  /\ server = "serving" /\ overdue = FALSE
  /\ page = NoPage /\ tree \in {0, 1} /\ sessions = 0 /\ traffic = 0
  /\ relay = [at |-> "idle", first |-> "none", told |-> "none"]
  /\ copies = [d \in Directions |-> NoCopy]
  /\ ends = [c \in Ends |-> "none"]
  /\ shutEnds = {} /\ cancelled = FALSE

GwNext ==
  \/ ServeRequest \/ Refuse \/ ResolveRoot \/ Lookup \/ FetchFile \/ Reply \/ Replaced
  \/ StartRelay \/ Handshake \/ ClosePeers \/ JoinCopies
  \/ \E c \in Ends : FarEnd(c)
  \/ \E d \in Directions : Deliver(d) \/ TakeFirst(d) \/ CopyEnds(d, TRUE) \/ CopyEnds(d, FALSE)
  \/ ContextDone \/ ServeReturns

(***************************************************************************)
(* Properties                                                              *)
(***************************************************************************)

\* The states of the server, its two handlers and their connections; the count
\* of sessions is never negative.
GwTypeOK ==
  /\ server \in {"serving", "shutting", "returned"} /\ overdue \in BOOLEAN
  /\ page.root \in 0..2 /\ tree \in 0..2
  /\ page.at \in {"idle", "proxy", "mutate", "static", "looking", "index", "file", "missing"}
  /\ sessions \in 0..2
  /\ relay.at \in {"idle", "dialing", "relaying", "closing", "joining", "over"}
  /\ shutEnds \subseteq Ends

\* "Unknown writes never fall through to the controller" (classify.go): the
\* controller sees reads and the panels' own storage, with a session, and
\* nothing of a request that changes the core or the settings.
UnknownWritesStop ==
  page.at = "proxy" => /\ page.session = 1
                       /\ page.method \in Reads \/ page.path = "storage"

\* "Managed fields reject even when mixed with allowlisted keys" (server.go): a
\* change of the configuration that reaches the mutator has one field, not a managed one.
ManagedKept ==
  page.at = "mutate" /\ page.path = "configs" =>
    page.fields \in {{"level"}, {"mode"}, {"tun"}}

\* SessionCount counts the handlers that serve a session, through every early return.
SessionsBalanced ==
  sessions = page.session + (IF relay.at \in {"idle", "over"} THEN 0 ELSE 1)

\* serveStatic: "Never SPA-fallback for real static extensions", whatever happens
\* to the build between the lookup and the read.
AssetNeverPage == page.at = "index" => page.path # "asset"

Fault(e) == e \in {"io", "abnormal"}

\* A relay that only met orderly closes reports nothing, whichever copy noticed
\* first and whichever result arrived first.
OrderlyIsQuiet ==
  relay.at = "over" /\ relay.told # "none" => \E d \in Directions : Fault(copies[d].err)

\* A fault either copy met is reported, even when it comes second, after relayCtx
\* was cancelled: "only pure close/cancel chains are quiet" (server.go).
FaultIsTold ==
  relay.at = "over" /\ (\E d \in Directions : Fault(copies[d].err)) => relay.told # "none"

\* Everything above that a reachable state promises.
GwSafe ==
  /\ GwTypeOK /\ UnknownWritesStop /\ ManagedKept /\ SessionsBalanced /\ AssetNeverPage
  /\ OrderlyIsQuiet /\ FaultIsTold
=============================================================================
