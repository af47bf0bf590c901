----------------------------- MODULE Integrations -----------------------------
(***************************************************************************)
(* The life of one connected service: IntegrationService over its row, the *)
(* tool registry of this process, the connection it holds open and the     *)
(* snapshot of grants the employee registry works from.  Requests come     *)
(* from a page and may overlap; each is one coroutine, split where it      *)
(* awaits.  The service's program and what it offers are external.         *)
(***************************************************************************)
EXTENDS Naturals, FiniteSets

CONSTANTS
  Tools,      \* what the service may offer
  Requests,   \* requests a page has under way at once
  Conns,      \* connections: one per server process started
  MaxChanges  \* bound: how often the service changes what it offers

VARIABLES
  row,       \* the integrations row
  offer,     \* what the service offers now, external
  registry,  \* the tools registered: name, effect it was built with, connection
  live,      \* _live: the connection held, "none" without one
  servers,   \* connections whose process runs
  cached,    \* the connection restore() made without starting its server
  grants,    \* the names employees are granted: the snapshot of refresh_grants
  req,       \* the coroutine of each request
  up,        \* the process runs and has restored
  changes,
  overlap,   \* history: two requests were under way at once since the start
  shrunk     \* history: the service stopped offering a tool that is registered

held == <<registry, live, servers, cached>>
vars == <<row, offer, held, grants, req, up, changes, overlap, shrunk>>

\* What is_usable and a page tell apart: CONFIGURING, DISCONNECTED and CONNECTING
\* are "PENDING", the two ways a connection fails are "FAILED".
Statuses == {"PENDING", "READY", "FAILED", "DISABLED"}
Row == [there : BOOLEAN, status : Statuses, enabled : BOOLEAN,
        offers : SUBSET Tools, eased : SUBSET Tools]
Entry == [tool : Tools, eased : BOOLEAN, conn : Conns]
Kinds == {"connect", "disable", "enable", "remove", "classify"}
Places == {"read", "mark", "open", "keep", "withdraw", "save", "list", "refresh"}

Idle == [kind |-> "idle"]
Request == [kind : Kinds, at : Places, copy : Row, seen : SUBSET Tools]

TypeOK ==
  /\ row \in Row
  /\ offer \in SUBSET Tools
  /\ registry \in SUBSET Entry
  /\ live \in Conns \cup {"none"}
  /\ servers \in SUBSET Conns
  /\ cached \in Conns \cup {"none"}
  /\ grants \in SUBSET Tools
  /\ req \in [Requests -> Request \cup {Idle}]
  /\ up \in BOOLEAN /\ overlap \in BOOLEAN /\ shrunk \in BOOLEAN
  /\ changes \in Nat

Usable(r) == r.there /\ r.enabled /\ r.status # "DISABLED"

\* granted(): what a row lets the employees that name it call.
Granted(r) == IF Usable(r) THEN r.offers ELSE {}

\* add(): the row is written, nothing is started.
Init ==
  /\ row = [there |-> TRUE, status |-> "PENDING", enabled |-> TRUE,
            offers |-> {}, eased |-> {}]
  /\ offer = Tools
  /\ registry = {} /\ live = "none" /\ servers = {} /\ cached = "none" /\ grants = {}
  /\ req = [q \in Requests |-> Idle]
  /\ up = TRUE
  /\ changes = 0 /\ overlap = FALSE /\ shrunk = FALSE

-----------------------------------------------------------------------------
(* One request *)

Busy(q) == req[q].kind # "idle"
At(q, place) == Busy(q) /\ req[q].at = place
Go(q, place) == req' = [req EXCEPT ![q].at = place]
Done(q) == req' = [req EXCEPT ![q] = Idle]
Nothing == [there |-> FALSE, status |-> "PENDING", enabled |-> FALSE,
            offers |-> {}, eased |-> {}]
Doing(kind, place, copy) ==
  [kind |-> kind, at |-> place, copy |-> copy, seen |-> {}]

\* The request has made its change and goes on to announce it.
Announce(q) == req' = [req EXCEPT ![q] = Doing("connect", "list", Nothing)]

\* A page asks for something.  Bound: once requests overlapped nothing more is
\* asked until the process starts again.
Ask(q, kind) ==
  /\ up /\ ~Busy(q) /\ ~overlap
  /\ req' = [req EXCEPT ![q] = Doing(kind, "read", Nothing)]
  /\ overlap' = (overlap \/ \E p \in Requests : Busy(p))
  /\ UNCHANGED <<row, offer, held, grants, up, changes, shrunk>>

\* get(): the row as it is now, or 404.  An integration that is off is not connected.
After(kind, r) ==
  CASE kind = "connect" -> IF r.enabled THEN "mark" ELSE "none"
    [] kind \in {"disable", "remove"} -> "withdraw"
    [] kind \in {"enable", "classify"} -> "save"

Read(q) ==
  /\ At(q, "read")
  /\ IF ~row.there \/ After(req[q].kind, row) = "none"
       THEN Done(q)
       ELSE req' = [req EXCEPT ![q].copy = row, ![q].at = After(req[q].kind, row)]
  /\ UNCHANGED <<row, offer, held, grants, up, changes, overlap, shrunk>>

\* An upsert of the whole record: a row deleted since is inserted again.
Upsert(r) == row' = [r EXCEPT !.there = TRUE]

\* connect: CONNECTING is saved over the copy that was read.
Mark(q) ==
  /\ At(q, "mark")
  /\ Upsert([req[q].copy EXCEPT !.status = "PENDING"])
  /\ Go(q, "open")
  /\ UNCHANGED <<offer, held, grants, up, changes, overlap, shrunk>>

Entries(r, names, c) == {[tool |-> t, eased |-> t \in r.eased, conn |-> c] : t \in names}
Register(entries) ==
  {e \in registry : \A f \in entries : f.tool # e.tool} \cup entries
NamesOf(entries) == {e.tool : e \in entries}

\* The server started and said what it offers: its tools are registered and the
\* connection held, in place of whichever was held before.
Open(q) ==
  /\ At(q, "open")
  /\ \E c \in Conns \ (servers \cup {live}) :
       /\ servers' = servers \cup {c}
       /\ registry' = Register(Entries(req[q].copy, offer, c))
       /\ live' = c
       /\ cached' = IF c = cached THEN "none" ELSE cached
       /\ req' = [req EXCEPT ![q].at = "keep", ![q].seen = offer]
  /\ shrunk' = (shrunk \/ ~(NamesOf(registry) \subseteq offer))
  /\ UNCHANGED <<row, offer, grants, up, changes, overlap>>

\* It did not: the reason becomes the status.  A server that started and could
\* not say what it offers is left running.
OpenFails(q) ==
  /\ At(q, "open")
  /\ \/ UNCHANGED servers
     \/ \E c \in Conns \ (servers \cup {live, cached}) : servers' = servers \cup {c}
  /\ req' = [req EXCEPT ![q].at = "save", ![q].copy.status = "FAILED"]
  /\ UNCHANGED <<row, offer, registry, live, cached, grants, up, changes, overlap, shrunk>>

\* rediscovered(): READY, with what it offered, over the copy read at the start.
Keep(q) ==
  /\ At(q, "keep")
  /\ Upsert([req[q].copy EXCEPT !.status = "READY", !.offers = req[q].seen])
  /\ Announce(q)
  /\ UNCHANGED <<offer, held, grants, up, changes, overlap, shrunk>>

\* _disconnect: the names on the record are unregistered and the connection held
\* is closed; classify goes on to connect again.
Withdraw(q) ==
  /\ At(q, "withdraw")
  /\ registry' = {e \in registry : e.tool \notin req[q].copy.offers}
  /\ live' = "none"
  /\ servers' = servers \ {live}
  /\ req' = [req EXCEPT ![q] =
       IF @.kind = "classify" THEN Doing("connect", "read", Nothing)
       ELSE Doing(@.kind, "save", @.copy)]
  /\ UNCHANGED <<row, offer, cached, grants, up, changes, overlap, shrunk>>

\* Fault: the classification is stored and the registered tools stay as they are.
AfterStoring(r) == Doing("connect", "list", Nothing)

\* classify: a connection that is held is made again, at the new effects.
AfterClassifying(r) ==
  IF live # "none" THEN Doing("classify", "withdraw", r) ELSE Doing("connect", "list", Nothing)

\* The save a request ends with, or goes on from.
Save(q) ==
  /\ At(q, "save")
  /\ LET r == req[q].copy
         k == req[q].kind
     IN  \/ k = "connect" /\ Upsert(r) /\ Announce(q)
         \/ /\ k = "disable"
            /\ Upsert([r EXCEPT !.enabled = FALSE, !.status = "DISABLED"])
            /\ Announce(q)
         \/ /\ k = "remove"
            /\ row' = [row EXCEPT !.there = FALSE, !.offers = {}, !.eased = {}]
            /\ Announce(q)
         \/ /\ k = "enable"
            /\ Upsert([r EXCEPT !.enabled = TRUE, !.status = "PENDING"])
            /\ req' = [req EXCEPT ![q] = Doing("connect", "read", Nothing)]
         \/ /\ k = "classify"
            /\ \E eased \in SUBSET Tools :
                 LET classified == [r EXCEPT !.eased = eased]
                 IN  /\ Upsert(classified)
                     /\ req' = [req EXCEPT ![q] = AfterClassifying(classified)]
  /\ UNCHANGED <<offer, held, grants, up, changes, overlap, shrunk>>

\* _changed: the rows are listed, then handed to the employee registry.
List(q) ==
  /\ At(q, "list")
  /\ req' = [req EXCEPT ![q].seen = Granted(row), ![q].at = "refresh"]
  /\ UNCHANGED <<row, offer, held, grants, up, changes, overlap, shrunk>>

Refresh(q) ==
  /\ At(q, "refresh")
  /\ grants' = req[q].seen
  /\ Done(q)
  /\ UNCHANGED <<row, offer, held, up, changes, overlap, shrunk>>

-----------------------------------------------------------------------------
(* The process, and the service *)

\* The process ends: its servers lose their pipe and end with it.
Stop ==
  /\ up
  /\ up' = FALSE
  /\ registry' = {} /\ live' = "none" /\ servers' = {} /\ cached' = "none" /\ grants' = {}
  /\ req' = [q \in Requests |-> Idle]
  /\ UNCHANGED <<row, offer, changes, overlap, shrunk>>

\* restore(): what is on the record is registered without starting anything; the
\* connection starts its server at the first call.
Restore ==
  /\ ~up
  /\ IF Usable(row) /\ row.offers # {}
       THEN \E c \in Conns : /\ registry' = Entries(row, row.offers, c)
                             /\ live' = c
                             /\ cached' = c
       ELSE UNCHANGED <<registry, live, cached>>
  /\ grants' = Granted(row)
  /\ up' = TRUE /\ overlap' = FALSE /\ shrunk' = FALSE
  /\ UNCHANGED <<row, offer, servers, req, changes>>

\* A registered tool is called: its client starts a server if it has none, also
\* one that was closed.
CallTool ==
  /\ up
  /\ \E e \in registry : servers' = servers \cup {e.conn}
  /\ UNCHANGED <<row, offer, registry, live, cached, grants, req, up, changes, overlap, shrunk>>

Change ==
  /\ changes < MaxChanges
  /\ changes' = changes + 1
  /\ offer' \in SUBSET Tools
  /\ UNCHANGED <<row, held, grants, req, up, overlap, shrunk>>

Step(q) == Read(q) \/ Mark(q) \/ Open(q) \/ OpenFails(q) \/ Keep(q) \/ Withdraw(q)
           \/ Save(q) \/ List(q) \/ Refresh(q)

Next ==
  \/ \E q \in Requests : Step(q) \/ \E kind \in Kinds : Ask(q, kind)
  \/ Stop \/ Restore \/ CallTool \/ Change

Spec == Init /\ [][Next]_vars

-----------------------------------------------------------------------------
(* What the lifecycle promises *)

Quiet == up /\ \A q \in Requests : ~Busy(q)

\* When no request is under way, none overlapped another and the service took no
\* tool back: every registered tool is on the row of an enabled integration and
\* carries the effect a person gave it, the employees are granted nothing that
\* the row does not offer, and a connection is held for what is registered.
RegistryFollowsRow == Quiet /\ ~overlap /\ ~shrunk =>
  /\ \A e \in registry :
       Usable(row) /\ e.tool \in row.offers /\ e.eased = (e.tool \in row.eased)
  /\ grants = Granted(row)
  /\ registry # {} => live # "none"

-----------------------------------------------------------------------------
(* What the documentation says and the code does not *)

\* service.py:17, "Every name an integration contributed is removed when it is
\* disabled or removed": connecting again adds what the service offers now and
\* unregisters nothing, and the record forgets the names it no longer lists.
NothingLeftBehind == Quiet /\ ~overlap /\ ~Usable(row) => registry = {}

\* service.py:320, "Close every server this process opened": a connection made
\* again, and one whose discovery failed, leave a server nobody holds.
ServersAreHeld == Quiet /\ ~overlap => servers \subseteq {live}

\* service.py:189, "The credentials this server needs, resolved at the moment of
\* use, handed to the child process": the client of a restored connection starts
\* its server at the first call, and cached_connector gave it none.
CredentialsReachServers == cached \notin servers

\* interface/service.py:729, a person's judgement "is the only way in" to what the
\* tools are said to do: a connect that read the record before it was classified
\* saves the old classification over the new one.
OnlyAPersonClassifies == [][row'.eased # row.eased =>
  \E q \in Requests : At(q, "save") /\ req[q].kind \in {"classify", "remove"}]_vars
=============================================================================
