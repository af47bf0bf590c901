------------------------------ MODULE Providers ------------------------------
(***************************************************************************)
(* The settings of the models: the ways in to a provider (connections and  *)
(* the credentials they pay with), the catalog of models, where each kind  *)
(* of work goes, and what the process makes of them when it calls a model. *)
(* Each operation of ProviderService is a coroutine of one request, split  *)
(* where it awaits the database; requests may overlap, and the process may *)
(* be killed between any two of its steps.                                 *)
(***************************************************************************)
EXTENDS Naturals, FiniteSets

CONSTANTS
  Conns,      \* names of connections
  Models,     \* names of catalog entries
  Kinds,      \* kinds of work
  Shipped,    \* the file the program ships with: its entries
  Preferred,  \* the file: where it sends each kind of work
  Requests,   \* requests under way at once
  Secret,     \* _secret_name_for: the credential a connection's name gives
  MaxChanges, \* bound: requests made
  MaxKills    \* bound: kills

ASSUME ProvidersAssumption ==
  /\ Shipped \subseteq Models /\ Preferred \in [Kinds -> Shipped]
  /\ MaxChanges \in Nat /\ MaxKills \in Nat
  /\ {"none", "machine"} \cap (Conns \cup Models) = {}
  /\ DOMAIN Secret = Conns

VARIABLES
  conns,      \* connections: a row's way of paying
  entries,    \* model_entries: what each is reached through
  defaults,   \* task_defaults
  vault,      \* the credentials stored
  directory,  \* ConnectionDirectory: the rows as they were last read
  catalog,    \* Container._catalog
  built,      \* Container.model_catalog: what the router was built from, once it was
  req,        \* the coroutine of each request
  up,         \* "down", "starting" or "up"
  last,       \* the last call of a model: the entry chosen, and the way in used
  changes, kills,
  crossed,    \* history: requests were under way together since the last load began
  raced       \* history: connections removed while another request named them

store == <<conns, entries, defaults, vault>>
memory == <<directory, catalog, built>>
vars == <<store, memory, req, up, last, changes, kills, crossed, raced>>

\* A connection without a row, one of a kind that needs no credential, one that
\* names a credential.  add_connection refuses the fourth case.
Pays == {"none", "nothing", "key"}
Reach == Conns \cup {"machine"}

\* The file, and what a start without a readable store runs on.
File == [offers |-> [m \in Shipped |-> "machine"], sends |-> Preferred]

Idle == [call |-> [op |-> "none"], at |-> "idle", seen |-> {}]

TypeOK ==
  /\ conns \in [Conns -> Pays]
  /\ entries \in [Models -> Reach \cup {"none"}]
  /\ defaults \in [Kinds -> Models \cup {"none"}]
  /\ vault \subseteq {Secret[c] : c \in Conns}
  /\ directory \in [Conns -> Pays]
  /\ up \in {"down", "starting", "up"}
  /\ changes \in 0..MaxChanges /\ kills \in 0..MaxKills
  /\ crossed \in BOOLEAN /\ raced \subseteq Conns

Init ==
  /\ conns = [c \in Conns |-> "none"]
  /\ entries = [m \in Models |-> "none"]
  /\ defaults = [k \in Kinds |-> "none"]
  /\ vault = {}
  /\ directory = [c \in Conns |-> "none"]
  /\ catalog = File /\ built = {}
  /\ req = [r \in Requests |-> Idle]
  /\ up = "down" /\ last = {}
  /\ changes = 0 /\ kills = 0 /\ crossed = FALSE /\ raced = {}

-----------------------------------------------------------------------------
(* What a load of the catalog makes of the store. *)

\* _can_reach: the connection is in the directory, or the machine has its key.
CanReach(m, es, dir) == es[m] = "machine" \/ (es[m] \in Conns /\ dir[es[m]] # "none")
Offered(es, dir) == {m \in Models : CanReach(m, es, dir)}

\* Defaults that name nothing on offer are dropped.
Loaded(es, offered, ds) ==
  [offers |-> [m \in offered |-> es[m]],
   sends |-> [k \in Kinds |-> IF ds[k] \in offered THEN ds[k] ELSE "none"]]

\* use_catalog: _catalog is replaced; the router and the factory built from
\* model_catalog are dropped, model_catalog itself is cached and stays.
UseCatalog(c) == catalog' = c /\ UNCHANGED built

-----------------------------------------------------------------------------
(* The requests. *)

Calls ==
  [op : {"add connection"}, conn : Conns, key : BOOLEAN]
  \cup [op : {"replace key", "remove connection"}, conn : Conns]
  \cup [op : {"add model"}, model : Models, conn : Reach]
  \cup [op : {"remove model"}, model : Models]
  \cup [op : {"send work"}, model : Models, kind : Kinds]
  \cup [op : {"clear default"}, kind : Kinds]

Names(call) == IF "conn" \in DOMAIN call THEN {call.conn} \cap Conns ELSE {}

At(r, op, at) == up # "down" /\ req[r].call.op = op /\ req[r].at = at
GoTo(r, at) == req' = [req EXCEPT ![r].at = at, ![r].seen = {}]
See(r, at, what) == req' = [req EXCEPT ![r].at = at, ![r].seen = what]
End(r) == req' = [req EXCEPT ![r] = Idle]

Only(touched) == UNCHANGED <<touched, memory, up, last, changes, kills, crossed, raced>>

\* A page, or the command line, asks for a change.
Ask(r) ==
  /\ up = "up" /\ req[r] = Idle /\ changes < MaxChanges
  /\ \E call \in Calls :
       LET others == {req[s].call : s \in {t \in Requests : req[t] # Idle}}
           meets == {o \in others : "remove connection" \in {o.op, call.op}}
       IN  /\ req' = [req EXCEPT ![r] = [call |-> call, at |-> "begin", seen |-> {}]]
           /\ crossed' = (crossed \/ others # {})
           /\ raced' = raced \cup UNION {Names(o) \cap Names(call) : o \in meets}
  /\ changes' = changes + 1
  /\ UNCHANGED <<store, memory, up, last, kills>>

\* get_by_name: the name is free, or the request is refused.
CheckNameFree(r) ==
  /\ At(r, "add connection", "begin")
  /\ IF conns[req[r].call.conn] = "none"
       THEN GoTo(r, IF req[r].call.key THEN "store" ELSE "save")
       ELSE End(r)
  /\ Only(store)

\* _require, by replace_key, remove_connection and add_model.
RequireConnection(r) ==
  /\ \E op \in {"replace key", "remove connection", "add model"} : At(r, op, "begin")
  /\ LET call == req[r].call
         next == CASE call.op = "replace key" -> "store"
                   [] call.op = "remove connection" -> "holding"
                   [] OTHER -> "save"
     IN  IF Names(call) = {} THEN GoTo(r, next)
         ELSE IF conns[call.conn] = "none" THEN End(r) ELSE See(r, next, {conns[call.conn]})
  /\ Only(store)

\* The credential is stored before the row that names it.
StoreCredential(r) ==
  /\ At(r, "add connection", "store") \/ At(r, "replace key", "store")
  /\ vault' = vault \cup {Secret[req[r].call.conn]}
  /\ GoTo(r, "save")
  /\ Only(<<conns, entries, defaults>>)

SaveConnection(r) ==
  /\ At(r, "add connection", "save") \/ At(r, "replace key", "save")
  /\ LET call == req[r].call
         paid == IF call.op = "replace key" \/ call.key THEN "key" ELSE "nothing"
     IN  IF call.op = "add connection" /\ conns[call.conn] # "none"
           THEN End(r) /\ UNCHANGED conns  \* the unique index refuses the row
           ELSE GoTo(r, "restore") /\ conns' = [conns EXCEPT ![call.conn] = paid]
  /\ Only(<<entries, defaults, vault>>)

Held(c) == \E m \in Models : entries[m] = c

\* Fault: the removal is refused and the credential forgotten all the same.
ForgetAnyway(r) ==
  /\ At(r, "remove connection", "holding")
  /\ See(r, IF Held(req[r].call.conn) THEN "forget" ELSE "delete", req[r].seen)
  /\ Only(store)

\* entries_using: refused while a model points at it.
CheckNotHolding(r) ==
  /\ At(r, "remove connection", "holding")
  /\ IF Held(req[r].call.conn) THEN End(r) ELSE See(r, "delete", req[r].seen)
  /\ Only(store)

DeleteConnection(r) ==
  /\ At(r, "remove connection", "delete")
  /\ conns' = [conns EXCEPT ![req[r].call.conn] = "none"]
  /\ GoTo(r, IF "key" \in req[r].seen THEN "forget" ELSE "restore")
  /\ Only(<<entries, defaults, vault>>)

ForgetCredential(r) ==
  /\ At(r, "remove connection", "forget")
  /\ vault' = vault \ {Secret[req[r].call.conn]}
  /\ GoTo(r, "restore")
  /\ Only(<<conns, entries, defaults>>)

\* save_entry writes over an entry of the same name.
SaveModel(r) ==
  /\ At(r, "add model", "save")
  /\ entries' = [entries EXCEPT ![req[r].call.model] = req[r].call.conn]
  /\ GoTo(r, "restore")
  /\ Only(<<conns, defaults, vault>>)

DeleteModel(r) ==
  /\ At(r, "remove model", "begin")
  /\ IF entries[req[r].call.model] = "none" THEN End(r) ELSE GoTo(r, "routed")
  /\ entries' = [entries EXCEPT ![req[r].call.model] = "none"]
  /\ Only(<<conns, defaults, vault>>)

\* What was routed to the model, read once; then cleared one kind at a time.
ReadRouted(r) ==
  /\ At(r, "remove model", "routed")
  /\ See(r, "unroute", {k \in Kinds : defaults[k] = req[r].call.model})
  /\ Only(store)

Unroute(r) ==
  /\ At(r, "remove model", "unroute")
  /\ IF req[r].seen = {}
       THEN GoTo(r, "restore") /\ UNCHANGED defaults
       ELSE \E k \in req[r].seen :
              /\ defaults' = [defaults EXCEPT ![k] = "none"]
              /\ See(r, "unroute", req[r].seen \ {k})
  /\ Only(<<conns, entries, vault>>)

CheckModelThere(r) ==
  /\ At(r, "send work", "begin")
  /\ IF entries[req[r].call.model] = "none" THEN End(r) ELSE GoTo(r, "save")
  /\ Only(store)

SetDefault(r) ==
  /\ At(r, "send work", "save")
  /\ defaults' = [defaults EXCEPT ![req[r].call.kind] = req[r].call.model]
  /\ GoTo(r, "restore")
  /\ Only(<<conns, entries, vault>>)

ClearDefault(r) ==
  /\ At(r, "clear default", "begin")
  /\ defaults' = [defaults EXCEPT ![req[r].call.kind] = "none"]
  /\ GoTo(r, "restore")
  /\ Only(<<conns, entries, vault>>)

-----------------------------------------------------------------------------
(* _changed: reload(), which every change ends with and every start begins     *)
(* with: the directory is read, then the catalog, and what was built of it is  *)
(* dropped.                                                                     *)

Reading(r, at) == up # "down" /\ req[r].at = at

RestoreDirectory(r) ==
  /\ Reading(r, "restore")
  /\ directory' = conns
  /\ GoTo(r, "empty")
  /\ crossed' = \E s \in Requests \ {r} : req[s] # Idle
  /\ UNCHANGED <<store, catalog, built, up, last, changes, kills, raced>>

\* is_empty: an installation without an entry is one that was never seeded.
CheckEmpty(r) ==
  /\ Reading(r, "empty")
  /\ IF \A m \in Models : entries[m] = "none"
       THEN See(r, "seed", Shipped)
       ELSE GoTo(r, "entries")
  /\ Only(store)

\* The entries of the file one by one, then its defaults.
SeedEntry(r) ==
  /\ Reading(r, "seed")
  /\ \E m \in req[r].seen :
       /\ entries' = [entries EXCEPT ![m] = "machine"]
       /\ IF req[r].seen = {m} THEN See(r, "prefer", Kinds)
                              ELSE See(r, "seed", req[r].seen \ {m})
  /\ Only(<<conns, defaults, vault>>)

SeedDefault(r) ==
  /\ Reading(r, "prefer")
  /\ \E k \in req[r].seen :
       /\ defaults' = [defaults EXCEPT ![k] = Preferred[k]]
       /\ IF req[r].seen = {k} THEN GoTo(r, "entries")
                              ELSE See(r, "prefer", req[r].seen \ {k})
  /\ Only(<<conns, entries, vault>>)

\* The entries, those the directory of the moment can reach.
ReadEntries(r) ==
  /\ Reading(r, "entries")
  /\ See(r, "use", {<<m, entries[m]>> : m \in Offered(entries, directory)})
  /\ Only(store)

ReadDefaults(r) ==
  /\ Reading(r, "use")
  /\ LET seen == req[r].seen
         via == [m \in {p[1] : p \in seen} |-> CHOOSE c \in Reach : <<m, c>> \in seen]
     IN  UseCatalog(Loaded(via, DOMAIN via, defaults))
  /\ End(r)
  /\ up' = "up"
  /\ UNCHANGED <<store, directory, last, changes, kills, crossed, raced>>

-----------------------------------------------------------------------------
(* The calls, and the life of the process. *)

\* llm_for: the router and the factory are built of the cached model_catalog, or
\* of _catalog when nobody read it before.
InForce == IF built = {} THEN catalog ELSE CHOOSE c \in built : TRUE

\* select: among the entries that can do the work, the default for this kind of
\* work, or else the best.  The ModelChoice names no connection.
Select(c, k, able) ==
  {[model |-> m, conn |-> "machine"] :
     m \in IF c.sends[k] \in able THEN {c.sends[k]} ELSE able}

\* A choice without a connection is called with the key and the address the
\* machine was configured with, one with a connection through it: _require_key
\* and _address.
CallModel ==
  /\ up = "up"
  /\ built' = {InForce}
  /\ \E k \in Kinds, able \in SUBSET DOMAIN InForce.offers :
       \E choice \in Select(InForce, k, able) :
         last' = {[entry |-> choice.model, via |-> choice.conn]}
  /\ UNCHANGED <<store, directory, catalog, req, up, changes, kills, crossed, raced>>

Kill ==
  /\ up # "down" /\ kills < MaxKills
  /\ kills' = kills + 1
  /\ up' = "down"
  /\ req' = [r \in Requests |-> Idle]
  /\ directory' = [c \in Conns |-> "none"] /\ catalog' = File /\ built' = {}
  /\ last' = {} /\ crossed' = FALSE
  /\ UNCHANGED <<store, changes, raced>>

\* prepare(): the catalog is loaded before any request is served.
Start(r) ==
  /\ up = "down"
  /\ up' = "starting"
  /\ req' = [req EXCEPT ![r] = [call |-> [op |-> "start"], at |-> "restore", seen |-> {}]]
  /\ UNCHANGED <<store, memory, last, changes, kills, crossed, raced>>

Next ==
  \/ CallModel \/ Kill
  \/ \E r \in Requests :
       \/ Start(r) \/ Ask(r)
       \/ CheckNameFree(r) \/ RequireConnection(r) \/ StoreCredential(r) \/ SaveConnection(r)
       \/ CheckNotHolding(r) \/ DeleteConnection(r) \/ ForgetCredential(r)
       \/ SaveModel(r) \/ DeleteModel(r) \/ ReadRouted(r) \/ Unroute(r)
       \/ CheckModelThere(r) \/ SetDefault(r) \/ ClearDefault(r)
       \/ RestoreDirectory(r) \/ CheckEmpty(r) \/ SeedEntry(r) \/ SeedDefault(r)
       \/ ReadEntries(r) \/ ReadDefaults(r)

Spec == Init /\ [][Next]_vars

-----------------------------------------------------------------------------
(* Safety. *)

\* No other connection gives the same credential.  Names that differ only in case, or
\* in a dash, a space or an underscore, give one.
Unshared(c) == \A e \in Conns : Secret[e] = Secret[c] => e = c

\* A connection that names a credential of its own finds it in the store, wherever a
\* kill fell: the key is stored before the row is saved and forgotten after the row
\* is deleted.  Not for a connection removed while another request wrote it, nor for
\* one of two names that share a credential: removing either forgets it for both.
RowsHaveTheirKeys ==
  \A c \in Conns \ raced : Unshared(c) /\ conns[c] = "key" => Secret[c] \in vault

\* Every catalog entry points at a connection that exists: removing one that
\* models point at is refused, adding a model on one that is gone is refused.
\* Not when the two were under way together.
EntriesHaveTheirConnections ==
  \A m \in Models, c \in Conns \ raced : entries[m] = c => conns[c] # "none"

\* With nothing under way, the catalog the process was told to use is the one its
\* store gives: every change is read, whatever was refused or killed in between.
\* Not when two requests were under way together and no load ran alone since.
CatalogIsTheStore ==
  up = "up" /\ ~crossed /\ (\A r \in Requests : req[r] = Idle)
    => catalog = Loaded(entries, Offered(entries, conns), defaults)

-----------------------------------------------------------------------------
(* What the documentation says and the code does not. *)

\* A model is reached through the connection its entry names: "a catalog entry
\* names a connection, the connection names a credential and an address, and the
\* value is resolved here" (infrastructure/llm/factory.py:8).
RoutedByConnection ==
  \A call \in last : InForce.offers[call.entry] = call.via

\* A change takes effect without a restart: "the running process picks it up"
\* (application/providers/service.py:70).
ChangesTakeEffect ==
  up = "up" /\ ~crossed /\ (\A r \in Requests : req[r] = Idle) => InForce = catalog

\* A fresh installation is seeded once: an entry removed stays removed
\* (infrastructure/llm/store.py:11).
SeededOnce ==
  [][\A m \in Models : entries[m] # "none" \/ entries'[m] = "none" \/ changes = 0
       \/ \E r \in Requests : req[r].call.op = "add model"]_vars

\* "One credential per connection, named after it" (application/providers/service.py:265):
\* two names that differ in case or in a dash share one, and removing either
\* connection takes the key of both.
OneCredentialEach ==
  \A c \in Conns \ raced : up = "up" /\ (\A r \in Requests : req[r] = Idle) /\ conns[c] = "key"
    => Secret[c] \in vault

\* The key of a connection that was removed is gone, and a kill between the two
\* leaves it.
KeysAreForgotten ==
  \A c \in Conns : up = "up" /\ (\A r \in Requests : req[r] = Idle) /\ conns[c] = "none"
    => Secret[c] \notin vault
=============================================================================
