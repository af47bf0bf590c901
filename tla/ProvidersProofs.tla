--------------------------- MODULE ProvidersProofs ---------------------------
(***************************************************************************)
(* What a machine keeps, proved part by part: the credentials of its       *)
(* connections, the directories of its workspaces, the memory of what was  *)
(* done, and the documents a person brought.  The four share no state, so  *)
(* that each has an invariant of its own.                                  *)
(***************************************************************************)
EXTENDS MCProviders, WellFoundedInduction, TLAPS

-----------------------------------------------------------------------------
(* Connections: a credential is stored before the row that says so, and the row is
   gone before it is forgotten. *)

NeedsKey(call) == call.op = "replace key" \/ (call.op = "add connection" /\ call.key)

RequestsAreTyped ==
  /\ DOMAIN req = Requests /\ conns \in [Conns -> Pays]
  /\ \A r \in Requests : /\ DOMAIN req[r] = DOMAIN Idle
                         /\ req[r].call \in Calls \cup {[op |-> "none"], [op |-> "start"]}

\* A connection that was not raced is named by one request while it is removed.
RemovedAlone ==
  \A r, s \in Requests : \A c \in Conns \ raced :
    r # s /\ c \in Names(req[r].call) /\ c \in Names(req[s].call)
      => req[r].call.op # "remove connection"

\* The credential is stored before the row, and the row is gone before it is forgotten.
RowsComeLast ==
  \A r \in Requests : \A c \in Conns \ raced : c \in Names(req[r].call) =>
    /\ req[r].at = "forget" => conns[c] = "none" /\ req[r].call.op = "remove connection"
    /\ req[r].at = "save" /\ NeedsKey(req[r].call) /\ Unshared(c) => Secret[c] \in vault

KeysInv == RequestsAreTyped /\ RemovedAlone /\ RowsComeLast /\ RowsHaveTheirKeys

LEMMA CallsAreNamed ==
  ASSUME NEW call \in Calls
  PROVE  /\ Names(call) \subseteq Conns
         /\ call.op \in {"add connection", "replace key", "remove connection"} =>
              "conn" \in DOMAIN call /\ call.conn \in Conns /\ Names(call) = {call.conn}
BY DEF Calls, Names

LEMMA NobodyIsNamed ==
  Names([op |-> "none"]) = {} /\ Names([op |-> "start"]) = {}
BY DEF Names

LEMMA KeysStart == Init => KeysInv
<1> SUFFICES ASSUME Init PROVE KeysInv
  OBVIOUS
<1> USE DEF Init
<1>1. RequestsAreTyped
  BY DEF RequestsAreTyped, Idle, Pays
<1>2. \A r \in Requests : Names(req[r].call) = {}
  BY NobodyIsNamed DEF Idle
<1> QED
  BY <1>1, <1>2 DEF KeysInv, RemovedAlone, RowsComeLast, RowsHaveTheirKeys

\* One request goes on, or ends, and neither a row nor a credential is written.
LEMMA MoveKeepsKeys ==
  ASSUME KeysInv, NEW r \in Requests, NEW n, req' = [req EXCEPT ![r] = n],
         DOMAIN n = DOMAIN Idle,
         n.call \in {req[r].call, [op |-> "none"], [op |-> "start"]},
         n.at # "forget", n.at = "save" => ~NeedsKey(n.call),
         UNCHANGED <<conns, vault, raced>>
  PROVE  KeysInv'
<1>1. RequestsAreTyped'
  BY DEF KeysInv, RequestsAreTyped
<1>2. \A s \in Requests : /\ Names(req'[s].call) \subseteq Names(req[s].call)
                          /\ Names(req'[s].call) # {} => req'[s].call = req[s].call
                          /\ s # r => req'[s] = req[s]
  BY NobodyIsNamed DEF KeysInv, RequestsAreTyped
<1>3. RemovedAlone'
  BY <1>2 DEF KeysInv, RemovedAlone
<1>4. RowsComeLast'
  <2> SUFFICES ASSUME NEW s \in Requests, NEW c \in Conns \ raced, c \in Names(req'[s].call)
               PROVE  /\ req'[s].at = "forget" => conns[c] = "none" /\ req'[s].call.op = "remove connection"
                      /\ req'[s].at = "save" /\ NeedsKey(req'[s].call) /\ Unshared(c) => Secret[c] \in vault
    BY DEF RowsComeLast
  <2>1. CASE s = r
    BY <2>1 DEF KeysInv, RequestsAreTyped
  <2>2. CASE s # r
    BY <1>2, <2>2 DEF KeysInv, RowsComeLast
  <2> QED
    BY <2>1, <2>2
<1>5. RowsHaveTheirKeys'
  BY DEF KeysInv, RowsHaveTheirKeys
<1> QED
  BY <1>1, <1>3, <1>4, <1>5 DEF KeysInv

\* The same, said of the field it is in.
LEMMA GoToIsAMove ==
  ASSUME RequestsAreTyped, NEW r \in Requests, NEW at, NEW seen, See(r, at, seen)
  PROVE  \E n : /\ req' = [req EXCEPT ![r] = n] /\ DOMAIN n = DOMAIN Idle
                /\ n.call = req[r].call /\ n.at = at
<1> DEFINE n == [req[r] EXCEPT !.at = at, !.seen = seen]
<1>1. DOMAIN req = Requests /\ DOMAIN req[r] = {"call", "at", "seen"}
  BY DEF RequestsAreTyped, Idle
<1>2. /\ req' = [req EXCEPT ![r] = n] /\ DOMAIN n = DOMAIN Idle
      /\ n.call = req[r].call /\ n.at = at
  BY <1>1 DEF See, Idle
<1> QED
  BY <1>2

LEMMA WritersNameOne ==
  ASSUME RequestsAreTyped, NEW r \in Requests,
         req[r].call.op \in {"add connection", "replace key", "remove connection"}
  PROVE  req[r].call.conn \in Conns /\ Names(req[r].call) = {req[r].call.conn}
<1>1. [op |-> "none"].op = "none" /\ [op |-> "start"].op = "start"
  OBVIOUS
<1>2. req[r].call \in Calls \/ req[r].call = [op |-> "none"] \/ req[r].call = [op |-> "start"]
  BY DEF RequestsAreTyped
<1>3. req[r].call \in Calls
  BY <1>1, <1>2
<1> QED
  BY <1>3, CallsAreNamed

\* A request that goes on to a place where nothing was established.
LEMMA GoingOnKeepsKeys ==
  ASSUME KeysInv, NEW r \in Requests, NEW at, NEW seen, See(r, at, seen) \/ End(r),
         at # "forget", at = "save" => ~NeedsKey(req[r].call),
         UNCHANGED <<conns, vault, raced>>
  PROVE  KeysInv'
<1>1. RequestsAreTyped
  BY DEF KeysInv
<1>2. CASE See(r, at, seen)
  <2>1. PICK n : /\ req' = [req EXCEPT ![r] = n] /\ DOMAIN n = DOMAIN Idle
                 /\ n.call = req[r].call /\ n.at = at
    BY <1>1, <1>2, GoToIsAMove
  <2> QED
    BY <2>1, MoveKeepsKeys
<1>3. CASE End(r)
  <2>1. Idle.call = [op |-> "none"] /\ Idle.at = "idle"
    BY DEF Idle
  <2> QED
    BY <1>3, <2>1, MoveKeepsKeys DEF End
<1> QED
  BY <1>2, <1>3

\* A row or a credential is written by a request that names the connection, and goes on.
LEMMA WriteKeepsKeys ==
  ASSUME KeysInv, NEW r \in Requests, NEW c \in Conns, NEW at, See(r, at, {}),
         Names(req[r].call) = {c}, raced' = raced,
         conns' \in [Conns -> Pays], \A e \in Conns \ {c} : conns'[e] = conns[e],
         \A e \in Conns : e # c /\ Unshared(e) /\ Secret[e] \in vault => Secret[e] \in vault',
         Unshared(c) /\ c \notin raced =>
           /\ conns'[c] = "key" => Secret[c] \in vault'
           /\ at = "save" /\ NeedsKey(req[r].call) => Secret[c] \in vault'
           /\ Secret[c] \in vault /\ Secret[c] \notin vault' => req[r].call.op = "remove connection",
         at = "forget" => conns'[c] = "none" /\ req[r].call.op = "remove connection",
         conns'[c] # "none" => conns'[c] = conns[c] \/ req[r].call.op # "remove connection"
  PROVE  KeysInv'
<1>1. PICK n : /\ req' = [req EXCEPT ![r] = n] /\ DOMAIN n = DOMAIN Idle
               /\ n.call = req[r].call /\ n.at = at
  BY GoToIsAMove DEF KeysInv
<1>2. RequestsAreTyped'
  BY <1>1 DEF KeysInv, RequestsAreTyped
<1>3. \A s \in Requests : req'[s].call = req[s].call /\ (s # r => req'[s] = req[s])
  BY <1>1 DEF KeysInv, RequestsAreTyped
<1>4. RemovedAlone'
  BY <1>3 DEF KeysInv, RemovedAlone
<1>5. RowsComeLast'
  <2> SUFFICES ASSUME NEW s \in Requests, NEW e \in Conns \ raced, e \in Names(req[s].call)
               PROVE  /\ req'[s].at = "forget" => conns'[e] = "none" /\ req[s].call.op = "remove connection"
                      /\ req'[s].at = "save" /\ NeedsKey(req[s].call) /\ Unshared(e) => Secret[e] \in vault'
    BY <1>3 DEF RowsComeLast
  <2>1. CASE s = r
    BY <1>1, <2>1 DEF KeysInv, RequestsAreTyped
  <2>2. CASE s # r /\ e # c
    BY <1>3, <2>2 DEF KeysInv, RowsComeLast
  <2>3. CASE s # r /\ e = c
    <3>1. req[r].call.op # "remove connection" /\ req[s].call.op # "remove connection"
      BY <2>3 DEF KeysInv, RemovedAlone
    <3> QED
      BY <1>3, <2>3, <3>1 DEF KeysInv, RowsComeLast
  <2> QED
    BY <2>1, <2>2, <2>3
<1>6. RowsHaveTheirKeys'
  BY DEF KeysInv, RowsHaveTheirKeys
<1> QED
  BY <1>2, <1>4, <1>5, <1>6 DEF KeysInv

LEMMA KeysStep == KeysInv /\ [Next]_vars => KeysInv'
<1> SUFFICES ASSUME KeysInv, [Next]_vars PROVE KeysInv'
  OBVIOUS
<1> USE DEF store, memory
<1>t. RequestsAreTyped
  BY DEF KeysInv
<1>u. ASSUME UNCHANGED <<conns, vault, raced, req>> PROVE KeysInv'
  BY <1>u DEF KeysInv, RequestsAreTyped, RemovedAlone, RowsComeLast, RowsHaveTheirKeys
<1>1. CASE UNCHANGED vars
  BY <1>1, <1>u DEF vars
<1>2. CASE CallModel
  BY <1>2, <1>u DEF CallModel
<1>3. CASE Kill
  <2>1. UNCHANGED <<conns, vault, raced>> /\ req' = [r \in Requests |-> Idle]
    BY <1>3 DEF Kill
  <2>2. RequestsAreTyped'
    BY <1>t, <2>1 DEF RequestsAreTyped, Idle
  <2>3. \A r \in Requests : Names(req'[r].call) = {}
    BY <2>1, NobodyIsNamed DEF Idle
  <2> QED
    BY <2>1, <2>2, <2>3 DEF KeysInv, RemovedAlone, RowsComeLast, RowsHaveTheirKeys
<1>4. ASSUME NEW r \in Requests, Start(r) PROVE KeysInv'
  <2> DEFINE n == [call |-> [op |-> "start"], at |-> "restore", seen |-> {}]
  <2>1. req' = [req EXCEPT ![r] = n] /\ UNCHANGED <<conns, vault, raced>>
    BY <1>4 DEF Start
  <2>2. DOMAIN n = DOMAIN Idle /\ n.call = [op |-> "start"] /\ n.at = "restore"
    BY DEF Idle
  <2> HIDE DEF n
  <2> QED
    BY <2>1, <2>2, MoveKeepsKeys
<1>5. ASSUME NEW r \in Requests, Ask(r) PROVE KeysInv'
  <2>1. PICK call \in Calls :
          LET others == {req[s].call : s \in {t \in Requests : req[t] # Idle}}
              meets == {o \in others : "remove connection" \in {o.op, call.op}}
          IN  /\ req' = [req EXCEPT ![r] = [call |-> call, at |-> "begin", seen |-> {}]]
              /\ raced' = raced \cup UNION {Names(o) \cap Names(call) : o \in meets}
    BY <1>5 DEF Ask
  <2>2. UNCHANGED <<conns, vault>>
    BY <1>5 DEF Ask
  <2> DEFINE n == [call |-> call, at |-> "begin", seen |-> {}]
  <2>3. req' = [req EXCEPT ![r] = n] /\ DOMAIN n = DOMAIN Idle /\ n.call = call /\ n.at = "begin"
    BY <2>1 DEF Idle
  <2> HIDE DEF n
  <2>4. /\ \A s \in Requests : s # r => req'[s] = req[s]
        /\ req'[r] = n /\ RequestsAreTyped'
    BY <1>t, <2>2, <2>3 DEF RequestsAreTyped
  <2>5. raced \subseteq raced'
    BY <2>1
  <2>6. ASSUME NEW s \in Requests, s # r, NEW c \in Conns \ raced',
               c \in Names(req[s].call), c \in Names(call)
        PROVE  req[s].call.op # "remove connection" /\ call.op # "remove connection"
    <3>1. req[s] # Idle
      BY <2>6, NobodyIsNamed DEF Idle
    <3> DEFINE others == {req[q].call : q \in {x \in Requests : req[x] # Idle}}
               meets == {o \in others : "remove connection" \in {o.op, call.op}}
    <3>2. req[s].call \in others
      BY <3>1
    <3>3. \A o \in meets : Names(o) \cap Names(call) \subseteq raced'
      BY <2>1
    <3>4. req[s].call \notin meets
      BY <2>6, <3>3
    <3> QED
      BY <3>2, <3>4
  <2>7. RemovedAlone'
    <3> SUFFICES ASSUME NEW s \in Requests, NEW q \in Requests, NEW c \in Conns \ raced',
                        s # q, c \in Names(req'[s].call), c \in Names(req'[q].call)
                 PROVE  req'[s].call.op # "remove connection"
      BY DEF RemovedAlone
    <3>1. CASE s # r /\ q # r
      BY <2>4, <2>5, <3>1 DEF KeysInv, RemovedAlone
    <3>2. CASE s = r
      BY <2>3, <2>4, <2>6, <3>2
    <3>3. CASE q = r
      BY <2>3, <2>4, <2>6, <3>3
    <3> QED
      BY <3>1, <3>2, <3>3
  <2>8. RowsComeLast'
    BY <2>2, <2>3, <2>4, <2>5 DEF KeysInv, RowsComeLast
  <2>9. RowsHaveTheirKeys'
    BY <2>2, <2>5 DEF KeysInv, RowsHaveTheirKeys
  <2> QED
    BY <2>4, <2>7, <2>8, <2>9 DEF KeysInv
<1>6. ASSUME NEW r \in Requests, CheckNameFree(r) PROVE KeysInv'
  <2>1. /\ UNCHANGED <<conns, vault, raced>> /\ req[r].call.op = "add connection"
        /\ See(r, IF req[r].call.key THEN "store" ELSE "save", {}) \/ End(r)
    BY <1>6 DEF CheckNameFree, At, Only, GoTo, See
  <2> QED
    BY <2>1, GoingOnKeepsKeys DEF NeedsKey
<1>7. ASSUME NEW r \in Requests, RequireConnection(r) PROVE KeysInv'
  <2>1. /\ UNCHANGED <<conns, vault, raced>>
        /\ req[r].call.op \in {"replace key", "remove connection", "add model"}
    BY <1>7 DEF RequireConnection, At, Only
  <2> DEFINE next == CASE req[r].call.op = "replace key" -> "store"
                       [] req[r].call.op = "remove connection" -> "holding"
                       [] OTHER -> "save"
  <2>2. See(r, next, {}) \/ See(r, next, {conns[req[r].call.conn]}) \/ End(r)
    BY <1>7 DEF RequireConnection, GoTo, See
  <2>3. next # "forget" /\ (next = "save" => ~NeedsKey(req[r].call))
    BY <2>1 DEF NeedsKey
  <2> HIDE DEF next
  <2> QED
    BY <2>1, <2>2, <2>3, GoingOnKeepsKeys
<1>8. ASSUME NEW r \in Requests, StoreCredential(r) PROVE KeysInv'
  <2>1. /\ req[r].call.op \in {"add connection", "replace key"}
        /\ vault' = vault \cup {Secret[req[r].call.conn]} /\ See(r, "save", {})
        /\ UNCHANGED <<conns, raced>>
    BY <1>8 DEF StoreCredential, At, Only, GoTo, See
  <2>2. req[r].call.conn \in Conns /\ Names(req[r].call) = {req[r].call.conn}
    BY <1>t, <2>1, WritersNameOne
  <2>3. conns' \in [Conns -> Pays] /\ RowsHaveTheirKeys
    BY <1>t, <2>1 DEF RequestsAreTyped, KeysInv
  <2> DEFINE c == req[r].call.conn
  <2> HIDE DEF c
  <2> QED
    BY <2>1, <2>2, <2>3, WriteKeepsKeys DEF c
<1>9. ASSUME NEW r \in Requests, SaveConnection(r) PROVE KeysInv'
  <2> DEFINE c == req[r].call.conn
             paid == IF NeedsKey(req[r].call) THEN "key" ELSE "nothing"
  <2>1. /\ req[r].call.op \in {"add connection", "replace key"} /\ req[r].at = "save"
        /\ UNCHANGED <<vault, raced>>
        /\ \/ End(r) /\ UNCHANGED conns
           \/ See(r, "restore", {}) /\ conns' = [conns EXCEPT ![c] = paid]
    BY <1>9 DEF SaveConnection, At, Only, GoTo, See, NeedsKey
  <2>2. c \in Conns /\ Names(req[r].call) = {c}
    BY <1>t, <2>1, WritersNameOne
  <2>3. c \notin raced /\ Unshared(c) /\ paid = "key" => Secret[c] \in vault
    BY <2>1, <2>2 DEF KeysInv, RowsComeLast
  <2>4. CASE End(r) /\ UNCHANGED conns
    BY <2>1, <2>4, GoingOnKeepsKeys
  <2>5. CASE See(r, "restore", {}) /\ conns' = [conns EXCEPT ![c] = paid]
    <3>1. /\ conns' \in [Conns -> Pays] /\ conns'[c] = paid
          /\ \A e \in Conns \ {c} : conns'[e] = conns[e]
      BY <1>t, <2>2, <2>5 DEF RequestsAreTyped, Pays
    <3> HIDE DEF c, paid
    <3> QED
      BY <2>1, <2>2, <2>3, <2>5, <3>1, WriteKeepsKeys
  <2> QED
    BY <2>1, <2>4, <2>5
<1>10. ASSUME NEW r \in Requests, CheckNotHolding(r) PROVE KeysInv'
  <2>1. UNCHANGED <<conns, vault, raced>> /\ (See(r, "delete", req[r].seen) \/ End(r))
    BY <1>10 DEF CheckNotHolding, Only
  <2> QED
    BY <2>1, GoingOnKeepsKeys
<1>11. ASSUME NEW r \in Requests, DeleteConnection(r) PROVE KeysInv'
  <2> DEFINE c == req[r].call.conn
             at == IF "key" \in req[r].seen THEN "forget" ELSE "restore"
  <2>1. /\ req[r].call.op = "remove connection" /\ See(r, at, {})
        /\ conns' = [conns EXCEPT ![c] = "none"] /\ UNCHANGED <<vault, raced>>
    BY <1>11 DEF DeleteConnection, At, Only, GoTo, See
  <2>2. c \in Conns /\ Names(req[r].call) = {c}
    BY <1>t, <2>1, WritersNameOne
  <2>3. /\ conns' \in [Conns -> Pays] /\ conns'[c] = "none"
        /\ \A e \in Conns \ {c} : conns'[e] = conns[e]
    BY <1>t, <2>1, <2>2 DEF RequestsAreTyped, Pays
  <2> HIDE DEF c, at
  <2> QED
    BY <2>1, <2>2, <2>3, WriteKeepsKeys DEF at, NeedsKey
<1>12. ASSUME NEW r \in Requests, ForgetCredential(r) PROVE KeysInv'
  <2> DEFINE c == req[r].call.conn
  <2>1. /\ req[r].call.op = "remove connection" /\ req[r].at = "forget" /\ See(r, "restore", {})
        /\ vault' = vault \ {Secret[c]} /\ UNCHANGED <<conns, raced>>
    BY <1>12 DEF ForgetCredential, At, Only, GoTo, See
  <2>2. c \in Conns /\ Names(req[r].call) = {c}
    BY <1>t, <2>1, WritersNameOne
  <2>3. c \notin raced => conns[c] = "none"
    BY <2>1, <2>2 DEF KeysInv, RowsComeLast
  <2>4. \A e \in Conns : e # c /\ Unshared(e) /\ Secret[e] \in vault => Secret[e] \in vault'
    BY <2>1, <2>2 DEF Unshared
  <2>5. conns' \in [Conns -> Pays]
    BY <1>t, <2>1 DEF RequestsAreTyped
  <2> HIDE DEF c
  <2> QED
    BY <2>1, <2>2, <2>3, <2>4, <2>5, WriteKeepsKeys
<1>13. ASSUME NEW r \in Requests,
              SaveModel(r) \/ DeleteModel(r) \/ ReadRouted(r) \/ Unroute(r)
       PROVE  KeysInv'
  <2>1. /\ UNCHANGED <<conns, vault, raced>>
        /\ \E at \in {"restore", "routed", "unroute"} : \E seen : See(r, at, seen) \/ End(r)
    BY <1>13 DEF SaveModel, DeleteModel, ReadRouted, Unroute, Only, GoTo, See
  <2> QED
    BY <2>1, GoingOnKeepsKeys
<1>14. ASSUME NEW r \in Requests, CheckModelThere(r) \/ SetDefault(r) \/ ClearDefault(r)
       PROVE  KeysInv'
  <2>1. /\ UNCHANGED <<conns, vault, raced>> /\ req[r].call.op \in {"send work", "clear default"}
        /\ \E at \in {"save", "restore"} : See(r, at, {}) \/ End(r)
    BY <1>14 DEF CheckModelThere, SetDefault, ClearDefault, At, Only, GoTo, See
  <2> QED
    BY <2>1, GoingOnKeepsKeys DEF NeedsKey
<1>15. ASSUME NEW r \in Requests,
              \/ RestoreDirectory(r) \/ CheckEmpty(r) \/ SeedEntry(r) \/ SeedDefault(r)
              \/ ReadEntries(r) \/ ReadDefaults(r)
       PROVE  KeysInv'
  <2>1. UNCHANGED <<conns, vault, raced>>
    BY <1>15 DEF RestoreDirectory, CheckEmpty, SeedEntry, SeedDefault, ReadEntries, ReadDefaults,
       Only
  <2>2. \E at \in {"empty", "seed", "entries", "prefer", "use"} : \E seen : See(r, at, seen) \/ End(r)
    BY <1>15 DEF RestoreDirectory, CheckEmpty, SeedEntry, SeedDefault, ReadEntries, ReadDefaults,
       GoTo, See
  <2> QED
    BY <2>1, <2>2, GoingOnKeepsKeys
<1> QED
  BY <1>1, <1>2, <1>3, <1>4, <1>5, <1>6, <1>7, <1>8, <1>9, <1>10, <1>11, <1>12, <1>13, <1>14,
     <1>15 DEF Next

\* The inductive invariant of the settings: what the requests that name a connection have
\* done of adding, of changing and of removing it.
THEOREM KeysInvariant == Spec => []KeysInv
BY KeysStart, KeysStep, PTL DEF Spec

\* LLMConnectionService: however many requests and processes change the connections and
\* wherever they are ended, a row that says it has a key of its own finds it in the vault,
\* unless two requests raced to remove it.  Of two names that give one credential nothing
\* is said, because the code forgets it with either.
THEOREM RowsFindTheirKeys == Spec => []RowsHaveTheirKeys
<1>1. KeysInv => RowsHaveTheirKeys
  BY DEF KeysInv
<1> QED
  BY KeysInvariant, <1>1, PTL

-----------------------------------------------------------------------------
(* Workspaces: whatever rows a process was told of, it was told what was written. *)

\* A view of the rows in which no workspace has a directory it never had.
WasGiven(view) == \A v \in Spaces : Places!Directory(v, view[v]) \in named[v]

PlacesAreTyped ==
  /\ DOMAIN rows = Spaces /\ DOMAIN named = Spaces /\ DOMAIN declared = Processes
  /\ DOMAIN asked = Requests /\ DOMAIN run = Runs
  /\ active \in Spaces /\ \A e \in touched : e.space \in Spaces
  /\ \A r \in Requests : DOMAIN asked[r] = DOMAIN Places!Idle /\ asked[r].space \in Spaces
  /\ \A x \in Runs : /\ DOMAIN run[x] = DOMAIN Places!Out
                     /\ run[x] # Places!Out => run[x].space \in Spaces /\ run[x].host \in Processes

\* The rows, what each process was told and what a request has read of them.
ViewsWereGiven ==
  /\ \A v \in Spaces : v \in named[v]
  /\ WasGiven(rows)
  /\ \A p \in Processes : WasGiven(declared[p])
  /\ \A r \in Requests : asked[r].at = "declare" => \E view : asked[r].seen = {view} /\ WasGiven(view)

PlacesInv == PlacesAreTyped /\ ViewsWereGiven /\ OwnFiles

USE DEF OwnFiles, Places!OwnFiles

LEMMA PlacesStart == Places!Init => PlacesInv
<1> SUFFICES ASSUME Places!Init PROVE PlacesInv
  OBVIOUS
<1> USE DEF Places!Init
<1>1. PlacesAreTyped
  BY PlacesAssumption DEF PlacesAreTyped, Places!Idle, Places!Out
<1>2. ViewsWereGiven
  BY PlacesAssumption DEF ViewsWereGiven, WasGiven, Places!Idle, Places!Directory
<1> QED
  BY <1>1, <1>2 DEF PlacesInv

\* What a process was told gives a root that was given.
LEMMA RootWasGiven ==
  ASSUME PlacesInv, NEW p \in Processes, NEW v \in Spaces
  PROVE  Places!RootFor(p, v) \in named[v]
BY DEF PlacesInv, ViewsWereGiven, WasGiven, Places!RootFor

\* A request goes on, and what is written of the rows was given.
LEMMA RequestKeepsPlaces ==
  ASSUME PlacesInv, NEW r \in Requests, NEW n, asked' = [asked EXCEPT ![r] = n],
         DOMAIN n = DOMAIN Places!Idle, n.space \in Spaces,
         n.at = "declare" => \E view : n.seen = {view} /\ WasGiven(view),
         DOMAIN rows' = Spaces, DOMAIN named' = Spaces,
         \A v \in Spaces : named[v] \subseteq named'[v],
         WasGiven(rows)', active' \in Spaces,
         UNCHANGED <<declared, run, touched>>
  PROVE  PlacesInv'
<1>1. PlacesAreTyped'
  BY DEF PlacesInv, PlacesAreTyped
<1>2. \A view : WasGiven(view) => WasGiven(view)'
  BY DEF WasGiven
<1>3. \A q \in Requests : asked'[q] = IF q = r THEN n ELSE asked[q]
  BY DEF PlacesInv, PlacesAreTyped
<1>4. \A q \in Requests : asked'[q].at = "declare" =>
        \E view : asked'[q].seen = {view} /\ WasGiven(view)'
  BY <1>2, <1>3 DEF PlacesInv, ViewsWereGiven
<1>5. ViewsWereGiven'
  BY <1>2, <1>4 DEF PlacesInv, ViewsWereGiven, WasGiven
<1>6. OwnFiles'
  <2> SUFFICES ASSUME NEW e \in touched PROVE e.root \in named'[e.space]
    OBVIOUS
  <2> QED
    BY DEF PlacesInv, PlacesAreTyped
<1> QED
  BY <1>1, <1>5, <1>6 DEF PlacesInv

\* A request that goes on, or ends, and writes no row.
LEMMA WaitingKeepsPlaces ==
  ASSUME PlacesInv, NEW r \in Requests, NEW at, Places!GoTo(r, at) \/ Places!End(r),
         at # "declare", active' \in Spaces, UNCHANGED <<rows, named, declared, run, touched>>
  PROVE  PlacesInv'
<1>1. /\ DOMAIN asked = Requests /\ DOMAIN asked[r] = DOMAIN Places!Idle
      /\ asked[r].space \in Spaces /\ DOMAIN rows = Spaces /\ DOMAIN named = Spaces /\ WasGiven(rows)'
  BY DEF PlacesInv, PlacesAreTyped, ViewsWereGiven, WasGiven
<1>2. PICK n : /\ asked' = [asked EXCEPT ![r] = n] /\ DOMAIN n = DOMAIN Places!Idle
               /\ n.space \in Spaces /\ n.at # "declare"
  <2>1. CASE Places!GoTo(r, at)
    <3> DEFINE next == [asked[r] EXCEPT !.at = at]
    <3>1. asked' = [asked EXCEPT ![r] = next] /\ DOMAIN next = DOMAIN Places!Idle
      BY <1>1, <2>1 DEF Places!GoTo
    <3>2. next.space \in Spaces /\ next.at # "declare"
      BY <1>1 DEF Places!Idle
    <3> HIDE DEF next
    <3> QED
      BY <3>1, <3>2
  <2>2. CASE Places!End(r)
    <3>1. Places!Idle.space \in Spaces /\ Places!Idle.at # "declare"
      BY PlacesAssumption DEF Places!Idle
    <3> QED
      BY <2>2, <3>1 DEF Places!End
  <2> QED
    BY <2>1, <2>2
<1> QED
  BY <1>1, <1>2, RequestKeepsPlaces

\* A request that writes a row, and goes on.
LEMMA WritingKeepsPlaces ==
  ASSUME PlacesInv, NEW r \in Requests, NEW at, Places!GoTo(r, at), at # "declare",
         NEW v \in Spaces, NEW value, rows' = [rows EXCEPT ![v] = value],
         \/ named' = named /\ value \in {"absent", "derived", rows[v]}
         \/ named' = [named EXCEPT ![v] = @ \cup {Places!Directory(v, value)}],
         UNCHANGED <<active, declared, run, touched>>
  PROVE  PlacesInv'
<1>1. /\ DOMAIN asked = Requests /\ DOMAIN asked[r] = DOMAIN Places!Idle
      /\ asked[r].space \in Spaces /\ DOMAIN rows = Spaces /\ DOMAIN named = Spaces /\ WasGiven(rows)
      /\ active \in Spaces /\ \A u \in Spaces : u \in named[u]
  BY DEF PlacesInv, PlacesAreTyped, ViewsWereGiven
<1> DEFINE n == [asked[r] EXCEPT !.at = at]
<1>2. asked' = [asked EXCEPT ![r] = n] /\ DOMAIN n = DOMAIN Places!Idle
  BY <1>1 DEF Places!GoTo
<1>3. n.space = asked[r].space /\ n.at = at
  BY <1>1 DEF Places!Idle
<1>4. DOMAIN rows' = Spaces /\ DOMAIN named' = Spaces /\ \A u \in Spaces : named[u] \subseteq named'[u]
  BY <1>1
<1>5. WasGiven(rows)'
  <2> SUFFICES ASSUME NEW u \in Spaces PROVE Places!Directory(u, rows'[u]) \in named'[u]
    BY DEF WasGiven
  <2>1. CASE u # v
    BY <1>1, <1>4, <2>1 DEF WasGiven
  <2>2. CASE u = v
    <3>1. rows'[v] = value /\ Places!Directory(v, "absent") = v /\ Places!Directory(v, "derived") = v
      BY <1>1, PlacesAssumption DEF Places!Directory
    <3>2. Places!Directory(v, rows[v]) \in named[v] /\ v \in named[v]
      BY <1>1 DEF WasGiven
    <3>3. Places!Directory(v, value) \in named'[v]
      BY <1>1, <3>1, <3>2
    <3> QED
      BY <2>2, <3>1, <3>3
  <2> QED
    BY <2>1, <2>2
<1> HIDE DEF n
<1> QED
  BY <1>1, <1>2, <1>3, <1>4, <1>5, RequestKeepsPlaces

LEMMA DeclareKeepsPlaces ==
  ASSUME PlacesInv, NEW r \in Requests, Places!Declare(r)
  PROVE  PlacesInv'
<1> DEFINE p == Host[r]
           told == CHOOSE s \in asked[r].seen : TRUE
           here == IF told[active] # "absent" THEN active ELSE Default
<1>1. /\ asked[r].at = "declare" /\ declared' = [declared EXCEPT ![p] = told]
      /\ active' = IF asked[r].op = "use" THEN asked[r].space ELSE active
      /\ asked' = [asked EXCEPT ![r] = Places!Idle]
      /\ UNCHANGED <<rows, named, touched>>
      /\ \/ \E x \in Runs : \E root : run' = [run EXCEPT ![x] = [space |-> here, host |-> p, root |-> root]]
         \/ UNCHANGED run
  BY DEF Places!Declare, Places!Listing, Places!End
<1>2. p \in Processes
  BY PlacesAssumption
<1>3. WasGiven(told)
  BY <1>1 DEF PlacesInv, ViewsWereGiven
<1>4. here \in Spaces
  BY PlacesAssumption DEF PlacesInv, PlacesAreTyped
<1> HIDE DEF p, told, here
<1>5. /\ DOMAIN run' = Runs
      /\ \A x \in Runs : /\ DOMAIN run'[x] = DOMAIN Places!Out
                         /\ run'[x] # Places!Out => run'[x].space \in Spaces /\ run'[x].host \in Processes
  <2>1. CASE UNCHANGED run
    BY <2>1 DEF PlacesInv, PlacesAreTyped
  <2>2. ASSUME NEW x \in Runs, NEW root,
               run' = [run EXCEPT ![x] = [space |-> here, host |-> p, root |-> root]]
        PROVE  /\ DOMAIN run' = Runs
               /\ \A y \in Runs : /\ DOMAIN run'[y] = DOMAIN Places!Out
                                  /\ run'[y] # Places!Out =>
                                       run'[y].space \in Spaces /\ run'[y].host \in Processes
    <3> DEFINE entered == [space |-> here, host |-> p, root |-> root]
    <3>1. DOMAIN entered = DOMAIN Places!Out /\ entered.space \in Spaces /\ entered.host \in Processes
      BY <1>2, <1>4 DEF Places!Out
    <3> HIDE DEF entered
    <3>2. run' = [run EXCEPT ![x] = entered]
      BY <2>2 DEF entered
    <3> QED
      BY <3>1, <3>2 DEF PlacesInv, PlacesAreTyped
  <2> QED
    BY <1>1, <2>1, <2>2
<1>6. PlacesAreTyped'
  BY <1>1, <1>5, PlacesAssumption DEF PlacesInv, PlacesAreTyped, Places!Idle
<1>7. ViewsWereGiven'
  <2>1. \A q \in Requests : asked'[q].at = "declare" => asked'[q] = asked[q]
    BY <1>1 DEF PlacesInv, PlacesAreTyped, Places!Idle
  <2>2. \A e \in Processes : WasGiven(declared[e])'
    BY <1>1, <1>2, <1>3 DEF PlacesInv, PlacesAreTyped, ViewsWereGiven, WasGiven
  <2> QED
    BY <1>1, <2>1, <2>2 DEF PlacesInv, ViewsWereGiven, WasGiven
<1> QED
  BY <1>1, <1>6, <1>7 DEF PlacesInv

LEMMA PlacesStep == PlacesInv /\ [Places!Next]_Places!vars => PlacesInv'
<1> SUFFICES ASSUME PlacesInv, [Places!Next]_Places!vars PROVE PlacesInv'
  OBVIOUS
<1> USE DEF Places!Still
<1>t. PlacesAreTyped /\ ViewsWereGiven
  BY DEF PlacesInv
<1>1. CASE UNCHANGED Places!vars
  BY <1>1 DEF Places!vars, PlacesInv, PlacesAreTyped, ViewsWereGiven, WasGiven
<1>2. ASSUME NEW r \in Requests, Places!Ask(r) PROVE PlacesInv'
  <2>1. PICK v \in Spaces, at \in {"ensure", "get"} : \E op1, root :
          asked' = [asked EXCEPT ![r] = [op |-> op1, space |-> v, root |-> root, at |-> at, seen |-> {}]]
    BY <1>2 DEF Places!Ask
  <2>0. PICK op1, root :
          asked' = [asked EXCEPT ![r] = [op |-> op1, space |-> v, root |-> root, at |-> at, seen |-> {}]]
    BY <2>1
  <2> DEFINE n == [op |-> op1, space |-> v, root |-> root, at |-> at, seen |-> {}]
  <2>2. /\ asked' = [asked EXCEPT ![r] = n] /\ DOMAIN n = DOMAIN Places!Idle
        /\ n.space = v /\ n.at = at
    BY <2>0 DEF Places!Idle
  <2> HIDE DEF n
  <2>3. UNCHANGED <<rows, active, declared, run, named, touched>>
    BY <1>2 DEF Places!Ask
  <2>4. WasGiven(rows)'
    BY <1>t, <2>3 DEF ViewsWereGiven, WasGiven
  <2> QED
    BY <1>t, <2>2, <2>3, <2>4, RequestKeepsPlaces DEF PlacesAreTyped
<1>3. ASSUME NEW r \in Requests, Places!Get(r) \/ Places!Land(r) PROVE PlacesInv'
  <2>1. /\ UNCHANGED <<rows, declared, run, named, touched>> /\ active' \in {active, Default}
        /\ \E at \in {"ensure", "remove", "save"} : Places!GoTo(r, at) \/ Places!End(r)
    BY <1>3 DEF Places!Get, Places!Land
  <2> QED
    BY <1>t, <2>1, WaitingKeepsPlaces, PlacesAssumption DEF PlacesAreTyped
<1>4. ASSUME NEW r \in Requests, Places!Save(r) PROVE PlacesInv'
  <2>1. /\ rows' = [rows EXCEPT ![asked[r].space] = asked[r].root]
        /\ named' = [named EXCEPT ![asked[r].space] =
                        @ \cup {Places!Directory(asked[r].space, asked[r].root)}]
        /\ Places!GoTo(r, "ensure") /\ UNCHANGED <<active, declared, run, touched>>
    BY <1>4 DEF Places!Save
  <2> QED
    BY <1>t, <2>1, WritingKeepsPlaces DEF PlacesAreTyped
<1>5. ASSUME NEW r \in Requests, Places!Remove(r) PROVE PlacesInv'
  <2>1. /\ rows' = [rows EXCEPT ![asked[r].space] = "absent"] /\ named' = named
        /\ \E at \in {"ensure", "land"} : Places!GoTo(r, at)
        /\ UNCHANGED <<active, declared, run, touched>>
    BY <1>5 DEF Places!Remove
  <2> QED
    BY <1>t, <2>1, WritingKeepsPlaces DEF PlacesAreTyped
<1>6. ASSUME NEW r \in Requests, Places!EnsureDefault(r) PROVE PlacesInv'
  <2>1. /\ named' = named /\ Places!GoTo(r, "read") /\ UNCHANGED <<active, declared, run, touched>>
        /\ \E value \in {"derived", rows[Default]} : rows' = [rows EXCEPT ![Default] = value]
    BY <1>6 DEF Places!EnsureDefault
  <2> QED
    BY <2>1, WritingKeepsPlaces, PlacesAssumption
<1>7. ASSUME NEW r \in Requests, Places!ReadRows(r) PROVE PlacesInv'
  <2> DEFINE n == [asked[r] EXCEPT !.at = "declare", !.seen = {rows}]
  <2>1. /\ asked' = [asked EXCEPT ![r] = n] /\ DOMAIN n = DOMAIN Places!Idle
        /\ UNCHANGED <<rows, active, declared, run, named, touched>>
    BY <1>t, <1>7 DEF Places!ReadRows, PlacesAreTyped
  <2>2. n.space = asked[r].space /\ n.seen = {rows}
    BY <1>t DEF PlacesAreTyped, Places!Idle
  <2>3. WasGiven(rows) /\ WasGiven(rows)'
    BY <1>t, <2>1 DEF ViewsWereGiven, WasGiven
  <2> HIDE DEF n
  <2> QED
    BY <1>t, <2>1, <2>2, <2>3, RequestKeepsPlaces DEF PlacesAreTyped
<1>8. ASSUME NEW r \in Requests, Places!Declare(r) PROVE PlacesInv'
  BY <1>8, DeclareKeepsPlaces
<1>9. ASSUME NEW x \in Runs, Places!Touch(x) PROVE PlacesInv'
  <2>1. /\ touched' = touched \cup {[space |-> run[x].space,
                                     root |-> Places!RootFor(run[x].host, run[x].space)]}
        /\ run[x] # Places!Out
        /\ UNCHANGED <<rows, active, declared, asked, run, named>>
    BY <1>9 DEF Places!Touch, Places!Current
  <2>2. run[x].space \in Spaces /\ Places!RootFor(run[x].host, run[x].space) \in named[run[x].space]
    BY <1>t, <2>1, RootWasGiven DEF PlacesAreTyped
  <2> QED
    BY <2>1, <2>2 DEF PlacesInv, PlacesAreTyped, ViewsWereGiven, WasGiven
<1>10. ASSUME NEW x \in Runs, Places!Finish(x) PROVE PlacesInv'
  BY <1>10 DEF Places!Finish, PlacesInv, PlacesAreTyped, ViewsWereGiven, WasGiven
<1>11. ASSUME NEW p \in Processes, Places!Kill(p) PROVE PlacesInv'
  <2>1. /\ declared' = [declared EXCEPT ![p] = [v \in Spaces |-> "absent"]]
        /\ asked' = [r \in Requests |-> IF Host[r] = p THEN Places!Idle ELSE asked[r]]
        /\ UNCHANGED <<rows, active, run, named, touched>>
    BY <1>11 DEF Places!Kill
  <2>2. \A e \in Processes : WasGiven(declared[e])'
    BY <1>t, <2>1, PlacesAssumption DEF PlacesAreTyped, ViewsWereGiven, WasGiven, Places!Directory
  <2>3. \A r \in Requests : asked'[r] = Places!Idle \/ asked'[r] = asked[r]
    BY <2>1
  <2> QED
    BY <2>1, <2>2, <2>3, PlacesAssumption
    DEF PlacesInv, PlacesAreTyped, ViewsWereGiven, WasGiven, Places!Idle
<1>12. ASSUME NEW p \in Processes, Places!Start(p) PROVE PlacesInv'
  <2>1. /\ declared' = [declared EXCEPT ![p] = rows]
        /\ UNCHANGED <<rows, active, asked, named, touched>>
        /\ \A x \in Runs : \/ run'[x] = run[x]
                           \/ run[x].host = p /\ \E root : run'[x] = [run[x] EXCEPT !.root = root]
        /\ DOMAIN run' = Runs
    BY <1>12 DEF Places!Start
  <2>2. \A e \in Processes : WasGiven(declared[e])'
    BY <1>t, <2>1 DEF PlacesAreTyped, ViewsWereGiven, WasGiven
  <2>3. \A x \in Runs : /\ DOMAIN run'[x] = DOMAIN Places!Out
                        /\ run'[x] # Places!Out => run'[x].space \in Spaces /\ run'[x].host \in Processes
    <3> TAKE x \in Runs
    <3>1. CASE run'[x] = run[x]
      BY <1>t, <3>1 DEF PlacesAreTyped
    <3>2. ASSUME run[x].host = p, NEW root, run'[x] = [run[x] EXCEPT !.root = root]
          PROVE  /\ DOMAIN run'[x] = DOMAIN Places!Out
                 /\ run'[x].space \in Spaces /\ run'[x].host \in Processes
      <4>1. run[x] # Places!Out
        BY <3>2, PlacesAssumption DEF Places!Out
      <4> QED
        BY <1>t, <3>2, <4>1 DEF PlacesAreTyped, Places!Out
    <3> QED
      BY <2>1, <3>1, <3>2
  <2> QED
    BY <2>1, <2>2, <2>3 DEF PlacesInv, PlacesAreTyped, ViewsWereGiven, WasGiven
<1>13. ASSUME NEW x \in Runs, Places!Enter(x) PROVE PlacesInv'
  <2>1. PICK p \in Processes, v \in Spaces :
          run' = [run EXCEPT ![x] = [space |-> v, host |-> p, root |-> Places!RootFor(p, v)]]
    BY <1>13, PlacesAssumption DEF Places!Enter
  <2> DEFINE entered == [space |-> v, host |-> p, root |-> Places!RootFor(p, v)]
  <2>2. DOMAIN entered = DOMAIN Places!Out /\ entered.space \in Spaces /\ entered.host \in Processes
    BY DEF Places!Out
  <2>3. run' = [run EXCEPT ![x] = entered]
    BY <2>1
  <2>4. UNCHANGED <<rows, active, declared, asked, named, touched>>
    BY <1>13 DEF Places!Enter
  <2> HIDE DEF entered
  <2>5. PlacesAreTyped'
    BY <1>t, <2>2, <2>3, <2>4 DEF PlacesAreTyped
  <2> QED
    BY <2>4, <2>5 DEF PlacesInv, ViewsWereGiven, WasGiven
<1> QED
  BY <1>1, <1>2, <1>3, <1>4, <1>5, <1>6, <1>7, <1>8, <1>9, <1>10, <1>11, <1>12, <1>13
  DEF Places!Next

\* The inductive invariant of the workspaces: every view of the rows that a request or a
\* process still has gives a workspace a directory that it has, or had.
THEOREM PlacesInvariant == Places!Spec => []PlacesInv
BY PlacesStart, PlacesStep, PTL DEF Places!Spec

\* WorkspaceService and LocalWorkspaceContext: however the processes declare, switch,
\* remove and restart around it, and whichever workspace it was started in, the file tools
\* of a run touch its workspace's own directory or one this workspace was given.
THEOREM FilesAreOwn == Places!Spec => []OwnFiles
<1>1. PlacesInv => OwnFiles
  BY DEF PlacesInv
<1> QED
  BY PlacesInvariant, <1>1, PTL

-----------------------------------------------------------------------------
(* Memory: the summary is stored, then what it folds is forgotten. *)

USE DEF NothingForgottenUntold, Kept!NothingForgottenUntold, OwnMemoriesOnly, Kept!OwnMemoriesOnly

Fields == {"by", "scope", "kind", "of", "born", "old"}
IsItem(i) == DOMAIN i = Fields /\ i = [f \in Fields |-> i[f]]

\* What an item is, whoever wrote it: what is about the person was said to the manager,
\* what is of a plan was written by a task of it, and a summary does not grow old.
ItemsAreScoped == \A i \in items :
  /\ IsItem(i) /\ i.old \in BOOLEAN
  /\ i.scope = "USER" => i.by = Kept!Manager
  /\ i.scope = "PLAN" => PlanOf[i.by] # NoPlan
  /\ i.kind = "SEMANTIC" => ~i.old

\* A consolidation folds episodes, and forgets them when they are told of.
SummariesComeFirst == \A t \in Tasks :
  /\ \A j \in oldest[t] : j.kind = "EPISODIC"
  /\ pc[t] = "forget" => Kept!Folded(t) \in items

MemoryInv ==
  /\ DOMAIN pc = Tasks /\ DOMAIN oldest = Tasks
  /\ \A t \in Tasks : pc[t] = "plan" => PlanOf[t] # NoPlan
  /\ ItemsAreScoped
  /\ SummariesComeFirst
  /\ NothingForgottenUntold

LEMMA MemoryStart == Kept!Init => MemoryInv
BY DEF Kept!Init, MemoryInv, ItemsAreScoped, SummariesComeFirst

\* An item is written, or nothing is; no consolidation moves.
LEMMA WritingKeepsMemory ==
  ASSUME MemoryInv, NEW i, items' = items \cup {i} \/ items' = items,
         IsItem(i), i.old = FALSE,
         i.scope = "USER" => i.by = Kept!Manager, i.scope = "PLAN" => PlanOf[i.by] # NoPlan,
         \/ UNCHANGED written
         \/ items' = items \cup {i} /\ i.scope = "WORKSPACE" /\ \E o \in i.of : written' = written \cup {o},
         DOMAIN pc' = Tasks,
         \A t \in Tasks : /\ pc'[t] = "plan" => PlanOf[t] # NoPlan
                          /\ pc'[t] = "forget" => pc[t] = "forget",
         UNCHANGED <<oldest, expired>>
  PROVE  MemoryInv'
<1>1. items \subseteq items'
  OBVIOUS
<1>2. ItemsAreScoped'
  BY DEF MemoryInv, ItemsAreScoped
<1>3. SummariesComeFirst'
  BY <1>1 DEF MemoryInv, SummariesComeFirst, Kept!Folded
<1>4. NothingForgottenUntold'
  BY <1>1 DEF MemoryInv
<1> QED
  BY <1>2, <1>3, <1>4 DEF MemoryInv

\* Nothing that is told of goes, but what a summary tells.
LEMMA SummaryStands ==
  ASSUME MemoryInv, NEW t \in Tasks, pc[t] = "forget",
         items' = {i \in items : \A j \in oldest[t] : [i EXCEPT !.old = FALSE] # j},
         UNCHANGED <<written, expired>>
  PROVE  /\ \A u \in Tasks : pc[u] = "forget" => Kept!Folded(u) \in items'
         /\ NothingForgottenUntold'
<1>1. ASSUME NEW i \in items, i.kind = "SEMANTIC" PROVE i \in items'
  <2>1. [i EXCEPT !.old = FALSE].kind = "SEMANTIC"
    BY <1>1 DEF MemoryInv, ItemsAreScoped, IsItem, Fields
  <2>2. \A j \in oldest[t] : j.kind = "EPISODIC"
    BY DEF MemoryInv, SummariesComeFirst
  <2> QED
    BY <2>1, <2>2
<1>2. \A u \in Tasks : Kept!Folded(u).kind = "SEMANTIC" /\ Kept!Folded(u).scope = "WORKSPACE"
                       /\ Kept!Folded(u).old = FALSE
                       /\ Kept!Folded(u).of = UNION {i.of : i \in oldest[u]}
  BY DEF Kept!Folded, Kept!Item, IsItem, Fields
<1>3. \A u \in Tasks : pc[u] = "forget" => Kept!Folded(u) \in items'
  BY <1>1, <1>2 DEF MemoryInv, SummariesComeFirst
<1>4. ASSUME NEW o \in written \ expired
      PROVE  \E i \in items' : i.scope = "WORKSPACE" /\ ~i.old /\ o \in i.of
  <2>1. PICK i \in items : i.scope = "WORKSPACE" /\ ~i.old /\ o \in i.of
    BY <1>4 DEF MemoryInv
  <2>2. CASE i \in items'
    BY <2>1, <2>2
  <2>3. CASE i \notin items'
    <3>1. [i EXCEPT !.old = FALSE] = i
      BY <2>1 DEF MemoryInv, ItemsAreScoped, IsItem, Fields
    <3>2. i \in oldest[t]
      BY <2>3, <3>1
    <3>3. o \in Kept!Folded(t).of
      BY <1>2, <2>1, <3>2
    <3> QED
      BY <1>2, <1>3, <3>3
  <2> QED
    BY <2>2, <2>3
<1> QED
  BY <1>3, <1>4

LEMMA MemoryStep == MemoryInv /\ [Kept!Next]_Kept!vars => MemoryInv'
<1> SUFFICES ASSUME MemoryInv, [Kept!Next]_Kept!vars PROVE MemoryInv'
  OBVIOUS
<1> USE DEF Kept!NoFault, Kept!Fault
<1>t. /\ DOMAIN pc = Tasks /\ DOMAIN oldest = Tasks
      /\ \A t \in Tasks : pc[t] = "plan" => PlanOf[t] # NoPlan
      /\ ItemsAreScoped /\ SummariesComeFirst
  BY DEF MemoryInv
<1>u. ASSUME UNCHANGED <<items, oldest, written, expired>>, NEW t \in Tasks, NEW at, Kept!Goto(t, at),
             at \notin {"plan", "forget"}
      PROVE  MemoryInv'
  <2>1. \A u \in Tasks : pc'[u] = IF u = t THEN at ELSE pc[u]
    BY <1>t, <1>u DEF Kept!Goto
  <2>2. SummariesComeFirst'
    BY <1>t, <1>u, <2>1 DEF SummariesComeFirst, Kept!Folded
  <2> QED
    BY <1>t, <1>u, <2>1, <2>2 DEF MemoryInv, ItemsAreScoped, Kept!Goto
<1>1. CASE UNCHANGED Kept!vars
  BY <1>1 DEF Kept!vars, MemoryInv, ItemsAreScoped, SummariesComeFirst, Kept!Folded
<1>2. CASE Kept!RememberPreference
  <2> DEFINE i == Kept!Item(Kept!Manager, "USER", "SEMANTIC", {}, 0)
  <2>1. /\ items' = items \cup {i} \/ items' = items
        /\ UNCHANGED <<pc, oldest, written, expired>>
    BY <1>2 DEF Kept!RememberPreference, Kept!Remember
  <2>2. IsItem(i) /\ i.by = Kept!Manager /\ i.scope = "USER" /\ i.old = FALSE
    BY DEF Kept!Item, IsItem, Fields
  <2> HIDE DEF i
  <2> QED
    BY <1>t, <2>1, <2>2, WritingKeepsMemory
<1>3. CASE Kept!RememberAnswer
  <2> DEFINE i == Kept!Item(Kept!Manager, "WORKSPACE", "EPISODIC", {answers + 1}, Kept!Cardinality(written) + 1)
  <2>1. /\ \/ items' = items \cup {i} /\ written' = written \cup {answers + 1}
           \/ UNCHANGED <<items, written>>
        /\ UNCHANGED <<pc, oldest, expired>>
    BY <1>3 DEF Kept!RememberAnswer, Kept!Store
  <2>2. IsItem(i) /\ i.of = {answers + 1} /\ i.scope = "WORKSPACE" /\ i.old = FALSE
    BY DEF Kept!Item, IsItem, Fields
  <2> HIDE DEF i
  <2> QED
    BY <1>t, <2>1, <2>2, WritingKeepsMemory
<1>4. CASE Kept!PruneByHand
  BY <1>4 DEF Kept!PruneByHand, MemoryInv, ItemsAreScoped, SummariesComeFirst, Kept!Folded, Kept!Item
<1>5. CASE Kept!Age
  <2>1. PICK i \in items :
          /\ i.kind \in Kept!Fading /\ ~i.old
          /\ items' = (items \ {i}) \cup {[i EXCEPT !.old = TRUE]}
          /\ expired' = IF i.scope = "WORKSPACE" THEN expired \cup i.of ELSE expired
    BY <1>5 DEF Kept!Age
  <2>2. UNCHANGED <<pc, oldest, written>>
    BY <1>5 DEF Kept!Age
  <2> DEFINE aged == [i EXCEPT !.old = TRUE]
  <2>3. /\ IsItem(aged) /\ aged.old = TRUE /\ aged.scope = i.scope /\ aged.kind = i.kind
        /\ aged.by = i.by
    <3>1. IsItem(i)
      BY <1>t, <2>1 DEF ItemsAreScoped
    <3> QED
      BY <3>1 DEF IsItem, Fields
  <2> HIDE DEF aged
  <2>4. items' = (items \ {i}) \cup {aged}
    BY <2>1 DEF aged
  <2>5. ItemsAreScoped'
    BY <1>t, <2>1, <2>3, <2>4 DEF ItemsAreScoped, Kept!Fading
  <2>6. SummariesComeFirst'
    <3>1. \A t \in Tasks : Kept!Folded(t).kind = "SEMANTIC" /\ Kept!Folded(t)' = Kept!Folded(t)
      BY <2>2 DEF Kept!Folded, Kept!Item, IsItem, Fields
    <3>2. i.kind # "SEMANTIC"
      BY <2>1 DEF Kept!Fading
    <3> QED
      BY <1>t, <2>2, <2>4, <3>1, <3>2 DEF SummariesComeFirst
  <2>7. NothingForgottenUntold'
    <3> SUFFICES ASSUME NEW o \in written \ expired'
                 PROVE  \E j \in items' : j.scope = "WORKSPACE" /\ ~j.old /\ o \in j.of
      BY <2>2
    <3>1. PICK j \in items : j.scope = "WORKSPACE" /\ ~j.old /\ o \in j.of
      BY <2>1 DEF MemoryInv
    <3>2. j # i
      BY <2>1, <3>1
    <3> QED
      BY <2>4, <3>1, <3>2
  <2> QED
    BY <1>t, <2>2, <2>5, <2>6, <2>7 DEF MemoryInv
<1>6. ASSUME NEW t \in Tasks, Kept!NoteStep(t) PROVE MemoryInv'
  <2> DEFINE i == Kept!Item(t, "EMPLOYEE_PRIVATE", "WORKING", {}, 0)
  <2>1. /\ items' = items \cup {i} \/ items' = items
        /\ UNCHANGED <<pc, oldest, written, expired>>
    BY <1>6 DEF Kept!NoteStep, Kept!Remember
  <2>2. IsItem(i) /\ i.scope = "EMPLOYEE_PRIVATE" /\ i.old = FALSE
    BY DEF Kept!Item, IsItem, Fields
  <2> HIDE DEF i
  <2> QED
    BY <1>t, <2>1, <2>2, WritingKeepsMemory
<1>7. ASSUME NEW t \in Tasks, Kept!RecordOutcome(t) PROVE MemoryInv'
  <2> DEFINE i == Kept!Item(t, "WORKSPACE", "EPISODIC", {t}, Kept!Cardinality(written) + 1)
             at == IF PlanOf[t] = NoPlan THEN "lesson" ELSE "plan"
  <2>1. /\ \/ items' = items \cup {i} /\ written' = written \cup {t}
           \/ UNCHANGED <<items, written>>
        /\ pc' = [pc EXCEPT ![t] = at] /\ UNCHANGED <<oldest, expired>>
    BY <1>7 DEF Kept!RecordOutcome, Kept!Store, Kept!Goto
  <2>2. IsItem(i) /\ i.of = {t} /\ i.scope = "WORKSPACE" /\ i.old = FALSE
    BY DEF Kept!Item, IsItem, Fields
  <2> HIDE DEF i
  <2> QED
    BY <1>t, <2>1, <2>2, WritingKeepsMemory
<1>8. ASSUME NEW t \in Tasks, Kept!RecordForPlan(t) PROVE MemoryInv'
  <2> DEFINE i == Kept!Item(t, "PLAN", "EPISODIC", {t}, 0)
  <2>1. /\ items' = items \cup {i} \/ items' = items
        /\ pc' = [pc EXCEPT ![t] = "lesson"] /\ UNCHANGED <<oldest, written, expired>>
        /\ PlanOf[t] # NoPlan
    BY <1>t, <1>8 DEF Kept!RecordForPlan, Kept!Remember, Kept!Goto
  <2>2. IsItem(i) /\ i.scope = "PLAN" /\ i.by = t /\ i.old = FALSE
    BY DEF Kept!Item, IsItem, Fields
  <2> HIDE DEF i
  <2> QED
    BY <1>t, <2>1, <2>2, WritingKeepsMemory
<1>9. ASSUME NEW t \in Tasks, Kept!RecordLesson(t) PROVE MemoryInv'
  <2> DEFINE i == Kept!Item(t, "EMPLOYEE_PRIVATE", "SEMANTIC", {}, 0)
  <2>1. /\ items' = items \cup {i} \/ items' = items
        /\ pc' = [pc EXCEPT ![t] = "prune"] /\ UNCHANGED <<oldest, written, expired>>
    BY <1>9 DEF Kept!RecordLesson, Kept!Remember, Kept!Goto
  <2>2. IsItem(i) /\ i.scope = "EMPLOYEE_PRIVATE" /\ i.old = FALSE
    BY DEF Kept!Item, IsItem, Fields
  <2> HIDE DEF i
  <2> QED
    BY <1>t, <2>1, <2>2, WritingKeepsMemory
<1>10. ASSUME NEW t \in Tasks, Kept!Prune(t) PROVE MemoryInv'
  <2>1. /\ \/ items' = {i \in items : Kept!SpaceBy(i.by) = SpaceOf[t] => ~i.old}
           \/ items' = items
        /\ pc' \in {[pc EXCEPT ![t] = "read"], [pc EXCEPT ![t] = "done"]}
        /\ UNCHANGED <<oldest, written, expired>>
    BY <1>10 DEF Kept!Prune, Kept!Goto
  <2>2. /\ DOMAIN pc' = Tasks
        /\ \A u \in Tasks : pc'[u] \in {"plan", "forget"} => pc'[u] = pc[u]
    BY <1>t, <2>1
  <2>3. \A i \in items : ~i.old => i \in items'
    BY <2>1
  <2>4. ItemsAreScoped'
    BY <1>t, <2>1 DEF ItemsAreScoped
  <2>5. SummariesComeFirst'
    <3>1. \A u \in Tasks : Kept!Folded(u).old = FALSE /\ Kept!Folded(u)' = Kept!Folded(u)
      BY <2>1 DEF Kept!Folded, Kept!Item, IsItem, Fields
    <3> QED
      BY <1>t, <2>1, <2>2, <2>3, <3>1 DEF SummariesComeFirst
  <2>6. NothingForgottenUntold'
    BY <2>1, <2>3 DEF MemoryInv
  <2> QED
    BY <1>t, <2>1, <2>2, <2>4, <2>5, <2>6 DEF MemoryInv
<1>11. ASSUME NEW t \in Tasks, Kept!ReadEpisodes(t) PROVE MemoryInv'
  <2>1. /\ UNCHANGED <<items, written, expired>>
        /\ \/ Kept!Goto(t, "done") /\ UNCHANGED oldest
           \/ /\ Kept!Goto(t, "summarise")
              /\ \E some \in SUBSET Kept!Recall(Kept!OfConsolidator(t)) :
                   oldest' = [oldest EXCEPT ![t] = Kept!FirstOf(some, Batch)]
    BY <1>11 DEF Kept!ReadEpisodes
  <2>2. CASE Kept!Goto(t, "done") /\ UNCHANGED oldest
    BY <2>1, <2>2, <1>u
  <2>3. ASSUME Kept!Goto(t, "summarise"), NEW some \in SUBSET Kept!Recall(Kept!OfConsolidator(t)),
               oldest' = [oldest EXCEPT ![t] = Kept!FirstOf(some, Batch)]
        PROVE  MemoryInv'
    <3>1. \A j \in Kept!FirstOf(some, Batch) : j.kind = "EPISODIC"
      BY DEF Kept!FirstOf, Kept!Recall, Kept!Visible, Kept!OfConsolidator
    <3>2. /\ DOMAIN pc' = Tasks /\ DOMAIN oldest' = Tasks
          /\ pc'[t] = "summarise"
          /\ \A u \in Tasks \ {t} : pc'[u] = pc[u] /\ oldest'[u] = oldest[u]
          /\ oldest'[t] = Kept!FirstOf(some, Batch)
      BY <1>t, <2>3 DEF Kept!Goto
    <3>3. \A u \in Tasks : u # t => Kept!Folded(u)' = Kept!Folded(u)
      BY <3>2 DEF Kept!Folded
    <3>4. SummariesComeFirst'
      BY <1>t, <2>1, <3>1, <3>2, <3>3 DEF SummariesComeFirst
    <3> QED
      BY <1>t, <2>1, <3>2, <3>4 DEF MemoryInv, ItemsAreScoped
  <2> QED
    BY <2>1, <2>2, <2>3
<1>12. ASSUME NEW t \in Tasks, Kept!Assemble(t) \/ Kept!SendBack(t) \/ Kept!Summarise(t) \/ Kept!Kill(t)
       PROVE  MemoryInv'
  <2>1. /\ UNCHANGED <<items, oldest, written, expired>>
        /\ \E at \in {"working", "again", "fold", "done"} : Kept!Goto(t, at)
    BY <1>12 DEF Kept!Assemble, Kept!SendBack, Kept!Summarise, Kept!Kill
  <2> QED
    BY <2>1, <1>u
<1>13. ASSUME NEW t \in Tasks, Kept!Fold(t) PROVE MemoryInv'
  <2>1. UNCHANGED <<oldest, written, expired>>
    BY <1>13 DEF Kept!Fold
  <2>2. CASE UNCHANGED items /\ Kept!Goto(t, "done")
    BY <2>1, <2>2, <1>u
  <2>3. CASE items' = items \cup {Kept!Folded(t)} /\ Kept!Goto(t, "forget")
    <3>1. /\ IsItem(Kept!Folded(t)) /\ Kept!Folded(t).scope = "WORKSPACE"
          /\ Kept!Folded(t).old = FALSE
      BY DEF Kept!Folded, Kept!Item, IsItem, Fields
    <3>2. \A u \in Tasks : pc'[u] = IF u = t THEN "forget" ELSE pc[u]
      BY <1>t, <2>3 DEF Kept!Goto
    <3>3. ItemsAreScoped'
      BY <1>t, <2>3, <3>1 DEF ItemsAreScoped
    <3>4. SummariesComeFirst'
      <4>1. \A u \in Tasks : Kept!Folded(u)' = Kept!Folded(u)
        BY <2>1 DEF Kept!Folded
      <4> QED
        BY <1>t, <2>1, <2>3, <3>2, <4>1 DEF SummariesComeFirst
    <3>5. NothingForgottenUntold'
      BY <2>1, <2>3 DEF MemoryInv
    <3> QED
      BY <1>t, <2>1, <2>3, <3>2, <3>3, <3>4, <3>5 DEF MemoryInv, Kept!Goto
  <2> QED
    BY <1>13, <2>2, <2>3 DEF Kept!Fold
<1>14. ASSUME NEW t \in Tasks, Kept!Forget(t) PROVE MemoryInv'
  <2>1. /\ pc[t] = "forget" /\ Kept!Goto(t, "done") /\ UNCHANGED <<oldest, written, expired>>
    BY <1>14 DEF Kept!Forget
  <2>2. CASE UNCHANGED items
    BY <2>1, <2>2, <1>u
  <2>3. CASE items' = {i \in items : \A j \in oldest[t] : [i EXCEPT !.old = FALSE] # j}
    <3>1. /\ \A u \in Tasks : pc[u] = "forget" => Kept!Folded(u) \in items'
          /\ NothingForgottenUntold'
      BY <2>1, <2>3, SummaryStands
    <3>2. DOMAIN pc' = Tasks /\ \A u \in Tasks : pc'[u] = IF u = t THEN "done" ELSE pc[u]
      BY <1>t, <2>1 DEF Kept!Goto
    <3>3. SummariesComeFirst'
      <4>1. \A u \in Tasks : Kept!Folded(u)' = Kept!Folded(u)
        BY <2>1 DEF Kept!Folded
      <4> QED
        BY <1>t, <2>1, <3>1, <3>2, <4>1 DEF SummariesComeFirst
    <3>4. ItemsAreScoped'
      BY <1>t, <2>3 DEF ItemsAreScoped
    <3> QED
      BY <1>t, <2>1, <3>1, <3>2, <3>3, <3>4 DEF MemoryInv
  <2> QED
    BY <1>14, <2>2, <2>3 DEF Kept!Forget, Kept!Forgotten
<1> QED
  BY <1>1, <1>2, <1>3, <1>4, <1>5, <1>6, <1>7, <1>8, <1>9, <1>10, <1>11, <1>12, <1>13, <1>14
  DEF Kept!Next

\* The inductive invariant of the memory: what the items are, and that a consolidation
\* has its summary stored before it forgets what it folded.
THEOREM MemoryInvariant == Kept!Spec => []MemoryInv
BY MemoryStart, MemoryStep, PTL DEF Kept!Spec

\* MemoryConsolidator: for any number of tasks that store, fold and forget at once, an
\* outcome is told by some item of its workspace until its time to live passes.
THEOREM OutcomesStayTold == Kept!Spec => []NothingForgottenUntold
<1>1. MemoryInv => NothingForgottenUntold
  BY DEF MemoryInv
<1> QED
  BY MemoryInvariant, <1>1, PTL

\* SqlMemoryStore._visible: for any tasks, plans, employees and workspaces, what a task or
\* the manager is told of lies inside the boundary its scope draws.
THEOREM MemoriesAreOwn == Kept!Spec => []OwnMemoriesOnly
<1>1. MemoryInv => OwnMemoriesOnly
  <2> SUFFICES ASSUME MemoryInv PROVE OwnMemoriesOnly
    OBVIOUS
  <2>1. ASSUME NEW t \in Tasks, NEW i \in Kept!Recall(Kept!OfTask(t)), i.scope # "USER"
        PROVE  /\ Kept!SpaceBy(i.by) = SpaceOf[t]
               /\ i.scope = "PLAN" => PlanOf[t] # NoPlan /\ PlanOf[i.by] = PlanOf[t]
               /\ i.scope = "EMPLOYEE_PRIVATE" => EmployeeOf[i.by] = EmployeeOf[t]
               /\ i.kind = "WORKING" => i.by = t
    BY <2>1 DEF MemoryInv, ItemsAreScoped, Kept!Recall, Kept!Visible, Kept!OfTask, Kept!WorkspaceBound
  <2>2. ASSUME NEW i \in Kept!Recall(Kept!OfManager)
        PROVE  i.by = Kept!Manager \/ (i.scope = "WORKSPACE" /\ Kept!SpaceBy(i.by) = MainSpace)
    BY DEF MemoryInv, ItemsAreScoped, Kept!Recall, Kept!Visible, Kept!OfManager, Kept!WorkspaceBound
  <2> QED
    BY <2>1, <2>2
<1> QED
  BY MemoryInvariant, <1>1, PTL

-----------------------------------------------------------------------------
(* Documents: passages are accepted only while the row is there. *)

USE DEF DeletedTextIsSilent, Shelf!DeletedTextIsSilent

\* Who is in the middle of something is so with some document.
WritesAreOfDocuments == \A c \in Clients :
  "at" \in DOMAIN op[c] /\ (op[c].at # "idle" => "doc" \in DOMAIN op[c])

\* A document that went has no passages; its row is back only when nobody is left
\* to write them, and nobody is before the row while another is before them.
GoneIsEmpty == \A doc \in gone \ torn :
  /\ chunks[doc] = Shelf!NoChunks
  /\ doc \in Shelf!Saved => \A c \in Clients : ~Shelf!At(c, "index", doc)
  /\ \A b, c \in Clients : ~(Shelf!At(b, "index", doc) /\ Shelf!At(c, "finish", doc))

ShelfInv ==
  /\ DOMAIN docs = Ids /\ DOMAIN chunks = Ids /\ DOMAIN op = Clients
  /\ WritesAreOfDocuments /\ GoneIsEmpty

LEMMA ShelfStart == Shelf!Init => ShelfInv
BY DEF Shelf!Init, Shelf!Idle, ShelfInv, WritesAreOfDocuments, GoneIsEmpty

\* A client goes on, and no document that went is nearer to being written.
LEMMA ClientMovesAlone ==
  ASSUME ShelfInv, NEW c \in Clients, NEW o, op' = [op EXCEPT ![c] = o],
         "at" \in DOMAIN o, o.at # "idle" => "doc" \in DOMAIN o,
         DOMAIN docs' = Ids, DOMAIN chunks' = Ids,
         gone' \ torn' \subseteq gone \ torn,
         \A doc \in gone' \ torn' :
           /\ chunks'[doc] = chunks[doc]
           /\ doc \in Shelf!Saved' => doc \in Shelf!Saved \/ Shelf!At(c, "finish", doc)
           /\ o.at = "index" => o.doc # doc
           /\ o.at = "finish" => o.doc # doc
  PROVE  ShelfInv'
<1>1. \A b \in Clients : op'[b] = IF b = c THEN o ELSE op[b]
  BY DEF ShelfInv
<1>2. WritesAreOfDocuments'
  BY <1>1 DEF ShelfInv, WritesAreOfDocuments
<1>3. ASSUME NEW doc \in gone' \ torn', NEW b \in Clients
      PROVE  /\ Shelf!At(b, "index", doc)' => Shelf!At(b, "index", doc)
             /\ Shelf!At(b, "finish", doc)' => Shelf!At(b, "finish", doc)
             /\ Shelf!At(c, "finish", doc) => ~Shelf!At(b, "index", doc)
  BY <1>1 DEF Shelf!At, ShelfInv, GoneIsEmpty
<1>4. GoneIsEmpty'
  BY <1>3 DEF ShelfInv, GoneIsEmpty
<1> QED
  BY <1>1, <1>2, <1>4 DEF ShelfInv

LEMMA ShelfStep == ShelfInv /\ [Shelf!Next]_Shelf!vars => ShelfInv'
<1> SUFFICES ASSUME ShelfInv, [Shelf!Next]_Shelf!vars PROVE ShelfInv'
  OBVIOUS
<1>t. /\ DOMAIN docs = Ids /\ DOMAIN chunks = Ids /\ DOMAIN op = Clients
      /\ WritesAreOfDocuments /\ GoneIsEmpty
  BY DEF ShelfInv
<1>u. ASSUME UNCHANGED <<docs, chunks, op, gone, torn>> PROVE ShelfInv'
  BY <1>t, <1>u DEF ShelfInv, WritesAreOfDocuments, GoneIsEmpty, Shelf!At, Shelf!Saved
<1>i. /\ "at" \in DOMAIN Shelf!Idle /\ Shelf!Idle.at = "idle"
  BY DEF Shelf!Idle
<1>o. ASSUME NEW c \in Clients, Shelf!Over(c), UNCHANGED <<docs, chunks, gone, torn>> PROVE ShelfInv'
  BY <1>o, <1>t, <1>i, ClientMovesAlone DEF Shelf!Over, Shelf!Saved
<1>1. CASE UNCHANGED Shelf!vars
  BY <1>1, <1>u DEF Shelf!vars
<1>2. CASE Shelf!Edit \/ Shelf!Reconfigure
  BY <1>2, <1>u DEF Shelf!Edit, Shelf!Reconfigure
<1>3. ASSUME NEW c \in Clients, Shelf!Add(c) PROVE ShelfInv'
  <2>1. PICK space \in Shelves, doc \in Ids :
          op' = [op EXCEPT ![c] =
                  [at |-> "extracted", doc |-> doc, space |-> space, of |-> Editions[file],
                   text |-> Shelf!Extracted, model |-> model]]
    BY <1>3 DEF Shelf!Add, Shelf!Fresh, Shelf!ByChecksum, Shelf!Saved
  <2> DEFINE o == [at |-> "extracted", doc |-> doc, space |-> space, of |-> Editions[file],
                   text |-> Shelf!Extracted, model |-> model]
  <2>2. o.at = "extracted" /\ {"at", "doc"} \subseteq DOMAIN o
    OBVIOUS
  <2> HIDE DEF o
  <2>3. op' = [op EXCEPT ![c] = o] /\ UNCHANGED <<docs, chunks, gone, torn>>
    BY <1>3, <2>1 DEF Shelf!Add, o
  <2> QED
    BY <1>t, <2>2, <2>3, ClientMovesAlone DEF Shelf!Saved
<1>4. ASSUME NEW c \in Clients, Shelf!SaveExtracted(c) PROVE ShelfInv'
  <2> DEFINE o == [op[c] EXCEPT !.at = "index"]  doc == op[c].doc
  <2>1. op[c].at = "extracted" /\ "doc" \in DOMAIN op[c]
    BY <1>t, <1>4 DEF Shelf!SaveExtracted, WritesAreOfDocuments
  <2>2. o.at = "index" /\ o.doc = doc /\ {"at", "doc"} \subseteq DOMAIN o
    BY <1>t, <2>1 DEF WritesAreOfDocuments
  <2> HIDE DEF o
  <2>3. op' = [op EXCEPT ![c] = o]
    BY <1>4 DEF Shelf!SaveExtracted, Shelf!Goto, o
  <2>4. /\ gone' = gone \ {doc} /\ torn' = torn \ {doc} /\ UNCHANGED chunks
        /\ DOMAIN docs' = Ids /\ \A e \in Ids : e # doc => docs'[e] = docs[e]
    BY <1>t, <1>4 DEF Shelf!SaveExtracted, Shelf!Save
  <2>5. \A e \in gone' \ torn' :
          /\ e \in gone \ torn /\ o.doc # e /\ chunks'[e] = chunks[e]
          /\ e \in Shelf!Saved' => e \in Shelf!Saved
    BY <2>2, <2>4 DEF Shelf!Saved
  <2> QED
    BY <1>t, <2>2, <2>3, <2>4, <2>5, ClientMovesAlone
<1>5. ASSUME NEW c \in Clients, Shelf!Reindex(c) PROVE ShelfInv'
  <2>1. PICK doc :
          op' = [op EXCEPT ![c] =
                  [at |-> "found", doc |-> doc, space |-> docs[doc].space, of |-> docs[doc].of,
                   text |-> <<>>, model |-> model]]
    BY <1>5 DEF Shelf!Reindex
  <2> DEFINE o == [at |-> "found", doc |-> doc, space |-> docs[doc].space, of |-> docs[doc].of,
                   text |-> <<>>, model |-> model]
  <2>2. o.at = "found" /\ {"at", "doc"} \subseteq DOMAIN o
    OBVIOUS
  <2> HIDE DEF o
  <2>3. op' = [op EXCEPT ![c] = o] /\ UNCHANGED <<docs, chunks, gone, torn>>
    BY <1>5, <2>1 DEF Shelf!Reindex, o
  <2> QED
    BY <1>t, <2>2, <2>3, ClientMovesAlone DEF Shelf!Saved
<1>6. ASSUME NEW c \in Clients, Shelf!ReadPassages(c) PROVE ShelfInv'
  <2> DEFINE doc == op[c].doc
             o == [op[c] EXCEPT !.at = "index", !.text = Shelf!Joined(chunks[doc].passages)]
  <2>1. op[c].at = "found" /\ "doc" \in DOMAIN op[c] /\ UNCHANGED <<docs, chunks, gone, torn>>
    BY <1>t, <1>6 DEF Shelf!ReadPassages, WritesAreOfDocuments
  <2>2. CASE chunks[doc] = Shelf!NoChunks
    BY <1>6, <1>o, <2>1, <2>2 DEF Shelf!ReadPassages
  <2>3. CASE chunks[doc] # Shelf!NoChunks
    <3>1. o.at = "index" /\ o.doc = doc /\ {"at", "doc"} \subseteq DOMAIN o
      BY <1>t, <2>1 DEF WritesAreOfDocuments
    <3>2. op' = [op EXCEPT ![c] = o]
      BY <1>6, <2>3 DEF Shelf!ReadPassages
    <3> HIDE DEF o
    <3>3. doc \notin gone \ torn
      BY <1>t, <2>3 DEF GoneIsEmpty
    <3>4. \A e \in gone' \ torn' :
            e \in gone \ torn /\ o.doc # e /\ (e \in Shelf!Saved' => e \in Shelf!Saved)
      BY <2>1, <3>1, <3>3 DEF Shelf!Saved
    <3> QED
      BY <1>t, <2>1, <3>1, <3>2, <3>4, ClientMovesAlone
  <2> QED
    BY <2>2, <2>3
<1>7. ASSUME NEW c \in Clients, Shelf!ReplaceChunks(c) PROVE ShelfInv'
  <2> DEFINE doc == op[c].doc
  <2>1. op[c].at = "index" /\ "doc" \in DOMAIN op[c] /\ UNCHANGED <<docs, gone, torn>>
    BY <1>t, <1>7 DEF Shelf!ReplaceChunks, WritesAreOfDocuments
  <2>2. CASE ~Shelf!Accepted(doc)
    BY <1>7, <1>o, <2>1, <2>2 DEF Shelf!ReplaceChunks
  <2>3. CASE Shelf!Accepted(doc)
    <3>1. PICK by \in Shelf!Vectors(op[c].model) :
            /\ chunks' = [chunks EXCEPT ![doc] = [passages |-> Shelf!Cut(op[c].text), by |-> by]]
            /\ op' = [op EXCEPT ![c].at = "finish", ![c].model = by]
      BY <1>7, <2>3 DEF Shelf!ReplaceChunks
    <3> DEFINE o == [op[c] EXCEPT !.at = "finish", !.model = by]
    <3>2. o.at = "finish" /\ o.doc = doc /\ {"at", "doc"} \subseteq DOMAIN o
      BY <1>t, <2>1 DEF WritesAreOfDocuments
    <3> HIDE DEF o
    <3>3. doc \notin gone \ torn
      BY <1>t, <2>1, <2>3 DEF GoneIsEmpty, Shelf!Accepted, Shelf!At
    <3>4. DOMAIN chunks' = Ids /\ \A e : e # doc /\ e \in Ids => chunks'[e] = chunks[e]
      BY <1>t, <3>1
    <3>5. op' = [op EXCEPT ![c] = o]
      BY <3>1 DEF o
    <3>6. \A e \in gone' \ torn' :
            /\ e \in gone \ torn /\ o.doc # e /\ chunks'[e] = chunks[e]
            /\ e \in Shelf!Saved' => e \in Shelf!Saved
      BY <1>t, <2>1, <3>1, <3>2, <3>3 DEF Shelf!Saved
    <3> QED
      <4> HIDE DEF doc
      <4>1. /\ "at" \in DOMAIN o /\ "doc" \in DOMAIN o
            /\ DOMAIN docs' = Ids /\ DOMAIN chunks' = Ids /\ gone' \ torn' \subseteq gone \ torn
        BY <1>t, <2>1, <3>2, <3>4
      <4> QED
        BY <3>5, <3>6, <4>1, ClientMovesAlone
  <2> QED
    BY <2>2, <2>3
<1>8. ASSUME NEW c \in Clients, Shelf!Finish(c) PROVE ShelfInv'
  <2> DEFINE doc == op[c].doc
  <2>1. /\ op[c].at = "finish" /\ op' = [op EXCEPT ![c] = Shelf!Idle] /\ UNCHANGED <<chunks, gone, torn>>
        /\ DOMAIN docs' = Ids /\ \A e \in Ids : e # doc => docs'[e] = docs[e]
    BY <1>t, <1>8 DEF Shelf!Finish, Shelf!Save, Shelf!Over
  <2> QED
    BY <1>t, <1>i, <2>1, ClientMovesAlone DEF Shelf!Saved, Shelf!At
<1>9. ASSUME NEW c \in Clients, Shelf!Delete(c) PROVE ShelfInv'
  <2>1. PICK doc \in Ids :
          /\ docs' = [docs EXCEPT ![doc] = Shelf!NoRow]
          /\ chunks' = [chunks EXCEPT ![doc] = Shelf!NoChunks]
          /\ gone' = gone \cup {doc}
          /\ torn' = IF \E b, e \in Clients : Shelf!At(b, "index", doc) /\ Shelf!At(e, "finish", doc)
                       THEN torn \cup {doc} ELSE torn
          /\ UNCHANGED op
    BY <1>9 DEF Shelf!Delete, Shelf!Saved
  <2>2. /\ Shelf!Saved' = Shelf!Saved \ {doc}
        /\ \A e : chunks'[e] = IF e = doc THEN Shelf!NoChunks ELSE chunks[e]
    <3>1. Shelf!NoRow.status = "none"
      BY DEF Shelf!NoRow
    <3> QED
      BY <1>t, <2>1, <3>1 DEF Shelf!Saved
  <2>3. \A e \in (gone' \ torn') : e # doc => e \in gone \ torn
    BY <2>1
  <2>4. GoneIsEmpty'
    BY <1>t, <2>1, <2>2, <2>3 DEF GoneIsEmpty, Shelf!At
  <2> QED
    BY <1>t, <2>1, <2>4 DEF ShelfInv, WritesAreOfDocuments
<1>10. ASSUME NEW c \in Clients, Shelf!Search(c) PROVE ShelfInv'
  <2>1. PICK doc, space, by :
          op' = [op EXCEPT ![c] = [at |-> "answered", doc |-> doc, space |-> space, model |-> by]]
    BY <1>10 DEF Shelf!Search
  <2> DEFINE o == [at |-> "answered", doc |-> doc, space |-> space, model |-> by]
  <2>2. o.at = "answered" /\ {"at", "doc"} \subseteq DOMAIN o
    OBVIOUS
  <2> HIDE DEF o
  <2>3. op' = [op EXCEPT ![c] = o] /\ UNCHANGED <<docs, chunks, gone, torn>>
    BY <1>10, <2>1 DEF Shelf!Search, o
  <2> QED
    BY <1>t, <2>2, <2>3, ClientMovesAlone DEF Shelf!Saved
<1>11. ASSUME NEW c \in Clients, Shelf!Quote(c) \/ Shelf!Kill(c) PROVE ShelfInv'
  BY <1>11, <1>o DEF Shelf!Quote, Shelf!Kill
<1> QED
  BY <1>1, <1>2, <1>3, <1>4, <1>5, <1>6, <1>7, <1>8, <1>9, <1>10, <1>11 DEF Shelf!Next

\* The inductive invariant of the documents: one that was deleted has no passages, and
\* nobody has them still to write once its row is back.
THEOREM ShelfInvariant == Shelf!Spec => []ShelfInv
<1> QED
  BY ShelfStart, ShelfStep, PTL DEF Shelf!Spec

\* KnowledgeService.delete and _index: for any number of requests and commands, a document
\* that was taken away is not answered from until it is added again, however it was being
\* indexed, but for the one order the code does not exclude (torn).
THEOREM DeletedStaysSilent == Shelf!Spec => []DeletedTextIsSilent
<1>1. ShelfInv => DeletedTextIsSilent
  BY DEF ShelfInv, GoneIsEmpty, Shelf!Candidates
<1> QED
  BY <1>1, ShelfInvariant, PTL

-----------------------------------------------------------------------------
(* Counting up *)

\* A set of numbers has a least one: what the natural numbers are well-founded for.
LEMMA Least ==
  ASSUME NEW T, T \subseteq Nat, T # {}
  PROVE  \E n \in T : \A m \in T : n <= m
<1> DEFINE R == {ss \in Nat \X Nat : ss[1] < ss[2]}
<1>1. IsWellFoundedOn(R, Nat)
  BY NatLessThanWellFounded DEF OpToRel
<1>2. \A x, y \in Nat : <<y, x>> \in R <=> y < x
  OBVIOUS
<1> HIDE DEF R
<1>3. PICK x \in T : \A y \in T : ~ (<<y, x>> \in R)
  BY <1>1, WFMin
<1>4. ASSUME NEW y \in T PROVE x <= y
  <2>1. x \in Nat /\ y \in Nat
    OBVIOUS
  <2>2. ~ (y < x)
    BY <1>2, <1>3, <2>1
  <2> QED
    BY <2>1, <2>2
<1> QED
  BY <1>4

\* What holds of the first, and of one more whenever it holds of some, holds of all.
LEMMA UpTo ==
  ASSUME NEW a \in Nat, NEW n \in Nat, NEW T, a \in T, \A i \in a + 1..n : i - 1 \in T => i \in T
  PROVE  \A i \in a..n : i \in T
<1> DEFINE Left == (a..n) \ T
<1> SUFFICES ASSUME Left # {} PROVE FALSE
  OBVIOUS
<1>1. Left \subseteq Nat
  OBVIOUS
<1> HIDE DEF Left
<1>2. PICK i \in Left : \A m \in Left : i <= m
  BY <1>1, Least
<1>3. i \in a + 1..n /\ i - 1 \in a..n
  BY <1>2 DEF Left
<1>4. i - 1 \in T
  BY <1>2, <1>3 DEF Left
<1> QED
  BY <1>2, <1>3, <1>4 DEF Left

-----------------------------------------------------------------------------
(* Lists *)

IsList(s) == s \in Seq({s[i] : i \in DOMAIN s})

LEMMA ListFacts ==
  ASSUME NEW s, IsList(s)
  PROVE  Len(s) \in Nat /\ DOMAIN s = 1..Len(s) /\ (s = << >> <=> Len(s) = 0)
<1> QED
  BY DEF IsList

LEMMA ListOf ==
  ASSUME NEW n \in Nat, NEW f, f = [i \in 1..n |-> f[i]]
  PROVE  IsList(f) /\ Len(f) = n /\ DOMAIN f = 1..n
<1>1. f \in [1..n -> {f[i] : i \in DOMAIN f}]
  OBVIOUS
<1> QED
  BY <1>1 DEF IsList

LEMMA ListAppend ==
  ASSUME NEW s, IsList(s), NEW m
  PROVE  /\ IsList(Append(s, m)) /\ Len(Append(s, m)) = Len(s) + 1
         /\ Append(s, m)[Len(s) + 1] = m /\ \A i \in 1..Len(s) : Append(s, m)[i] = s[i]
<1> DEFINE S == {s[i] : i \in DOMAIN s} \cup {m}
           t == Append(s, m)
<1>1. s \in Seq({s[i] : i \in DOMAIN s})
  BY DEF IsList
<1>2. s \in Seq(S)
  BY <1>1
<1>3. m \in S
  OBVIOUS
<1> HIDE DEF S
<1>4. /\ t \in Seq(S) /\ Len(t) = Len(s) + 1 /\ Len(s) \in Nat
      /\ t[Len(s) + 1] = m /\ \A i \in 1..Len(s) : t[i] = s[i]
  BY <1>2, <1>3
<1> HIDE DEF t
<1>5. t = [i \in 1..Len(t) |-> t[i]] /\ Len(t) \in Nat
  BY <1>4
<1>6. IsList(t)
  BY <1>5, ListOf
<1> QED
  BY <1>4, <1>6 DEF t

LEMMA ListConcat ==
  ASSUME NEW s, IsList(s), NEW t, IsList(t)
  PROVE  /\ IsList(s \o t) /\ Len(s \o t) = Len(s) + Len(t)
         /\ \A i \in 1..Len(s) : (s \o t)[i] = s[i]
         /\ \A i \in 1..Len(t) : (s \o t)[Len(s) + i] = t[i]
<1> DEFINE S == {s[i] : i \in DOMAIN s} \cup {t[i] : i \in DOMAIN t}
           u == s \o t
<1>1. s \in Seq(S) /\ t \in Seq(S)
  <2>1. s \in Seq({s[i] : i \in DOMAIN s}) /\ t \in Seq({t[i] : i \in DOMAIN t})
    BY DEF IsList
  <2> QED
    BY <2>1
<1> HIDE DEF S
<1>2. /\ u \in Seq(S) /\ Len(u) = Len(s) + Len(t) /\ Len(s) \in Nat /\ Len(t) \in Nat
      /\ \A i \in 1..Len(s) : u[i] = s[i]
      /\ \A i \in 1..Len(t) : u[Len(s) + i] = t[i]
  BY <1>1
<1> HIDE DEF u
<1>3. u = [i \in 1..Len(u) |-> u[i]] /\ Len(u) \in Nat
  BY <1>2
<1>4. IsList(u)
  BY <1>3, ListOf
<1> QED
  BY <1>2, <1>4 DEF u

LEMMA OneOnly ==
  ASSUME NEW b
  PROVE  IsList(<<b>>) /\ <<b>> # << >> /\ Len(<<b>>) = 1 /\ <<b>>[1] = b /\ DOMAIN <<b>> = 1..1
<1>1. <<b>> \in Seq({b}) /\ Len(<<b>>) = 1 /\ <<b>>[1] = b /\ DOMAIN <<b>> = 1..1
  OBVIOUS
<1>2. <<b>> = [i \in 1..1 |-> <<b>>[i]]
  BY <1>1
<1>3. IsList(<<b>>)
  BY <1>2, ListOf
<1> QED
  BY <1>1, <1>3, ListFacts

-----------------------------------------------------------------------------
(* Where the passages begin and end *)

\* Passages of the first n units of a text: a unit is in the last of them, or one of them
\* has it and as many after it as the overlap is long.
IsCutting(spans, n) ==
  /\ IsList(spans) /\ Len(spans) >= 1
  /\ \A j \in 1..Len(spans) :
       spans[j].from \in Nat \ {0} /\ spans[j].to \in 0..n /\ spans[j].from <= spans[j].to + 1
  /\ \A i \in 1..spans[Len(spans)].to :
       \/ spans[Len(spans)].from <= i
       \/ \E j \in 1..Len(spans) : spans[j].from <= i /\ i + Overlap <= spans[j].to

\* A piece that comes into the last passage, or begins one more after what is carried.
LEMMA AccumulateKeeps ==
  ASSUME NEW spans, NEW n \in Nat \ {0}, IsCutting(spans, n - 1)
  PROVE  /\ IsCutting(Shelf!Accumulate(spans, n), n)
         /\ Shelf!Accumulate(spans, n)[Len(Shelf!Accumulate(spans, n))].to = n
<1> DEFINE L == Len(spans)
           end == spans[L]
           s == Shelf!Accumulate(spans, n)
<1>1. /\ IsList(spans) /\ L \in Nat /\ L >= 1 /\ DOMAIN spans = 1..L
      /\ end.from \in Nat \ {0} /\ end.to \in 0..n - 1 /\ end.from <= end.to + 1
  BY ListFacts DEF IsCutting
<1>2. \A j \in 1..L :
        spans[j].from \in Nat \ {0} /\ spans[j].to \in 0..n - 1 /\ spans[j].from <= spans[j].to + 1
  BY DEF IsCutting
<1>3. \A i \in 1..end.to :
        end.from <= i \/ \E j \in 1..L : spans[j].from <= i /\ i + Overlap <= spans[j].to
  BY DEF IsCutting
<1>4. CASE end.to = 0 \/ n + 1 - end.from <= Size
  <2> DEFINE longer == [from |-> end.from, to |-> n]
  <2>1. s = [spans EXCEPT ![L] = longer]
    BY <1>4 DEF Shelf!Accumulate
  <2>2. longer.from = end.from /\ longer.to = n
    OBVIOUS
  <2> HIDE DEF longer, end, s
  <2>3. s = [j \in 1..L |-> IF j = L THEN longer ELSE spans[j]]
    BY <1>1, <2>1
  <2>4. s = [j \in 1..L |-> s[j]] /\ \A j \in 1..L : s[j] = IF j = L THEN longer ELSE spans[j]
    BY <2>3
  <2>5. IsList(s) /\ Len(s) = L
    BY <1>1, <2>4, ListOf
  <2>6. s[L] = longer
    BY <1>1, <2>4
  <2>7. ASSUME NEW j \in 1..L
        PROVE  s[j].from \in Nat \ {0} /\ s[j].to \in 0..n /\ s[j].from <= s[j].to + 1
    <3>1. CASE j = L
      <4>1. s[j] = longer
        BY <2>4, <3>1
      <4> QED
        BY <1>1, <2>2, <4>1
    <3>2. CASE j # L
      <4>1. s[j] = spans[j]
        BY <2>4, <3>2
      <4> QED
        BY <1>2, <4>1
    <3> QED
      BY <3>1, <3>2
  <2>8. ASSUME NEW i \in 1..n, ~(end.from <= i)
        PROVE  \E j \in 1..L : s[j].from <= i /\ i + Overlap <= s[j].to
    <3>1. i \in 1..end.to
      BY <1>1, <2>8
    <3>2. PICK j \in 1..L : spans[j].from <= i /\ i + Overlap <= spans[j].to
      BY <1>3, <2>8, <3>1
    <3>3. j # L
      BY <2>8, <3>2 DEF end
    <3> QED
      BY <2>4, <3>2, <3>3
  <2> QED
    BY <1>1, <2>2, <2>5, <2>6, <2>7, <2>8 DEF IsCutting, s
<1>5. CASE ~(end.to = 0 \/ n + 1 - end.from <= Size)
  <2> DEFINE next == [from |-> Shelf!Carried(end), to |-> n]
  <2>1. s = Append(spans, next)
    BY <1>5 DEF Shelf!Accumulate
  <2>2. /\ next.to = n /\ next.from = Shelf!Carried(end)
    OBVIOUS
  <2>a. /\ next.from \in Nat \ {0} /\ next.from <= end.to + 1
        /\ \A i \in Nat : ~(next.from <= i) => ~(end.from <= i) \/ i + Overlap <= end.to
    BY <1>1, LengthsAssumption DEF Shelf!Carried
  <2> HIDE DEF next, s
  <2>3. /\ IsList(s) /\ Len(s) = L + 1 /\ s[L + 1] = next /\ \A j \in 1..L : s[j] = spans[j]
    BY <1>1, <2>1, ListAppend
  <2>4. \A j \in 1..L + 1 : s[j].from \in Nat \ {0} /\ s[j].to \in 0..n /\ s[j].from <= s[j].to + 1
    BY <1>1, <1>2, <2>2, <2>a, <2>3
  <2>5. ASSUME NEW i \in 1..n, ~(next.from <= i)
        PROVE  \E j \in 1..L + 1 : s[j].from <= i /\ i + Overlap <= s[j].to
    <3>1. i \in 1..end.to
      BY <1>1, <2>a, <2>5
    <3>2. CASE end.from <= i
      <4>1. i + Overlap <= end.to /\ s[L] = end /\ L \in 1..L + 1
        BY <1>1, <2>3, <2>a, <2>5, <3>2 DEF end
      <4> QED
        BY <3>2, <4>1
    <3>3. CASE ~(end.from <= i)
      <4>1. PICK j \in 1..L : spans[j].from <= i /\ i + Overlap <= spans[j].to
        BY <1>3, <3>1, <3>3
      <4>2. s[j] = spans[j] /\ j \in 1..L + 1
        BY <1>1, <2>3, <4>1
      <4> QED
        BY <4>1, <4>2
    <3> QED
      BY <3>2, <3>3
  <2> QED
    BY <1>1, <2>2, <2>3, <2>4, <2>5 DEF IsCutting, s
<1> QED
  BY <1>4, <1>5

\* A unit after the other: at the end of a piece the passages change, elsewhere they do not.
LEMMA AccumulatedInTurn ==
  ASSUME NEW text, Len(text) \in Nat
  PROVE  \E u : /\ u[0] = <<[from |-> 1, to |-> 0]>>
                /\ \A i \in 1..Len(text) :
                     u[i] = IF i \in Shelf!Ends(text) THEN Shelf!Accumulate(u[i - 1], i) ELSE u[i - 1]
                /\ Shelf!Accumulated(text) = u[Len(text)]
<1> DEFINE none0 == <<[from |-> 1, to |-> 0]>>
           ends == Shelf!Ends(text)
           Goes(n, f) ==
             f = [i \in 0..n |-> IF i = 0 THEN none0
                                 ELSE IF i \in ends THEN Shelf!Accumulate(f[i - 1], i) ELSE f[i - 1]]
           T == {n \in 0..Len(text) : \E f : Goes(n, f)}
           upTo == CHOOSE f : Goes(Len(text), f)
<1>1. Shelf!Accumulated(text) = upTo[Len(text)]
  BY DEF Shelf!Accumulated
<1> HIDE DEF none0, upTo, ends
<1>2. 0 \in T
  <2>1. Goes(0, [i \in 0..0 |-> none0])
    OBVIOUS
  <2>2. \E f : Goes(0, f)
    BY <2>1
  <2> HIDE DEF Goes
  <2> QED
    BY <2>2
<1>3. ASSUME NEW n \in 1..Len(text), n - 1 \in T PROVE n \in T
  <2>1. PICK f : Goes(n - 1, f)
    BY <1>3
  <2> DEFINE more == IF n \in ends THEN Shelf!Accumulate(f[n - 1], n) ELSE f[n - 1]
             g == [i \in 0..n |-> IF i = n THEN more ELSE f[i]]
  <2>2. \A i \in 0..n - 1 : f[i] = IF i = 0 THEN none0
                                  ELSE IF i \in ends THEN Shelf!Accumulate(f[i - 1], i) ELSE f[i - 1]
    BY <2>1
  <2>3. \A i \in 0..n : g[i] = IF i = n THEN more ELSE f[i]
    OBVIOUS
  <2>4. \A i \in 0..n - 1 : g[i] = f[i]
    BY <2>3
  <2>5. ASSUME NEW i \in 0..n
        PROVE  g[i] = IF i = 0 THEN none0
                      ELSE IF i \in ends THEN Shelf!Accumulate(g[i - 1], i) ELSE g[i - 1]
    <3>1. CASE i = n
      BY <2>3, <2>4, <3>1
    <3>2. CASE i \in 0..n - 1 /\ i # 0
      <4>1. i - 1 \in 0..n - 1 /\ g[i] = f[i] /\ g[i - 1] = f[i - 1]
        BY <2>4, <3>2
      <4> QED
        BY <2>2, <3>2, <4>1
    <3>3. CASE i = 0
      BY <2>2, <2>4, <3>3
    <3> QED
      BY <3>1, <3>2, <3>3
  <2>6. g = [i \in 0..n |-> g[i]]
    OBVIOUS
  <2> HIDE DEF g
  <2>7. Goes(n, g)
    BY <2>5, <2>6
  <2> HIDE DEF Goes
  <2>8. (\E f1 : Goes(n, f1)) /\ n \in 0..Len(text)
    BY <2>7
  <2> QED
    BY <2>8
<1>4. Len(text) \in T
  <2> HIDE DEF T
  <2>1. \A n \in 0 + 1..Len(text) : n - 1 \in T => n \in T
    BY <1>3
  <2>2. \A n \in 0..Len(text) : n \in T
    BY <1>2, <2>1, UpTo
  <2> QED
    BY <2>2
<1>5. Goes(Len(text), upTo)
  BY <1>4 DEF upTo
<1>6. upTo[0] = none0
  BY <1>5
<1>7. \A i \in 1..Len(text) :
        upTo[i] = IF i \in ends THEN Shelf!Accumulate(upTo[i - 1], i) ELSE upTo[i - 1]
  BY <1>5
<1> HIDE DEF Goes
<1> QED
  BY <1>1, <1>6, <1>7 DEF none0, ends

\* At the end of a text the passages have the whole of it.
LEMMA AccumulatedKeeps ==
  ASSUME NEW text, IsList(text)
  PROVE  LET spans == Shelf!Accumulated(text)
         IN  IsCutting(spans, Len(text)) /\ spans[Len(spans)].to = Len(text)
<1> DEFINE ends == Shelf!Ends(text)
<1>1. Len(text) \in Nat /\ DOMAIN text = 1..Len(text)
  BY ListFacts
<1>2. PICK u : /\ u[0] = <<[from |-> 1, to |-> 0]>>
               /\ \A i \in 1..Len(text) :
                    u[i] = IF i \in ends THEN Shelf!Accumulate(u[i - 1], i) ELSE u[i - 1]
               /\ Shelf!Accumulated(text) = u[Len(text)]
  BY <1>1, AccumulatedInTurn
<1>3. Len(text) \in 1..Len(text) => Len(text) \in ends
  BY <1>1 DEF Shelf!Ends
<1> HIDE DEF ends
<1> DEFINE T == {i \in 0..Len(text) : IsCutting(u[i], i) /\ (i \in ends \cup {0} => u[i][Len(u[i])].to = i)}
<1>4. 0 \in T
  <2> DEFINE one == [from |-> 1, to |-> 0]
  <2>1. one.from = 1 /\ one.to = 0
    OBVIOUS
  <2> HIDE DEF one
  <2>2. IsList(<<one>>) /\ Len(<<one>>) = 1 /\ <<one>>[1] = one
    BY OneOnly
  <2>3. u[0] = <<one>>
    BY <1>2 DEF one
  <2>4. IsCutting(u[0], 0)
    BY <2>1, <2>2, <2>3 DEF IsCutting
  <2>5. u[0][Len(u[0])].to = 0
    BY <2>1, <2>2, <2>3
  <2>6. 0 \in 0..Len(text)
    BY <1>1
  <2> QED
    BY <2>4, <2>5, <2>6
<1>5. ASSUME NEW i \in 0 + 1..Len(text), i - 1 \in T PROVE i \in T
  <2>1. i \in 1..Len(text) /\ i \in Nat \ {0} /\ IsCutting(u[i - 1], i - 1)
    BY <1>1, <1>5
  <2>2. CASE i \in ends
    <3>1. u[i] = Shelf!Accumulate(u[i - 1], i)
      BY <1>2, <2>1, <2>2
    <3>2. IsCutting(u[i], i) /\ u[i][Len(u[i])].to = i
      BY <2>1, <3>1, AccumulateKeeps
    <3> QED
      BY <2>1, <3>2
  <2>3. CASE i \notin ends
    <3>1. u[i] = u[i - 1]
      BY <1>2, <2>1, <2>3
    <3>2. IsCutting(u[i], i)
      BY <2>1, <3>1 DEF IsCutting
    <3> QED
      BY <2>1, <2>3, <3>2
  <2> QED
    BY <2>2, <2>3
<1> HIDE DEF T
<1>6. \A i \in 0..Len(text) : i \in T
  BY <1>1, <1>4, <1>5, UpTo
<1>7. Len(text) \in T /\ Len(text) \in ends \cup {0}
  BY <1>1, <1>3, <1>6
<1>8. IsCutting(u[Len(text)], Len(text)) /\ u[Len(text)][Len(u[Len(text)])].to = Len(text)
  BY <1>7 DEF T
<1> QED
  BY <1>2, <1>8

-----------------------------------------------------------------------------
(* What the passages say *)

\* Passages that have every stretch of a text.
CutWhole(passages, text) ==
  /\ IsList(passages) /\ Len(passages) >= 1 /\ \A j \in 1..Len(passages) : IsList(passages[j])
  /\ Shelf!Keeps(text, passages)

\* A text that has every stretch of another.
SaysWhole(other, text) == \A i \in DOMAIN text : \E o \in DOMAIN other : Shelf!Stands(text, i, other, o)

\* Where in a passage a unit is that is not before its first and not after its last.
LEMMA Offset ==
  ASSUME NEW from \in Nat \ {0}, NEW to \in Nat, NEW i \in Nat, from <= i,
         NEW k \in Nat, i + k <= to
  PROVE  /\ (i + 1 - from) + k \in 1..to + 1 - from
         /\ from + ((i + 1 - from) + k) - 1 = i + k
<1> QED
  OBVIOUS

\* Every text is cut so: a stretch that begins in the last passage ends with it at the
\* latest, and one that begins before is in the passage that has it to its end.
LEMMA CutKeeps ==
  ASSUME NEW text, IsList(text)
  PROVE  CutWhole(Shelf!Cut(text), text)
<1> DEFINE spans == Shelf!Accumulated(text)
           ends == Shelf!Ends(text)
           L == Len(spans)
           ps == Shelf!Cut(text)
           N == Len(text)
<1>1. /\ N \in Nat /\ DOMAIN text = 1..N
      /\ IsCutting(spans, N) /\ spans[L].to = N /\ L \in Nat /\ L >= 1
  BY ListFacts, AccumulatedKeeps DEF IsCutting
<1>2. ps = [j \in 1..L |-> Shelf!Passage(text, spans[j], ends)]
  BY DEF Shelf!Cut
<1> HIDE DEF spans, ps, ends
<1>3. ps = [j \in 1..L |-> ps[j]] /\ \A j \in 1..L : ps[j] = Shelf!Passage(text, spans[j], ends)
  BY <1>2
<1>4. IsList(ps) /\ Len(ps) = L /\ DOMAIN ps = 1..L
  BY <1>1, <1>3, ListOf
<1>5. ASSUME NEW j \in 1..L
      PROVE  /\ IsList(ps[j]) /\ Len(ps[j]) = spans[j].to + 1 - spans[j].from
             /\ DOMAIN ps[j] = 1..spans[j].to + 1 - spans[j].from
             /\ \A k \in 1..spans[j].to + 1 - spans[j].from : ps[j][k].unit = text[spans[j].from + k - 1].unit
  <2> DEFINE n == spans[j].to + 1 - spans[j].from
             Pos(k) == spans[j].from + k - 1
             f == [k \in 1..n |->
                     [unit |-> text[Pos(k)].unit,
                      ends |-> IF Pos(k) \in ends THEN "paragraph" ELSE text[Pos(k)].ends]]
  <2>1. n \in Nat
    BY <1>1 DEF IsCutting
  <2>2. ps[j] = f
    BY <1>3 DEF Shelf!Passage
  <2>3. \A k \in 1..n : f[k].unit = text[Pos(k)].unit
    OBVIOUS
  <2>4. f = [k \in 1..n |-> f[k]]
    OBVIOUS
  <2> HIDE DEF f, n
  <2>5. IsList(f) /\ Len(f) = n /\ DOMAIN f = 1..n
    BY <2>1, <2>4, ListOf
  <2> QED
    BY <2>2, <2>3, <2>5 DEF n
<1>6. ASSUME NEW i \in 1..N
      PROVE  \E j \in 1..L : \E o \in DOMAIN ps[j] : Shelf!Stands(text, i, ps[j], o)
  <2>1. \E j \in 1..L : spans[j].from <= i /\ (spans[j].to = N \/ i + Overlap <= spans[j].to)
    <3>1. i \in 1..spans[L].to /\ L \in 1..L
      BY <1>1
    <3>2. spans[L].from <= i \/ \E j \in 1..L : spans[j].from <= i /\ i + Overlap <= spans[j].to
      BY <1>1, <3>1 DEF IsCutting
    <3> QED
      BY <1>1, <3>1, <3>2
  <2>2. PICK j \in 1..L : spans[j].from <= i /\ (spans[j].to = N \/ i + Overlap <= spans[j].to)
    BY <2>1
  <2> DEFINE from == spans[j].from
             to == spans[j].to
             o == i + 1 - from
  <2>3. from \in Nat \ {0} /\ to \in 0..N /\ from <= i /\ (to = N \/ i + Overlap <= to)
    BY <1>1, <2>2 DEF IsCutting
  <2>4. /\ Len(ps[j]) = to + 1 - from /\ DOMAIN ps[j] = 1..to + 1 - from
        /\ \A k \in 1..to + 1 - from : ps[j][k].unit = text[from + k - 1].unit
    BY <1>5
  <2> HIDE DEF from, to
  <2>i. i \in Nat /\ i >= 1 /\ i <= N /\ N \in Nat /\ Overlap \in Nat
    BY <1>1, LengthsAssumption
  <2>5. /\ i \in Nat /\ i >= 1 /\ i <= N /\ Overlap \in Nat /\ to \in Nat
        /\ \A k \in 0..Overlap : i + k <= N => i + k <= to
    <3> HIDE DEF N
    <3>1. to \in Nat
      BY <2>i, <2>3
    <3>2. ASSUME NEW k \in 0..Overlap, i + k <= N PROVE i + k <= to
      <4>1. CASE to = N
        BY <3>2, <4>1
      <4>2. CASE i + Overlap <= to
        BY <2>i, <3>1, <3>2, <4>2
      <4> QED
        BY <2>3, <4>1, <4>2
    <3> QED
      BY <2>i, <3>1, <3>2
  <2>6. ASSUME NEW k \in 0..Overlap, i + k <= N
        PROVE  o + k \in 1..to + 1 - from /\ ps[j][o + k].unit = text[i + k].unit
    <3>1. k \in Nat /\ i + k <= to
      BY <2>5, <2>6
    <3>2. o + k \in 1..to + 1 - from /\ from + (o + k) - 1 = i + k
      BY <2>3, <2>5, <3>1, Offset
    <3> HIDE DEF o
    <3> QED
      BY <2>4, <3>2
  <2>8. 0 \in 0..Overlap /\ i + 0 <= N /\ to + 1 - from \in Int /\ o \in Int
    BY <2>3, <2>5
  <2>9. o + 0 \in 1..to + 1 - from
    BY <2>6, <2>8
  <2>10. o \in DOMAIN ps[j]
    <3> HIDE DEF o
    <3> QED
      BY <2>4, <2>8, <2>9
  <2>11. \A k \in 0..Overlap : i + k <= N => o + k <= Len(ps[j]) /\ ps[j][o + k].unit = text[i + k].unit
    <3> HIDE DEF o
    <3> QED
      BY <2>4, <2>6, <2>8
  <2>7. Shelf!Stands(text, i, ps[j], o)
    BY <2>11 DEF Shelf!Stands
  <2> QED
    BY <2>7, <2>10
<1>7. Shelf!Keeps(text, ps)
  BY <1>1, <1>4, <1>6 DEF Shelf!Keeps
<1>8. \A j \in 1..L : IsList(ps[j])
  BY <1>5
<1>9. IsList(ps) /\ Len(ps) >= 1 /\ \A j \in 1..Len(ps) : IsList(ps[j])
  BY <1>1, <1>4, <1>8
<1> QED
  BY <1>7, <1>9 DEF CutWhole, ps

\* A text says what it says.
LEMMA EveryTextSaysItself ==
  ASSUME NEW text, IsList(text)
  PROVE  SaysWhole(text, text)
<1> QED
  BY ListFacts DEF SaysWhole, Shelf!Stands

\* What stands in a text stands in the passages of that text.
LEMMA KeptThrough ==
  ASSUME NEW text, IsList(text), NEW other, IsList(other), SaysWhole(other, text),
         NEW passages, CutWhole(passages, other)
  PROVE  CutWhole(passages, text)
<1>1. DOMAIN text = 1..Len(text) /\ Len(text) \in Nat /\ DOMAIN other = 1..Len(other) /\ Len(other) \in Nat
  BY ListFacts
<1>2. ASSUME NEW i \in DOMAIN text
      PROVE  \E j \in DOMAIN passages : \E o \in DOMAIN passages[j] : Shelf!Stands(text, i, passages[j], o)
  <2>1. PICK m \in DOMAIN other : Shelf!Stands(text, i, other, m)
    BY DEF SaysWhole
  <2>2. PICK j \in DOMAIN passages : \E o \in DOMAIN passages[j] : Shelf!Stands(other, m, passages[j], o)
    BY DEF CutWhole, Shelf!Keeps
  <2>3. PICK o \in DOMAIN passages[j] : Shelf!Stands(other, m, passages[j], o)
    BY <2>2
  <2>4. ASSUME NEW k \in 0..Overlap, i + k <= Len(text)
        PROVE  o + k <= Len(passages[j]) /\ passages[j][o + k].unit = text[i + k].unit
    <3>1. m + k <= Len(other) /\ other[m + k].unit = text[i + k].unit
      BY <2>1, <2>4 DEF Shelf!Stands
    <3>2. o + k <= Len(passages[j]) /\ passages[j][o + k].unit = other[m + k].unit
      BY <2>3, <3>1 DEF Shelf!Stands
    <3> QED
      BY <3>1, <3>2
  <2>5. Shelf!Stands(text, i, passages[j], o)
    BY <2>4 DEF Shelf!Stands
  <2> QED
    BY <2>5
<1>3. Shelf!Keeps(text, passages)
  BY <1>2 DEF Shelf!Keeps
<1> QED
  BY <1>3 DEF CutWhole

-----------------------------------------------------------------------------
(* Passages one after the other *)

\* One by one, as the community modules define it.
LEMMA FlattenedInTurn ==
  ASSUME NEW ss, Len(ss) \in Nat, Len(ss) >= 1
  PROVE  \E u : /\ u[1] = ss[1]
                /\ \A i \in 2..Len(ss) : u[i] = u[i - 1] \o ss[i]
                /\ Shelf!FlattenSeq(ss) = u[Len(ss)]
<1> DEFINE Goes(n, f) == f = [i \in 1..n |-> IF i = 1 THEN ss[i] ELSE f[i - 1] \o ss[i]]
           T == {n \in 1..Len(ss) : \E f : Goes(n, f)}
<1>1. 1 \in T
  <2> DEFINE f == [i \in 1..1 |-> ss[i]]
  <2>1. f = [i \in 1..1 |-> IF i = 1 THEN ss[i] ELSE f[i - 1] \o ss[i]]
    OBVIOUS
  <2> HIDE DEF f
  <2>2. Goes(1, f)
    BY <2>1
  <2> HIDE DEF Goes
  <2> QED
    BY <2>2
<1>2. ASSUME NEW n \in 2..Len(ss), n - 1 \in T PROVE n \in T
  <2>1. PICK f : Goes(n - 1, f)
    BY <1>2
  <2> DEFINE g == [i \in 1..n |-> IF i = n THEN f[n - 1] \o ss[n] ELSE f[i]]
  <2>2. \A i \in 1..n - 1 : f[i] = IF i = 1 THEN ss[i] ELSE f[i - 1] \o ss[i]
    BY <2>1
  <2>3. \A i \in 1..n : g[i] = IF i = n THEN f[n - 1] \o ss[n] ELSE f[i]
    OBVIOUS
  <2>4. \A i \in 1..n - 1 : g[i] = f[i]
    BY <2>3
  <2>5. ASSUME NEW i \in 1..n PROVE g[i] = IF i = 1 THEN ss[i] ELSE g[i - 1] \o ss[i]
    <3>1. CASE i = n
      <4>1. g[i] = f[n - 1] \o ss[n]
        BY <2>3, <3>1
      <4>2. n - 1 \in 1..n - 1 /\ n # 1
        BY <1>2
      <4>3. g[n - 1] = f[n - 1]
        BY <2>4, <4>2
      <4> HIDE DEF g
      <4> QED
        BY <3>1, <4>1, <4>2, <4>3
    <3>2. CASE i \in 1..n - 1 /\ i # 1
      <4>1. i - 1 \in 1..n - 1 /\ g[i] = f[i] /\ g[i - 1] = f[i - 1]
        BY <2>4, <3>2
      <4> QED
        BY <2>2, <3>2, <4>1
    <3>3. CASE i = 1
      <4>1. 1 \in 1..n - 1
        BY <1>2
      <4> QED
        BY <2>2, <2>4, <3>3, <4>1
    <3> QED
      BY <3>1, <3>2, <3>3
  <2>6. g = [i \in 1..n |-> g[i]]
    OBVIOUS
  <2> HIDE DEF g
  <2>7. Goes(n, g)
    BY <2>5, <2>6
  <2> HIDE DEF Goes
  <2>8. (\E f1 : Goes(n, f1)) /\ n \in 1..Len(ss)
    BY <2>7, <1>2
  <2> QED
    BY <2>8
<1>3. Len(ss) \in T
  <2> HIDE DEF T
  <2>1. \A i \in 1 + 1..Len(ss) : i - 1 \in T => i \in T
    BY <1>2
  <2>2. \A i \in 1..Len(ss) : i \in T
    BY <1>1, <2>1, UpTo
  <2> QED
    BY <2>2
<1> DEFINE flatten == CHOOSE f : Goes(Len(ss), f)
<1>4. Goes(Len(ss), flatten)
  <2>1. \E f : Goes(Len(ss), f)
    BY <1>3
  <2> HIDE DEF Goes
  <2> QED
    BY <2>1
<1>5. Shelf!FlattenSeq(ss) = flatten[Len(ss)]
  BY DEF Shelf!FlattenSeq
<1> HIDE DEF flatten
<1>6. /\ flatten[1] = ss[1]
      /\ \A i \in 2..Len(ss) : flatten[i] = flatten[i - 1] \o ss[i]
  <2>1. \A i \in 1..Len(ss) : flatten[i] = IF i = 1 THEN ss[i] ELSE flatten[i - 1] \o ss[i]
    BY <1>4
  <2> HIDE DEF Goes
  <2>2. flatten[1] = ss[1]
    BY <2>1
  <2>3. ASSUME NEW i \in 2..Len(ss) PROVE flatten[i] = flatten[i - 1] \o ss[i]
    <3>1. i \in 1..Len(ss) /\ i # 1
      OBVIOUS
    <3> QED
      BY <2>1, <3>1
  <2> QED
    BY <2>2, <2>3
<1> HIDE DEF Goes
<1> QED
  BY <1>5, <1>6

\* A passage lies in a text somewhere, in one piece.
LiesIn(passage, text) ==
  \E off \in Nat : \A m \in 1..Len(passage) :
    off + m \in 1..Len(text) /\ text[off + m] = passage[m]

\* Passages one after the other lie in what they make.
LEMMA FlattenedHasEach ==
  ASSUME NEW passages, IsList(passages), Len(passages) >= 1,
         \A j \in 1..Len(passages) : IsList(passages[j])
  PROVE  /\ IsList(Shelf!FlattenSeq(passages))
         /\ \A j \in 1..Len(passages) : LiesIn(passages[j], Shelf!FlattenSeq(passages))
<1> DEFINE L == Len(passages)
<1>1. L \in Nat
  BY ListFacts
<1>2. PICK u : /\ u[1] = passages[1]
               /\ \A i \in 2..L : u[i] = u[i - 1] \o passages[i]
               /\ Shelf!FlattenSeq(passages) = u[L]
  BY <1>1, FlattenedInTurn
<1> DEFINE T == {i \in 1..L : IsList(u[i]) /\ \A j \in 1..i : LiesIn(passages[j], u[i])}
<1>3. 1 \in T
  <2>1. IsList(passages[1]) /\ 1 \in 1..L
    BY <1>1
  <2>2. 0 \in Nat /\ \A m \in 1..Len(passages[1]) :
          0 + m \in 1..Len(passages[1]) /\ passages[1][0 + m] = passages[1][m]
    BY <2>1, ListFacts
  <2>3. LiesIn(passages[1], passages[1])
    BY <2>2 DEF LiesIn
  <2>4. \A j \in 1..1 : j = 1
    OBVIOUS
  <2> QED
    BY <1>2, <2>1, <2>3, <2>4
<1>4. ASSUME NEW i \in 1 + 1..L, i - 1 \in T PROVE i \in T
  <2>a. i \in 2..L /\ i \in 1..L /\ i - 1 \in 1..L
    BY <1>1, <1>4
  <2>b. IsList(u[i - 1]) /\ \A j \in 1..i - 1 : LiesIn(passages[j], u[i - 1])
    BY <1>4
  <2>1. /\ i \in 2..L /\ i \in 1..L /\ i - 1 \in 1..L
        /\ IsList(u[i - 1]) /\ IsList(passages[i]) /\ u[i] = u[i - 1] \o passages[i]
        /\ \A j \in 1..i - 1 : LiesIn(passages[j], u[i - 1])
    BY <1>2, <2>a, <2>b
  <2>2. Len(u[i - 1]) \in Nat /\ Len(passages[i]) \in Nat
    BY <2>1, ListFacts
  <2>3. /\ IsList(u[i]) /\ Len(u[i]) = Len(u[i - 1]) + Len(passages[i])
        /\ \A m \in 1..Len(u[i - 1]) : u[i][m] = u[i - 1][m]
        /\ \A m \in 1..Len(passages[i]) : u[i][Len(u[i - 1]) + m] = passages[i][m]
    <3> DEFINE a == u[i - 1]
               b == passages[i]
               ab == u[i]
    <3>1. IsList(a) /\ IsList(b) /\ ab = a \o b
      BY <2>1
    <3> HIDE DEF a, b, ab
    <3>2. /\ IsList(ab) /\ Len(ab) = Len(a) + Len(b)
          /\ \A m \in 1..Len(a) : ab[m] = a[m]
          /\ \A m \in 1..Len(b) : ab[Len(a) + m] = b[m]
      BY <3>1, ListConcat
    <3> QED
      BY <3>2 DEF a, b, ab
  <2>4. LiesIn(passages[i], u[i])
    <3>1. ASSUME NEW a \in Nat, NEW b \in Nat, NEW m \in 1..b PROVE a + m \in 1..a + b
      OBVIOUS
    <3>2. \A m \in 1..Len(passages[i]) : Len(u[i - 1]) + m \in 1..Len(u[i])
      BY <2>2, <2>3, <3>1
    <3> QED
      BY <2>2, <2>3, <3>2 DEF LiesIn
  <2>5. ASSUME NEW j \in 1..i - 1 PROVE LiesIn(passages[j], u[i])
    <3>1. PICK off \in Nat : \A m \in 1..Len(passages[j]) :
            off + m \in 1..Len(u[i - 1]) /\ u[i - 1][off + m] = passages[j][m]
      BY <2>1 DEF LiesIn
    <3>a. ASSUME NEW a \in Nat, NEW b \in Nat, NEW x \in 1..a PROVE x \in 1..a + b
      OBVIOUS
    <3>2. \A m \in 1..Len(passages[j]) :
            off + m \in 1..Len(u[i]) /\ u[i][off + m] = passages[j][m]
      BY <2>2, <2>3, <3>a, <3>1
    <3> QED
      BY <3>2 DEF LiesIn
  <2>6. \A j \in 1..i : j = i \/ j \in 1..i - 1
    BY <2>1
  <2> QED
    BY <2>1, <2>3, <2>4, <2>5, <2>6
<1> HIDE DEF T
<1>5. \A i \in 1..L : i \in T
  BY <1>1, <1>3, <1>4, UpTo
<1>6. L \in T
  BY <1>1, <1>5
<1> QED
  BY <1>2, <1>6 DEF T

\* Joined again, the passages say what each of them said.
LEMMA JoinedKeeps ==
  ASSUME NEW passages, NEW text, CutWhole(passages, text)
  PROVE  IsList(Shelf!Joined(passages)) /\ SaysWhole(Shelf!Joined(passages), text)
<1> DEFINE F == Shelf!Joined(passages)
<1>1. /\ IsList(passages) /\ Len(passages) >= 1 /\ \A j \in 1..Len(passages) : IsList(passages[j])
      /\ Shelf!Keeps(text, passages)
  BY DEF CutWhole
<1>2. IsList(F) /\ \A j \in 1..Len(passages) : LiesIn(passages[j], F)
  BY <1>1, FlattenedHasEach DEF Shelf!Joined
<1>3. DOMAIN passages = 1..Len(passages)
  BY <1>1, ListFacts
<1> HIDE DEF F
<1>4. DOMAIN F = 1..Len(F) /\ Len(F) \in Nat
  BY <1>2, ListFacts
<1>5. ASSUME NEW i \in DOMAIN text
      PROVE  \E o \in DOMAIN F : Shelf!Stands(text, i, F, o)
  <2>1. PICK j \in DOMAIN passages : \E o \in DOMAIN passages[j] : Shelf!Stands(text, i, passages[j], o)
    BY <1>1 DEF Shelf!Keeps
  <2>2. PICK o \in DOMAIN passages[j] : Shelf!Stands(text, i, passages[j], o)
    BY <2>1
  <2> DEFINE p == passages[j]
  <2>3. PICK off \in Nat : \A m \in 1..Len(p) : off + m \in 1..Len(F) /\ F[off + m] = p[m]
    BY <1>2, <1>3 DEF LiesIn
  <2>4. DOMAIN p = 1..Len(p) /\ Len(p) \in Nat
    BY <1>1, <1>3, ListFacts
  <2>5. Shelf!Stands(text, i, p, o) /\ o \in 1..Len(p)
    BY <2>2, <2>4
  <2> HIDE DEF p
  <2>6. ASSUME NEW k \in 0..Overlap, i + k <= Len(text)
        PROVE  (off + o) + k <= Len(F) /\ F[(off + o) + k].unit = text[i + k].unit
    <3>1. o + k <= Len(p) /\ p[o + k].unit = text[i + k].unit
      BY <2>5, <2>6 DEF Shelf!Stands
    <3>2. o + k \in 1..Len(p) /\ (off + o) + k = off + (o + k)
      BY <2>4, <2>5, <3>1
    <3>3. off + (o + k) \in 1..Len(F) /\ F[off + (o + k)] = p[o + k]
      BY <2>3, <3>2
    <3> QED
      BY <1>4, <3>1, <3>2, <3>3
  <2>7. Shelf!Stands(text, i, F, off + o)
    BY <2>6 DEF Shelf!Stands
  <2>8. off + o \in DOMAIN F
    BY <1>4, <2>3, <2>5
  <2> QED
    BY <2>7, <2>8
<1> QED
  BY <1>2, <1>5 DEF SaysWhole, F

-----------------------------------------------------------------------------
(* Every document, whoever writes it *)

\* Who is going to write a document knows which text it is of, and has it whole when it
\* is to be cut.
WritesWhole(o) ==
  /\ {"doc", "of", "text"} \subseteq DOMAIN o /\ o.doc \in Ids
  /\ o.of \in {Editions[i] : i \in DOMAIN Editions}
  /\ o.at \in {"extracted", "index"} => IsList(o.text) /\ SaysWhole(o.text, Wording[o.of])

Writes(o) == o.at \in {"extracted", "found", "index", "finish"}

\* All who write a document are of one mind, and of the row's, what its text is.
OneText ==
  \A c \in Clients : Writes(op[c]) =>
    /\ WritesWhole(op[c])
    /\ op[c].doc \in Shelf!Saved => docs[op[c].doc].of = op[c].of
    /\ \A b \in Clients : Writes(op[b]) /\ op[b].doc = op[c].doc => op[b].of = op[c].of

\* Only a document with a row has passages, and they are of its text.
PassagesAreWhole ==
  \A doc \in Ids :
    /\ doc \in Shelf!Saved => docs[doc].of \in {Editions[i] : i \in DOMAIN Editions}
    /\ chunks[doc] # Shelf!NoChunks =>
         doc \in Shelf!Saved /\ CutWhole(chunks[doc].passages, Wording[docs[doc].of])

TextsInv == file \in DOMAIN Editions /\ OneText /\ PassagesAreWhole

\* What a file said is a text.
LEMMA EditionsAreTexts ==
  /\ 1 \in DOMAIN Editions /\ DOMAIN Editions = 1..Len(Editions) /\ Len(Editions) \in Nat
  /\ \A i \in DOMAIN Editions : IsList(Wording[Editions[i]])
<1>1. IsList(Editions) /\ Editions # << >>
  BY TextAssumption DEF IsList
<1>2. Len(Editions) \in Nat /\ Len(Editions) # 0 /\ DOMAIN Editions = 1..Len(Editions)
  BY <1>1, ListFacts
<1>3. ASSUME NEW i \in DOMAIN Editions
      PROVE  IsList(Wording[Editions[i]])
  BY TextAssumption DEF IsList
<1> QED
  BY <1>2, <1>3

LEMMA TextsStart == Shelf!Init => TextsInv
<1> SUFFICES ASSUME Shelf!Init PROVE TextsInv
  OBVIOUS
<1>1. file \in DOMAIN Editions
  BY EditionsAreTexts DEF Shelf!Init
<1>2. OneText
  BY DEF Shelf!Init, Shelf!Idle, OneText, Writes
<1>3. PassagesAreWhole
  BY DEF Shelf!Init, PassagesAreWhole, Shelf!Saved, Shelf!NoRow
<1> QED
  BY <1>1, <1>2, <1>3 DEF TextsInv

\* A client begins, goes on or ends; the row and the passages it writes are of its text.
LEMMA ClientKeepsTexts ==
  ASSUME ShelfInv, TextsInv, NEW c \in Clients, NEW o, op' = [op EXCEPT ![c] = o],
         file' \in DOMAIN Editions,
         \A e \in Ids :
           \/ docs'[e].status = docs[e].status /\ docs'[e].of = docs[e].of
           \/ Writes(op[c]) /\ e = op[c].doc /\ docs'[e].status # "none" /\ docs'[e].of = op[c].of,
         \A e \in Ids :
           \/ chunks'[e] = chunks[e]
           \/ /\ Writes(op[c]) /\ e = op[c].doc /\ e \in Shelf!Saved
              /\ CutWhole(chunks'[e].passages, Wording[op[c].of]),
         Writes(o) =>
           /\ WritesWhole(o)
           /\ \/ Writes(op[c]) /\ o.doc = op[c].doc /\ o.of = op[c].of
              \/ /\ UNCHANGED docs
                 /\ o.doc \in Shelf!Saved => docs[o.doc].of = o.of
                 /\ \A b \in Clients : Writes(op[b]) /\ op[b].doc = o.doc => op[b].of = o.of
  PROVE  TextsInv'
<1>1. \A b \in Clients : op'[b] = IF b = c THEN o ELSE op[b]
  BY DEF ShelfInv
<1>2. ASSUME NEW e \in Ids
      PROVE  /\ e \in Shelf!Saved => e \in Shelf!Saved'
             /\ e \in Shelf!Saved' => e \in Shelf!Saved \/ (Writes(op[c]) /\ e = op[c].doc /\ docs'[e].of = op[c].of)
             /\ e \in Shelf!Saved => docs'[e].of = docs[e].of
  <2>1. e \in Shelf!Saved /\ Writes(op[c]) /\ e = op[c].doc => docs[e].of = op[c].of
    BY DEF TextsInv, OneText
  <2> QED
    BY <2>1 DEF Shelf!Saved
<1>3. ASSUME NEW a \in Clients, NEW b \in Clients,
             Writes(op'[a]), Writes(op'[b]), op'[a].doc = op'[b].doc
      PROVE  op'[a].of = op'[b].of
  <2>1. \A e, f \in Clients : Writes(op[e]) /\ Writes(op[f]) /\ op[e].doc = op[f].doc => op[e].of = op[f].of
    BY DEF TextsInv, OneText
  <2>2. CASE a # c /\ b # c
    BY <1>1, <1>3, <2>1, <2>2
  <2>3. CASE a = c /\ b # c
    BY <1>1, <1>3, <2>1, <2>3
  <2>4. CASE a # c /\ b = c
    BY <1>1, <1>3, <2>1, <2>4
  <2> QED
    BY <2>2, <2>3, <2>4
<1>4. ASSUME NEW b \in Clients, Writes(op'[b])
      PROVE  /\ WritesWhole(op'[b])
             /\ op'[b].doc \in Shelf!Saved' => docs'[op'[b].doc].of = op'[b].of
  <2>1. CASE b = c
    <3>1. op'[b] = o /\ WritesWhole(o) /\ o.doc \in Ids
      BY <1>1, <1>4, <2>1 DEF WritesWhole
    <3>2. ASSUME o.doc \in Shelf!Saved' PROVE docs'[o.doc].of = o.of
      <4>1. CASE Writes(op[c]) /\ o.doc = op[c].doc /\ o.of = op[c].of
        <5>1. o.doc \in Shelf!Saved => docs[o.doc].of = o.of
          BY <4>1 DEF TextsInv, OneText
        <5> QED
          BY <1>2, <3>1, <3>2, <4>1, <5>1
      <4>2. CASE UNCHANGED docs /\ (o.doc \in Shelf!Saved => docs[o.doc].of = o.of)
        BY <3>2, <4>2 DEF Shelf!Saved
      <4> QED
        BY <1>4, <3>1, <4>1, <4>2
    <3> QED
      BY <3>1, <3>2
  <2>2. CASE b # c
    <3>1. op'[b] = op[b]
      BY <1>1, <2>2
    <3>2. WritesWhole(op[b]) /\ (op[b].doc \in Shelf!Saved => docs[op[b].doc].of = op[b].of)
      BY <1>4, <3>1 DEF TextsInv, OneText
    <3>3. Writes(op[c]) /\ op[b].doc = op[c].doc => op[b].of = op[c].of
      BY <1>4, <3>1 DEF TextsInv, OneText
    <3>4. op[b].doc \in Ids
      BY <3>2 DEF WritesWhole
    <3> QED
      BY <1>2, <3>1, <3>2, <3>3, <3>4
  <2> QED
    BY <2>1, <2>2
<1>5. OneText'
  BY <1>3, <1>4 DEF OneText
<1>6. ASSUME NEW e \in Ids
      PROVE  /\ e \in Shelf!Saved' => docs'[e].of \in {Editions[i] : i \in DOMAIN Editions}
             /\ chunks'[e] # Shelf!NoChunks =>
                  e \in Shelf!Saved' /\ CutWhole(chunks'[e].passages, Wording[docs'[e].of])
  <2> DEFINE Said == {Editions[i] : i \in DOMAIN Editions}
  <2>1. /\ e \in Shelf!Saved => docs[e].of \in Said
        /\ chunks[e] # Shelf!NoChunks =>
             e \in Shelf!Saved /\ CutWhole(chunks[e].passages, Wording[docs[e].of])
    BY DEF TextsInv, PassagesAreWhole
  <2>2. Writes(op[c]) => op[c].of \in Said
    BY DEF TextsInv, OneText, WritesWhole
  <2>3. Writes(op[c]) /\ e = op[c].doc /\ e \in Shelf!Saved => docs[e].of = op[c].of
    BY DEF TextsInv, OneText
  <2> HIDE DEF Said
  <2>4. e \in Shelf!Saved' => docs'[e].of \in Said
    BY <1>2, <2>1, <2>2
  <2>5. ASSUME chunks'[e] # Shelf!NoChunks
        PROVE  e \in Shelf!Saved' /\ CutWhole(chunks'[e].passages, Wording[docs'[e].of])
    <3>1. CASE chunks'[e] = chunks[e]
      BY <1>2, <2>1, <2>5, <3>1
    <3>2. CASE /\ Writes(op[c]) /\ e = op[c].doc /\ e \in Shelf!Saved
               /\ CutWhole(chunks'[e].passages, Wording[op[c].of])
      BY <1>2, <2>3, <3>2
    <3> QED
      BY <3>1, <3>2
  <2> QED
    BY <2>4, <2>5 DEF Said
<1>7. PassagesAreWhole'
  BY <1>6 DEF PassagesAreWhole
<1> QED
  BY <1>5, <1>7 DEF TextsInv

LEMMA TextsStep == ShelfInv /\ TextsInv /\ [Shelf!Next]_Shelf!vars => TextsInv'
<1> SUFFICES ASSUME ShelfInv, TextsInv, [Shelf!Next]_Shelf!vars PROVE TextsInv'
  OBVIOUS
<1>t. /\ DOMAIN docs = Ids /\ DOMAIN chunks = Ids /\ DOMAIN op = Clients /\ file \in DOMAIN Editions
  BY DEF ShelfInv, TextsInv
<1>u. ASSUME UNCHANGED <<docs, chunks, op>>, file' \in DOMAIN Editions PROVE TextsInv'
  BY <1>u DEF TextsInv, OneText, PassagesAreWhole, Shelf!Saved
\* A client that changes nothing but what it is doing.
<1>n. ASSUME NEW c \in Clients, NEW o, op' = [op EXCEPT ![c] = o],
             UNCHANGED <<docs, chunks, file>>,
             Writes(o) =>
               /\ WritesWhole(o)
               /\ \/ Writes(op[c]) /\ o.doc = op[c].doc /\ o.of = op[c].of
                  \/ /\ o.doc \in Shelf!Saved => docs[o.doc].of = o.of
                     /\ \A b \in Clients : Writes(op[b]) /\ op[b].doc = o.doc => op[b].of = o.of
      PROVE  TextsInv'
  BY <1>n, <1>t, ClientKeepsTexts
<1>o. ASSUME NEW c \in Clients, Shelf!Over(c), UNCHANGED <<docs, chunks, file>> PROVE TextsInv'
  <2>1. ~Writes(Shelf!Idle)
    BY DEF Writes, Shelf!Idle
  <2> QED
    BY <1>n, <1>o, <2>1 DEF Shelf!Over
\* Whoever writes a document that has a row has the row's text.
<1>s. ASSUME NEW doc \in Shelf!Saved, NEW b \in Clients, Writes(op[b]), op[b].doc = doc
      PROVE  op[b].of = docs[doc].of
  BY <1>s DEF TextsInv, OneText
<1>1. CASE UNCHANGED Shelf!vars
  BY <1>1, <1>t, <1>u DEF Shelf!vars
<1>2. CASE Shelf!Edit
  <2>1. file' \in DOMAIN Editions
    BY <1>2, <1>t, EditionsAreTexts DEF Shelf!Edit
  <2> QED
    BY <1>2, <1>u, <2>1 DEF Shelf!Edit
<1>r. CASE Shelf!Reconfigure
  BY <1>r, <1>t, <1>u DEF Shelf!Reconfigure
<1>3. ASSUME NEW c \in Clients, Shelf!Add(c) PROVE TextsInv'
  <2> DEFINE same(space) == Shelf!ByChecksum(Editions[file], space)
  <2>1. PICK space \in Shelves :
          \E doc \in IF same(space) = {} THEN Shelf!Fresh ELSE same(space) :
            op' = [op EXCEPT ![c] =
                    [at |-> "extracted", doc |-> doc, space |-> space, of |-> Editions[file],
                     text |-> Shelf!Extracted, model |-> model]]
    BY <1>3 DEF Shelf!Add
  <2>2. PICK doc \in IF same(space) = {} THEN Shelf!Fresh ELSE same(space) :
            op' = [op EXCEPT ![c] =
                    [at |-> "extracted", doc |-> doc, space |-> space, of |-> Editions[file],
                     text |-> Shelf!Extracted, model |-> model]]
    BY <2>1
  <2>3. doc \in Shelf!Fresh \/ doc \in same(space)
    BY <2>2
  <2> HIDE DEF same
  <2> DEFINE o == [at |-> "extracted", doc |-> doc, space |-> space, of |-> Editions[file],
                   text |-> Shelf!Extracted, model |-> model]
  <2>4. /\ o.at = "extracted" /\ o.doc = doc /\ o.of = Editions[file] /\ o.text = Wording[Editions[file]]
        /\ {"doc", "of", "text"} \subseteq DOMAIN o
    BY DEF Shelf!Extracted
  <2>5. op' = [op EXCEPT ![c] = o] /\ UNCHANGED <<docs, chunks, file>>
    BY <1>3, <2>2 DEF Shelf!Add
  <2> HIDE DEF o
  <2>6. doc \in Ids
    BY <2>3 DEF Shelf!Fresh, Shelf!ByChecksum, Shelf!Saved, same
  <2>7. WritesWhole(o)
    <3>1. o.of \in {Editions[i] : i \in DOMAIN Editions}
      BY <1>t, <2>4
    <3>2. IsList(o.text) /\ SaysWhole(o.text, Wording[o.of])
      BY <1>t, <2>4, EditionsAreTexts, EveryTextSaysItself
    <3> QED
      BY <2>4, <2>6, <3>1, <3>2 DEF WritesWhole
  <2>8. doc \in Shelf!Saved => docs[doc].of = o.of
    BY <2>3, <2>4 DEF Shelf!Fresh, Shelf!ByChecksum, same
  <2>9. ASSUME NEW b \in Clients, Writes(op[b]), op[b].doc = doc PROVE op[b].of = o.of
    <3>1. CASE doc \in Shelf!Fresh
      <4>1. op[b].at = "idle"
        BY <2>9, <3>1 DEF Shelf!Fresh
      <4> QED
        BY <2>9, <4>1 DEF Writes
    <3>2. CASE doc \in same(space)
      <4>1. doc \in Shelf!Saved
        BY <3>2 DEF Shelf!ByChecksum, same
      <4> QED
        BY <1>s, <2>8, <2>9, <4>1
    <3> QED
      BY <2>3, <3>1, <3>2
  <2> QED
    BY <1>n, <2>4, <2>5, <2>7, <2>8, <2>9
<1>4. ASSUME NEW c \in Clients, Shelf!SaveExtracted(c) PROVE TextsInv'
  <2> DEFINE o == [op[c] EXCEPT !.at = "index"]
             row == [status |-> "EXTRACTED", space |-> op[c].space, of |-> op[c].of]
  <2>1. op[c].at = "extracted" /\ "at" \in DOMAIN op[c] /\ Writes(op[c])
    BY <1>4 DEF ShelfInv, WritesAreOfDocuments, Shelf!SaveExtracted, Writes
  <2>2. WritesWhole(op[c])
    BY <2>1 DEF TextsInv, OneText
  <2>3. /\ DOMAIN o = DOMAIN op[c]
        /\ o.at = "index" /\ o.doc = op[c].doc /\ o.of = op[c].of /\ o.text = op[c].text
    BY <2>1, <2>2 DEF WritesWhole
  <2> HIDE DEF o
  <2>4. WritesWhole(o)
    BY <2>1, <2>2, <2>3 DEF WritesWhole
  <2>5. op' = [op EXCEPT ![c] = o] /\ UNCHANGED <<chunks, file>>
    BY <1>4 DEF Shelf!SaveExtracted, Shelf!Goto, o
  <2>6. docs' = [docs EXCEPT ![op[c].doc] = row] /\ row.status # "none" /\ row.of = op[c].of
    BY <1>4 DEF Shelf!SaveExtracted, Shelf!Save
  <2> HIDE DEF row
  <2>7. \A e \in Ids : docs'[e] = IF e = op[c].doc THEN row ELSE docs[e]
    BY <1>t, <2>6
  <2> QED
    BY <1>t, <2>1, <2>3, <2>4, <2>5, <2>6, <2>7, ClientKeepsTexts
<1>5. ASSUME NEW c \in Clients, Shelf!Reindex(c) PROVE TextsInv'
  <2>1. PICK doc \in Shelf!Saved :
          op' = [op EXCEPT ![c] =
                  [at |-> "found", doc |-> doc, space |-> docs[doc].space, of |-> docs[doc].of,
                   text |-> <<>>, model |-> model]]
    BY <1>5 DEF Shelf!Reindex
  <2> DEFINE o == [at |-> "found", doc |-> doc, space |-> docs[doc].space, of |-> docs[doc].of,
                   text |-> <<>>, model |-> model]
  <2>2. /\ o.at = "found" /\ o.doc = doc /\ o.of = docs[doc].of
        /\ {"doc", "of", "text"} \subseteq DOMAIN o
    OBVIOUS
  <2>3. op' = [op EXCEPT ![c] = o] /\ UNCHANGED <<docs, chunks, file>>
    BY <1>5, <2>1 DEF Shelf!Reindex
  <2> HIDE DEF o
  <2>4. doc \in Ids /\ docs[doc].of \in {Editions[i] : i \in DOMAIN Editions}
    BY <2>1 DEF TextsInv, PassagesAreWhole, Shelf!Saved
  <2>5. WritesWhole(o)
    BY <2>2, <2>4 DEF WritesWhole
  <2>6. \A b \in Clients : Writes(op[b]) /\ op[b].doc = doc => op[b].of = o.of
    BY <1>s, <2>1, <2>2
  <2> QED
    BY <1>n, <2>2, <2>3, <2>5, <2>6
<1>6. ASSUME NEW c \in Clients, Shelf!ReadPassages(c) PROVE TextsInv'
  <2> DEFINE doc == op[c].doc
             text == Shelf!Joined(chunks[doc].passages)
             o == [op[c] EXCEPT !.at = "index", !.text = text]
  <2>1. op[c].at = "found" /\ "at" \in DOMAIN op[c] /\ Writes(op[c]) /\ UNCHANGED <<docs, chunks, file>>
    BY <1>6 DEF ShelfInv, WritesAreOfDocuments, Shelf!ReadPassages, Writes
  <2>2. WritesWhole(op[c])
    BY <2>1 DEF TextsInv, OneText
  <2>3. CASE chunks[doc] = Shelf!NoChunks
    BY <1>6, <1>o, <2>1, <2>3 DEF Shelf!ReadPassages
  <2>4. CASE chunks[doc] # Shelf!NoChunks
    <3>1. op' = [op EXCEPT ![c] = o]
      BY <1>6, <2>4 DEF Shelf!ReadPassages
    <3> HIDE DEF text
    <3>2. /\ DOMAIN o = DOMAIN op[c]
          /\ o.at = "index" /\ o.doc = doc /\ o.of = op[c].of /\ o.text = text
      BY <2>1, <2>2 DEF WritesWhole
    <3> HIDE DEF o
    <3>3. doc \in Ids
      BY <2>2 DEF WritesWhole
    <3>4. doc \in Shelf!Saved /\ CutWhole(chunks[doc].passages, Wording[docs[doc].of])
      BY <2>4, <3>3 DEF TextsInv, PassagesAreWhole
    <3>5. op[c].of = docs[doc].of
      BY <1>s, <2>1, <3>4
    <3>6. IsList(text) /\ SaysWhole(text, Wording[docs[doc].of])
      BY <3>4, JoinedKeeps DEF text
    <3>7. WritesWhole(o)
      <4> HIDE DEF doc
      <4> QED
        BY <2>2, <3>2, <3>3, <3>5, <3>6 DEF WritesWhole
    <3> QED
      BY <1>n, <2>1, <3>1, <3>2, <3>7
  <2> QED
    BY <2>3, <2>4
<1>7. ASSUME NEW c \in Clients, Shelf!ReplaceChunks(c) PROVE TextsInv'
  <2> DEFINE doc == op[c].doc
  <2>1. op[c].at = "index" /\ "at" \in DOMAIN op[c] /\ Writes(op[c]) /\ UNCHANGED <<docs, file>>
    BY <1>7 DEF ShelfInv, WritesAreOfDocuments, Shelf!ReplaceChunks, Writes
  <2>2. WritesWhole(op[c])
    BY <2>1 DEF TextsInv, OneText
  <2>3. CASE ~Shelf!Accepted(doc)
    BY <1>7, <1>o, <2>1, <2>3 DEF Shelf!ReplaceChunks
  <2>4. CASE Shelf!Accepted(doc)
    <3>1. PICK by \in Shelf!Vectors(op[c].model) :
            /\ chunks' = [chunks EXCEPT ![doc] = [passages |-> Shelf!Cut(op[c].text), by |-> by]]
            /\ op' = [op EXCEPT ![c].at = "finish", ![c].model = by]
      BY <1>7, <2>4 DEF Shelf!ReplaceChunks
    <3> DEFINE o == [op[c] EXCEPT !.at = "finish", !.model = by]
               passages == Shelf!Cut(op[c].text)
               row == [passages |-> passages, by |-> by]
    <3>2. op' = [op EXCEPT ![c] = o]
      BY <3>1
    <3>3. DOMAIN o = DOMAIN op[c] /\ o.at = "finish" /\ o.doc = doc /\ o.of = op[c].of
      BY <2>1, <2>2 DEF WritesWhole
    <3> HIDE DEF o
    <3>4. WritesWhole(o)
      BY <2>2, <3>3 DEF WritesWhole
    <3>5. /\ CutWhole(passages, op[c].text) /\ SaysWhole(op[c].text, Wording[op[c].of])
          /\ IsList(op[c].text) /\ IsList(Wording[op[c].of])
      BY <2>1, <2>2, CutKeeps, EditionsAreTexts DEF WritesWhole
    <3>6. chunks' = [chunks EXCEPT ![doc] = row] /\ row.passages = passages
      BY <3>1
    <3> HIDE DEF row, passages
    <3>7. CutWhole(passages, Wording[op[c].of])
      BY <3>5, KeptThrough
    <3>8. \A e \in Ids : chunks'[e] = IF e = doc THEN row ELSE chunks[e]
      BY <1>t, <3>6
    <3>9. doc \in Shelf!Saved
      BY <2>4 DEF Shelf!Accepted
    <3>10. \A e \in Ids :
             \/ chunks'[e] = chunks[e]
             \/ /\ Writes(op[c]) /\ e = op[c].doc /\ e \in Shelf!Saved
                /\ CutWhole(chunks'[e].passages, Wording[op[c].of])
      BY <2>1, <3>6, <3>7, <3>8, <3>9
    <3> QED
      BY <1>t, <2>1, <3>2, <3>3, <3>4, <3>10, ClientKeepsTexts
  <2> QED
    BY <2>3, <2>4
<1>8. ASSUME NEW c \in Clients, Shelf!Finish(c) PROVE TextsInv'
  <2> DEFINE status == IF op[c].model = NoModel THEN "EXTRACTED" ELSE "INDEXED"
             row == [status |-> status, space |-> op[c].space, of |-> op[c].of]
  <2>1. /\ op[c].at = "finish" /\ Writes(op[c])
        /\ op' = [op EXCEPT ![c] = Shelf!Idle] /\ UNCHANGED <<chunks, file>>
    BY <1>8 DEF Shelf!Finish, Shelf!Over, Writes
  <2>2. docs' = [docs EXCEPT ![op[c].doc] = row]
    BY <1>8 DEF Shelf!Finish, Shelf!Save
  <2>3. row.status # "none" /\ row.of = op[c].of
    OBVIOUS
  <2> HIDE DEF row
  <2>4. \A e \in Ids : docs'[e] = IF e = op[c].doc THEN row ELSE docs[e]
    BY <1>t, <2>2
  <2>5. ~Writes(Shelf!Idle)
    BY DEF Writes, Shelf!Idle
  <2> QED
    BY <1>t, <2>1, <2>3, <2>4, <2>5, ClientKeepsTexts
<1>9. ASSUME NEW c \in Clients, Shelf!Delete(c) PROVE TextsInv'
  <2>1. PICK doc \in Shelf!Saved :
          /\ docs' = [docs EXCEPT ![doc] = Shelf!NoRow]
          /\ chunks' = [chunks EXCEPT ![doc] = Shelf!NoChunks]
          /\ UNCHANGED <<file, op>>
    BY <1>9 DEF Shelf!Delete
  <2>2. Shelf!Saved' = Shelf!Saved \ {doc}
    <3>1. Shelf!NoRow.status = "none"
      BY DEF Shelf!NoRow
    <3> QED
      BY <1>t, <2>1, <3>1 DEF Shelf!Saved
  <2>3. \A e \in Ids : e # doc => docs'[e] = docs[e] /\ chunks'[e] = chunks[e]
    BY <1>t, <2>1
  <2>4. OneText'
    <3>1. ASSUME NEW a \in Clients, Writes(op[a])
          PROVE  /\ WritesWhole(op[a])
                 /\ op[a].doc \in Shelf!Saved' => docs'[op[a].doc].of = op[a].of
                 /\ \A b \in Clients : Writes(op[b]) /\ op[b].doc = op[a].doc => op[b].of = op[a].of
      <4>1. /\ WritesWhole(op[a]) /\ op[a].doc \in Ids
            /\ op[a].doc \in Shelf!Saved => docs[op[a].doc].of = op[a].of
            /\ \A b \in Clients : Writes(op[b]) /\ op[b].doc = op[a].doc => op[b].of = op[a].of
        BY <3>1 DEF TextsInv, OneText, WritesWhole
      <4> QED
        BY <2>2, <2>3, <4>1
    <3> QED
      BY <2>1, <3>1 DEF OneText
  <2>5. PassagesAreWhole'
    <3>1. chunks'[doc] = Shelf!NoChunks /\ doc \notin Shelf!Saved'
      BY <1>t, <2>1, <2>2 DEF Shelf!Saved
    <3>2. ASSUME NEW e \in Ids
          PROVE  /\ e \in Shelf!Saved' => docs'[e].of \in {Editions[i] : i \in DOMAIN Editions}
                 /\ chunks'[e] # Shelf!NoChunks =>
                      e \in Shelf!Saved' /\ CutWhole(chunks'[e].passages, Wording[docs'[e].of])
      <4>1. CASE e = doc
        BY <3>1, <4>1
      <4>2. CASE e # doc
        <5>1. /\ e \in Shelf!Saved => docs[e].of \in {Editions[i] : i \in DOMAIN Editions}
              /\ chunks[e] # Shelf!NoChunks =>
                   e \in Shelf!Saved /\ CutWhole(chunks[e].passages, Wording[docs[e].of])
          BY DEF TextsInv, PassagesAreWhole
        <5> QED
          BY <2>2, <2>3, <4>2, <5>1
      <4> QED
        BY <4>1, <4>2
    <3> QED
      BY <3>2 DEF PassagesAreWhole
  <2> QED
    BY <1>t, <2>1, <2>4, <2>5 DEF TextsInv
<1>10. ASSUME NEW c \in Clients, Shelf!Search(c) PROVE TextsInv'
  <2>1. PICK doc, space, by :
          op' = [op EXCEPT ![c] = [at |-> "answered", doc |-> doc, space |-> space, model |-> by]]
    BY <1>10 DEF Shelf!Search
  <2> DEFINE o == [at |-> "answered", doc |-> doc, space |-> space, model |-> by]
  <2>2. ~Writes(o)
    BY DEF Writes
  <2> HIDE DEF o
  <2>3. op' = [op EXCEPT ![c] = o] /\ UNCHANGED <<docs, chunks, file>>
    BY <1>10, <2>1 DEF Shelf!Search, o
  <2> QED
    BY <1>n, <2>2, <2>3
<1>11. ASSUME NEW c \in Clients, Shelf!Quote(c) \/ Shelf!Kill(c) PROVE TextsInv'
  BY <1>11, <1>o DEF Shelf!Quote, Shelf!Kill
<1> QED
  BY <1>1, <1>2, <1>r, <1>3, <1>4, <1>5, <1>6, <1>7, <1>8, <1>9, <1>10, <1>11 DEF Shelf!Next

\* The inductive invariant of the passages: all who write a document agree, with each other
\* and with its row, on the text, and have it whole when they cut it.
THEOREM TextsInvariant == Shelf!Spec => [](ShelfInv /\ TextsInv)
<1> QED
  BY ShelfStart, ShelfStep, TextsStart, TextsStep, PTL DEF Shelf!Spec

\* chunk, of domain/knowledge/chunking.py, and reindex: wherever the paragraphs and
\* sentences of a text end, for every length of a passage and of the overlap, and however
\* often a document is joined and cut again by however many, a stretch of the text that is
\* no longer than the overlap and one unit is whole in one passage.
THEOREM NothingIsCutOut == Shelf!Spec => []NothingCutOut
<1>1. ShelfInv /\ TextsInv => NothingCutOut
  BY DEF NothingCutOut, Shelf!NothingCutOut, TextsInv, PassagesAreWhole, CutWhole, Shelf!Saved
<1> QED
  BY <1>1, TextsInvariant, PTL

-----------------------------------------------------------------------------
(* The four side by side *)

\* The parts do not disturb each other: what the four of them do together is, of each, a
\* behaviour of it alone.
THEOREM PartsMoveAlone == AllSpec => Spec /\ Places!Spec /\ Kept!Spec /\ Shelf!Spec
<1> DEFINE all == <<part, settings, spaces, kept, shelf>>
<1>1. AllInit => Init /\ Places!Init /\ Kept!Init /\ Shelf!Init
  BY DEF AllInit
<1>2. [AllNext]_all => [Next]_vars
  BY DEF AllNext, settings, vars, store, memory
<1>3. [AllNext]_all => [Places!Next]_Places!vars
  BY DEF AllNext, spaces, Places!vars
<1>4. [AllNext]_all => [Kept!Next]_Kept!vars
  BY DEF AllNext, kept, Kept!vars
<1>5. [AllNext]_all => [Shelf!Next]_Shelf!vars
  BY DEF AllNext, shelf, Shelf!vars
<1> QED
  BY <1>1, <1>2, <1>3, <1>4, <1>5, PTL DEF AllSpec, Spec, Places!Spec, Kept!Spec, Shelf!Spec

\* What a run checks of the four together holds for all values of the constants that
\* the assumptions of MCProviders allow.
THEOREM ProvidersAreSafe ==
  AllSpec => [](/\ RowsHaveTheirKeys /\ OwnFiles /\ NothingForgottenUntold /\ OwnMemoriesOnly
                /\ DeletedTextIsSilent /\ NothingCutOut)
BY PartsMoveAlone, RowsFindTheirKeys, FilesAreOwn, OutcomesStayTold, MemoriesAreOwn,
   DeletedStaysSilent, NothingIsCutOut, PTL
=============================================================================
