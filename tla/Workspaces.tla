------------------------------ MODULE Workspaces ------------------------------
(***************************************************************************)
(* The workspaces of a machine: their rows, the file that says which one   *)
(* is active, what each process was told of them, and the runs whose file  *)
(* tools ask for a root on every call.  The operations of WorkspaceService *)
(* are coroutines of one or several processes, split where they await the  *)
(* database.                                                               *)
(***************************************************************************)
EXTENDS Naturals, FiniteSets

CONSTANTS
  Spaces, Default, \* ids of workspaces; the first one, which cannot be removed
  Roots,           \* directories a person may point a workspace at, beside each
                   \* workspace's own, which has the name of its id
  Processes,       \* the server and the commands beside it
  Servers,         \* those of them that are servers
  Requests, Host,  \* requests under way at once, and the process of each
  Runs,            \* runs, each of the process of its number's request
  MaxChanges,      \* bound: requests made, and runs that entered without one
  MaxKills         \* bound: kills

VARIABLES
  rows,     \* workspaces: "absent", "derived" (no file_root) or a root
  active,   \* ACTIVE_WORKSPACE, Default while nothing was written
  declared, \* LocalWorkspaceContext._declared of each process
  up,       \* processes past prepare()
  req,      \* the coroutine of each request
  run,      \* the workspace each run entered, in which process
  changes, kills,
  named,    \* history: the directories a workspace has had, its own with them
  touched,  \* history: [space, root] of each call of a file tool
  moved,    \* history: runs whose root moved under them
  crossed   \* history: requests overlapped, or were cut off

vars == <<rows, active, declared, up, req, run, changes, kills, named, touched, moved, crossed>>

Values == {"absent", "derived"} \cup Roots
Idle == [op |-> "none", space |-> Default, root |-> "derived", at |-> "idle", seen |-> {}]
Out == [space |-> "none", host |-> "none", root |-> "none"]

\* The directory of a workspace: what its row overrides it with, or its own.
Directory(w, value) == IF value \in Roots THEN value ELSE w

Init ==
  /\ rows = [w \in Spaces |-> IF w = Default THEN "derived" ELSE "absent"]
  /\ active = Default
  /\ declared = [p \in Processes |-> rows] /\ up = Processes
  /\ req = [r \in Requests |-> Idle]
  /\ run = [x \in Runs |-> Out]
  /\ changes = 0 /\ kills = 0
  /\ named = [w \in Spaces |-> {w}] /\ touched = {} /\ moved = {} /\ crossed = FALSE

\* root_for: the directory by the rows this process was told of.  A workspace
\* nobody declared has its own.
RootFor(p, w) == Directory(w, declared[p][w])

\* Fault: the root of the workspace the machine is in.
CurrentIsActive(x) == active

\* LocalWorkspaceContext.current, inside a run.
Current(x) == run[x].space

-----------------------------------------------------------------------------
(* The operations of WorkspaceService. *)

At(r, op, at) == Host[r] \in up /\ req[r].op = op /\ req[r].at = at
GoTo(r, at) == req' = [req EXCEPT ![r].at = at]
End(r) == req' = [req EXCEPT ![r] = Idle]
Still == UNCHANGED <<run, changes, kills, touched, moved, crossed>>

\* What the interface offers, and what a command does: it has no update.
Handlers == {"create", "update", "use", "delete", "list", "submit"}
Commands == {"create", "use", "delete", "list", "submit"}

\* A rename alone is an update to the root that was read.
Ask(r) ==
  /\ Host[r] \in up /\ req[r] = Idle /\ changes < MaxChanges
  /\ \E op \in IF Host[r] \in Servers THEN Handlers ELSE Commands,
        w \in Spaces, root \in Roots \cup {"derived"} :
       /\ op \notin {"create", "update"} => root = "derived"
       /\ op \in {"list", "submit"} => w = Default
       /\ req' = [req EXCEPT ![r] = [op |-> op, space |-> w, root |-> root,
                                     at |-> IF op \in {"list", "submit"} THEN "ensure" ELSE "get",
                                     seen |-> {}]]
  /\ changes' = changes + 1
  /\ crossed' = (crossed \/ \E s \in Requests : req[s] # Idle)
  /\ UNCHANGED <<rows, active, declared, up, run, kills, named, touched, moved>>

\* repository.get: a name that is taken refuses a create, one that is unknown
\* refuses the others; the first workspace refuses its removal.
Get(r) ==
  /\ \E op \in {"create", "update", "use", "delete"} : At(r, op, "get")
  /\ LET q == req[r]
         there == rows[q.space] # "absent"
         refused == CASE q.op = "create" -> there
                      [] q.op = "delete" -> q.space = Default
                      [] OTHER -> ~there
         next == CASE q.op = "use" -> "ensure" [] q.op = "delete" -> "remove" [] OTHER -> "save"
     IN  IF refused THEN End(r) ELSE GoTo(r, next)
  /\ UNCHANGED <<rows, active, declared, up, named>> /\ Still

\* save: an upsert, of a create as of an update.
Save(r) ==
  /\ At(r, "create", "save") \/ At(r, "update", "save")
  /\ rows' = [rows EXCEPT ![req[r].space] = req[r].root]
  /\ named' = [named EXCEPT ![req[r].space] = @ \cup {Directory(req[r].space, req[r].root)}]
  /\ GoTo(r, "ensure")
  /\ UNCHANGED <<active, declared, up>> /\ Still

Remove(r) ==
  /\ At(r, "delete", "remove")
  /\ rows' = [rows EXCEPT ![req[r].space] = "absent"]
  /\ GoTo(r, IF rows[req[r].space] = "absent" THEN "ensure" ELSE "land")
  /\ UNCHANGED <<active, declared, up, named>> /\ Still

\* Removing the active workspace lands on the default one.
Land(r) ==
  /\ At(r, "delete", "land")
  /\ active' = IF active = req[r].space THEN Default ELSE active
  /\ GoTo(r, "ensure")
  /\ UNCHANGED <<rows, declared, up, named>> /\ Still

-----------------------------------------------------------------------------
(* list(): ensure_default, the rows, and what this process is told of them.  *)

Listing(r, at) == Host[r] \in up /\ req[r].at = at

EnsureDefault(r) ==
  /\ Listing(r, "ensure")
  /\ rows' = [rows EXCEPT ![Default] = IF @ = "absent" THEN "derived" ELSE @]
  /\ GoTo(r, "read")
  /\ UNCHANGED <<active, declared, up, named>> /\ Still

ReadRows(r) ==
  /\ Listing(r, "read")
  /\ req' = [req EXCEPT ![r].at = "declare", ![r].seen = {rows}]
  /\ UNCHANGED <<rows, active, declared, up, named>> /\ Still

\* The runs of a process whose root is no longer the one they started with.
Moves(p, told) ==
  {x \in Runs : run[x].host = p /\ run[x].root # Directory(run[x].space, told[run[x].space])}

\* declare, and the rest of the operation up to its end: use() writes the file,
\* active() answers with what the file names among the rows it just read.
Declare(r) ==
  /\ Listing(r, "declare")
  /\ LET q == req[r]
         told == CHOOSE s \in q.seen : TRUE
         p == Host[r]
         here == IF told[active] # "absent" THEN active ELSE Default
     IN  /\ declared' = [declared EXCEPT ![p] = told]
         /\ moved' = moved \cup Moves(p, told)
         /\ active' = IF q.op = "use" THEN q.space ELSE active
         /\ \/ /\ q.op = "submit"
               /\ \E x \in Runs :
                    /\ run[x] = Out
                    /\ run' = [run EXCEPT ![x] = [space |-> here, host |-> p,
                                                  root |-> Directory(here, told[here])]]
            \/ /\ q.op = "submit" => \A x \in Runs : run[x] # Out
               /\ UNCHANGED run
  /\ End(r)
  /\ UNCHANGED <<rows, up, changes, kills, named, touched, crossed>>

-----------------------------------------------------------------------------
(* The runs, and the processes. *)

\* A request that names its workspace, to the server, and the server's scheduler
\* in its own: nothing is listed, and nobody looks whether the workspace is there.
Enter(x) ==
  /\ run[x] = Out /\ changes < MaxChanges
  /\ \E p \in Servers \cap up, w \in Spaces :
       run' = [run EXCEPT ![x] = [space |-> w, host |-> p, root |-> RootFor(p, w)]]
  /\ changes' = changes + 1
  /\ UNCHANGED <<rows, active, declared, up, req, kills, named, touched, moved, crossed>>

\* A file tool asks for its root at the moment of the call: current_root().
Touch(x) ==
  /\ run[x] # Out /\ run[x].host \in up
  /\ touched' = touched \cup {[space |-> run[x].space, root |-> RootFor(run[x].host, Current(x))]}
  /\ UNCHANGED <<rows, active, declared, up, req, run, changes, kills, named, moved, crossed>>

Finish(x) ==
  /\ run[x] # Out /\ run[x].host \in up
  /\ run' = [run EXCEPT ![x] = Out]
  /\ UNCHANGED <<rows, active, declared, up, req, changes, kills, named, touched, moved, crossed>>

Kill(p) ==
  /\ kills < MaxKills /\ p \in up
  /\ kills' = kills + 1
  /\ up' = up \ {p}
  /\ crossed' = (crossed \/ \E r \in Requests : Host[r] = p /\ req[r] # Idle)
  /\ req' = [r \in Requests |-> IF Host[r] = p THEN Idle ELSE req[r]]
  /\ declared' = [declared EXCEPT ![p] = [w \in Spaces |-> "absent"]]
  /\ UNCHANGED <<rows, active, run, changes, named, touched, moved>>

\* prepare(): the workspaces are listed before anything runs; `resume` then
\* carries the process's tasks on, each in the workspace of its row.
Start(p) ==
  /\ p \notin up
  /\ declared' = [declared EXCEPT ![p] = rows]
  /\ run' = [x \in Runs |-> IF run[x].host # p THEN run[x]
                            ELSE [run[x] EXCEPT !.root = Directory(run[x].space, rows[run[x].space])]]
  /\ up' = up \cup {p}
  /\ UNCHANGED <<rows, active, req, changes, kills, named, touched, moved, crossed>>

Next ==
  \/ \E r \in Requests :
       \/ Ask(r) \/ Get(r) \/ Save(r) \/ Remove(r) \/ Land(r)
       \/ EnsureDefault(r) \/ ReadRows(r) \/ Declare(r)
  \/ \E x \in Runs : Enter(x) \/ Touch(x) \/ Finish(x)
  \/ \E p \in Processes : Kill(p) \/ Start(p)

Spec == Init /\ [][Next]_vars

-----------------------------------------------------------------------------
(* What holds. *)

\* A run's file tools open only its workspace's own directory or one that this
\* workspace was given, never another's, however the machine is switched under it
\* (LocalWorkspaceContext.enter) and whichever workspace the run was started in.
OwnFiles == \A c \in touched : c.root \in named[c.space]

\* Once the requests are over, and none overlapped or was cut off, the machine is
\* in a workspace that exists, and the process that changed it knows the rows.
SwitchesSettle ==
  (~crossed /\ \A r \in Requests : req[r] = Idle) =>
    /\ rows[active] # "absent"
    /\ kills = 0 => \E p \in up : declared[p] = rows

-----------------------------------------------------------------------------
(* What the code says and does not keep. *)

\* "The run that is already going keeps the root it started with"
\* (infrastructure/tools/filesystem.py:41-43): it keeps its workspace, and its
\* root moves when that workspace is pointed elsewhere or removed.
RunsKeepTheirRoot == moved = {}

\* "The context learns the new root before anything asks" (service.py:100): the
\* rows are read and declared in two steps, and of two lists that overlap the
\* older may be declared last.
ToldOfTheRows == (\A r \in Requests : req[r] = Idle) => \A p \in up : declared[p] = rows

\* "Removing the active workspace lands on the default one" (service.py:21-23): a
\* switch that looked the workspace up before it was removed names it afterwards.
ActiveExists == (\A r \in Requests : req[r] = Idle) => rows[active] # "absent"
================================================================================
