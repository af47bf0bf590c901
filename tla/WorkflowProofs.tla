---------------------------- MODULE WorkflowProofs ----------------------------
(***************************************************************************)
(* What the rows of a workflow run say of its steps and of its tasks, for  *)
(* every declaration: nothing is started on a gap, and the verdict tells   *)
(* what was done, whatever fails and whenever the process dies.  What a    *)
(* plan makes of a model's answer, whoever is employed.  What the model of *)
(* an employee is sent and what becomes of its calls and its charges,      *)
(* whatever the tools are called.                                          *)
(***************************************************************************)
EXTENDS MCWorkflow, FiniteSetTheorems, WellFoundedInduction, TLAPS

Verdicts == {"COMPLETED", "FAILED", "CANCELLED"}
StepRows == [step : Steps, task : Nat, attempts : Nat, succeeded : BOOLEAN]
TaskRows == [step : Steps, attempt : Nat, status : {"open"} \cup Verdicts]

\* Where the engine is on a step, and where the order is settled.
OnAStep == {"starting", "working", "recording"}
Running == OnAStep \cup {"stopping", "finishing"}
Settled == {"opening"} \cup Running
Places == {"loading", "ordering"} \cup Settled \cup Ended

Types ==
  /\ declared \in Declarations
  /\ pc \in Places
  /\ ordered \in Seq(Steps) /\ ready \in SUBSET Steps
  /\ run \in [status : {"RUNNING", "COMPLETED", "FAILED"}, steps : Seq(StepRows)]
  /\ attempt \in Nat /\ outcome \in [task : Nat, attempts : Nat, succeeded : BOOLEAN]
  /\ tasks \subseteq TaskRows

Done == Len(run.steps)
Failed(k) == ~run.steps[k].succeeded /\ Stops(run.steps[k].step)
Named(x, k) == declared[ordered[k]].name = x

\* A step comes once, after everything it needs.
Order ==
  /\ \A k \in 1..Len(ordered) :
       \A x \in declared[ordered[k]].needs : \E j \in 1..Len(ordered) : j < k /\ Named(x, j)
  /\ \A j, k \in 1..Len(ordered) : ordered[j] = ordered[k] => j = k
  /\ \A i \in ready : \A k \in 1..Len(ordered) : ordered[k] # i
  /\ \A i \in ready : \A x \in declared[i].needs : \E j \in 1..Len(ordered) : Named(x, j)
  /\ pc = "ordering" => Steps # {}
  /\ pc \in Settled => Steps # {} /\ \A i \in Steps : \E k \in 1..Len(ordered) : ordered[k] = i

\* The row is the run the engine holds, from the first save on.
RowIsRun ==
  /\ row.status = "NONE" => /\ pc \notin Running
                            /\ run.steps = << >> /\ tasks = {} /\ outcome = Untried
  /\ row.status # "NONE" => row = run
  /\ pc \in {"loading", "ordering", "opening"} => row.status = "NONE"
  /\ pc \notin Ended => run.status = "RUNNING"

\* The steps of the run are the first of the order; a STOP step that failed is
\* the last of them.
StepsInOrder ==
  /\ Done <= Len(ordered)
  /\ \A k \in 1..Done : run.steps[k].step = ordered[k]
  /\ \A k \in 1..Done : Failed(k) => k = Done /\ pc \notin OnAStep \cup {"finishing"}
  /\ pc \in OnAStep => Done < Len(ordered)
  /\ pc = "finishing" => Done = Len(ordered)
  /\ pc = "stopping" => Done # 0 /\ Failed(Done)
  /\ run.status = "COMPLETED" =>
       /\ \A i \in Steps : \E k \in 1..Done : run.steps[k].step = i
       /\ \A k \in 1..Done : ~Failed(k)
  /\ run.status = "FAILED" => Done # 0 /\ Failed(Done)

\* A task belongs to a step of the run, or to the one after a run that goes on.
Belongs(t) == \E j \in 1..Len(ordered) :
  /\ t.step = ordered[j]
  /\ j <= Done \/ (j = Done + 1 /\ \A k \in 1..Done : ~Failed(k))

Success(i, n) == [step |-> i, attempt |-> n, status |-> "COMPLETED"]

TasksBelong ==
  /\ \A t \in tasks : Belongs(t)
  /\ \A k \in 1..Done : run.steps[k].succeeded =>
       Success(run.steps[k].step, run.steps[k].task) \in tasks
  /\ pc = "working" => [step |-> Current, attempt |-> attempt, status |-> "open"] \in tasks
  /\ pc \in {"starting", "working"} => ~outcome.succeeded
  /\ pc = "recording" /\ outcome.succeeded => Success(Current, outcome.task) \in tasks

\* The inductive invariant: the two properties relate rows only, and rows say
\* nothing of the order and of the await the engine is at.
IndInv == Types /\ Order /\ RowIsRun /\ StepsInOrder /\ TasksBelong

USE DEF Verdicts, OnAStep, Running, Settled, Places, Ended

-----------------------------------------------------------------------------
(* Sequences and numbers, apart from the specification *)

LEMMA Appended ==
  ASSUME NEW S, NEW q \in Seq(S), NEW x \in S
  PROVE  /\ Append(q, x) \in Seq(S) /\ Len(q) \in Nat
         /\ Len(Append(q, x)) = Len(q) + 1
         /\ \A k \in 1..Len(q) : Append(q, x)[k] = q[k] /\ q[k] \in S
         /\ Append(q, x)[Len(q) + 1] = x
<1>1. Append(q, x) \in Seq(S) /\ Len(q) \in Nat /\ Len(Append(q, x)) = Len(q) + 1
  OBVIOUS
<1>2. \A k \in 1..Len(q) : Append(q, x)[k] = q[k] /\ q[k] \in S
  OBVIOUS
<1>3. Append(q, x)[Len(q) + 1] = x
  OBVIOUS
<1> QED BY <1>1, <1>2, <1>3

LEMMA Counting ==
  ASSUME NEW n \in Nat
  PROVE  /\ n + 1 \in Nat /\ n + 1 # 0 /\ n + 1 \in 1..(n + 1) /\ n + 1 \notin 1..n
         /\ \A k \in 1..(n + 1) : k \in 1..n \/ k = n + 1
         /\ \A k \in 1..n : k \in 1..(n + 1) /\ k < n + 1 /\ k # n + 1
         /\ \A m \in Nat : n < m => n + 1 <= m /\ n + 1 \in 1..m
         /\ \A m \in Nat : n <= m /\ n # m => n < m
OBVIOUS

\* Where the step the engine is at comes from.
LEMMA CurrentStep ==
  ASSUME IndInv, pc \in OnAStep
  PROVE  /\ Done \in Nat /\ Len(ordered) \in Nat
         /\ Done + 1 \in 1..Len(ordered)
         /\ Current = ordered[Done + 1] /\ Current \in Steps
         /\ \A k \in 1..Done : k \in 1..Len(ordered) /\ ordered[k] # Current
<1>1. run.steps \in Seq(StepRows) /\ ordered \in Seq(Steps)
  BY DEF IndInv, Types
<1>2. Done \in Nat /\ Len(ordered) \in Nat
  BY <1>1 DEF Done
<1>3. Done < Len(ordered)
  BY DEF IndInv, StepsInOrder
<1>4. Done + 1 \in 1..Len(ordered) /\ Current = ordered[Done + 1]
  BY <1>2, <1>3, Counting DEF Current, Done
<1>5. Current \in Steps
  BY <1>1, <1>4
<1>6. \A k \in 1..Done : k \in 1..Len(ordered) /\ k # Done + 1
  BY <1>2, <1>3
<1> QED BY <1>2, <1>4, <1>5, <1>6 DEF IndInv, Order

-----------------------------------------------------------------------------
(* Initially, and while the order is made *)

LEMMA InitIndInv == Init => IndInv
<1> SUFFICES ASSUME Init PROVE IndInv
  OBVIOUS
<1> USE DEF Init
<1>1. Len(ordered) = 0 /\ Done = 0 /\ run.steps = << >> /\ run.status = "RUNNING"
  BY DEF Done
<1>2. Types
  BY DEF Types, Untried
<1>3. Order
  BY <1>1 DEF Order
<1>4. RowIsRun
  BY <1>1 DEF RowIsRun
<1>5. StepsInOrder
  BY <1>1 DEF StepsInOrder
<1>6. TasksBelong
  BY <1>1 DEF TasksBelong
<1> QED BY <1>2, <1>3, <1>4, <1>5, <1>6 DEF IndInv

\* Nothing is written and nothing recorded before the order is made: whatever
\* the order becomes meanwhile, the rest of the invariant says nothing yet.
LEMMA NothingYet ==
  ASSUME IndInv, pc \in {"loading", "ordering"}, pc' \in {"ordering", "opening", "refused", "dead"},
         UNCHANGED <<declared, run, row, attempt, outcome, tasks, lost>>,
         ordered' \in Seq(Steps)
  PROVE  RowIsRun' /\ StepsInOrder' /\ TasksBelong'
<1>1. /\ run.steps = << >> /\ tasks = {} /\ run.status = "RUNNING" /\ row.status = "NONE"
      /\ run.steps' = << >> /\ tasks' = {} /\ run.status' = "RUNNING" /\ row.status' = "NONE"
      /\ outcome' = Untried /\ Len(ordered') \in Nat
  BY DEF IndInv, RowIsRun
<1>2. Done' = 0
  BY <1>1 DEF Done
<1>3. RowIsRun'
  BY <1>1 DEF RowIsRun, Untried
<1>4. StepsInOrder'
  BY <1>1, <1>2 DEF StepsInOrder
<1>5. TasksBelong'
  BY <1>1, <1>2 DEF TasksBelong
<1> QED BY <1>3, <1>4, <1>5

LEMMA LoadKeeps == ASSUME IndInv, Load PROVE IndInv'
<1> USE DEF Load
<1>1. ordered' \in Seq(Steps) /\ pc' \in {"ordering", "refused"}
  BY DEF IndInv, Types
<1>2. Types'
  BY <1>1 DEF IndInv, Types, Steps, StepRows, TaskRows
<1>3. Order'
  <2>1. pc' = "ordering" => Steps' # {}
    <3> SUFFICES ASSUME pc' = "ordering" PROVE Steps # {}
      BY DEF Steps
    <3>1. declared # << >>
      BY DEF Loadable
    <3>2. DOMAIN declared = 1..Len(declared) /\ Len(declared) \in Nat
      BY DeclarationsAssumption DEF IndInv, Types
    <3> QED BY <3>1, <3>2 DEF Steps
  <2> QED BY <1>1, <2>1 DEF IndInv, Order, Named, Steps
<1> QED BY <1>1, <1>2, <1>3, NothingYet DEF IndInv

LEMMA LayerKeeps == ASSUME IndInv, Layer PROVE IndInv'
<1> USE DEF Layer
<1>1. /\ ordered' \in Seq(Steps) /\ ordered \in Seq(Steps)
      /\ pc' \in {"ordering", "opening", "refused"}
  BY DEF IndInv, Types
<1>2. Types'
  BY <1>1 DEF IndInv, Types, Steps, StepRows, TaskRows, ReadyNow
<1>3. \A i \in Placed : \E k \in 1..Len(ordered) : ordered[k] = i
  BY <1>1 DEF Placed
<1>4. \A k \in 1..Len(ordered) : ordered[k] \in Placed
  BY <1>1 DEF Placed
<1>5. \A i \in ready' :
        /\ \A k \in 1..Len(ordered) : ordered[k] # i
        /\ \A x \in declared[i].needs : \E j \in 1..Len(ordered) : Named(x, j)
  <2> SUFFICES ASSUME NEW i \in ReadyNow
               PROVE  /\ \A k \in 1..Len(ordered) : ordered[k] # i
                      /\ \A x \in declared[i].needs : \E j \in 1..Len(ordered) : Named(x, j)
    OBVIOUS
  <2>1. i \notin Placed /\ declared[i].needs \subseteq NamesOf(Placed)
    BY DEF ReadyNow
  <2> QED BY <1>3, <1>4, <2>1 DEF NamesOf, Named
<1>6. pc' \in Settled => Steps # {} /\ \A i \in Steps : \E k \in 1..Len(ordered) : ordered[k] = i
  <2>1. Steps # {}
    BY DEF IndInv, Order
  <2> QED BY <1>3, <2>1
<1>7. Order'
  BY <1>5, <1>6 DEF IndInv, Order, Named, Steps
<1> QED BY <1>1, <1>2, <1>7, NothingYet DEF IndInv

LEMMA ExtendKeeps == ASSUME IndInv, Extend PROVE IndInv'
<1>1. PICK i \in ready : ordered' = Append(ordered, i) /\ ready' = ready \ {i}
  BY DEF Extend
<1>2. /\ declared' = declared /\ pc = "ordering" /\ pc' = "ordering"
      /\ UNCHANGED <<run, row, attempt, outcome, tasks, lost>>
  BY DEF Extend
<1> DEFINE n == Len(ordered)
<1>3. /\ ordered \in Seq(Steps) /\ i \in Steps /\ ready \subseteq Steps
  BY <1>1 DEF IndInv, Types
<1>4. /\ ordered' \in Seq(Steps) /\ n \in Nat /\ Len(ordered') = n + 1
      /\ \A k \in 1..n : ordered'[k] = ordered[k]
      /\ ordered'[n + 1] = i
  BY <1>1, <1>3, Appended
<1>5. Types'
  BY <1>1, <1>2, <1>4 DEF IndInv, Types, Steps, StepRows, TaskRows
<1>6. Order'
  <2> HIDE DEF n
  <2>1. \A x : \A j \in 1..n : Named(x, j) => j \in 1..(n + 1) /\ j < n + 1 /\ Named(x, j)'
    BY <1>2, <1>4, Counting DEF Named
  <2>2. \A k \in 1..(n + 1) : \A x \in declared[ordered'[k]].needs :
          \E j \in 1..(n + 1) : j < k /\ Named(x, j)'
    <3> SUFFICES ASSUME NEW k \in 1..(n + 1), NEW x \in declared[ordered'[k]].needs
                 PROVE  \E j \in 1..(n + 1) : j < k /\ Named(x, j)'
      OBVIOUS
    <3>1. CASE k \in 1..n
      <4>1. \E j \in 1..n : j < k /\ Named(x, j)
        BY <1>4, <3>1 DEF IndInv, Order, n
      <4> QED BY <2>1, <4>1
    <3>2. CASE k = n + 1
      <4>1. \E j \in 1..n : Named(x, j)
        BY <1>1, <1>4, <3>2 DEF IndInv, Order, n
      <4> QED BY <2>1, <3>2, <4>1
    <3> QED BY <1>4, <3>1, <3>2, Counting
  <2>3. \A k \in 1..n : ordered[k] # i
    BY <1>1 DEF IndInv, Order, n
  <2>4. \A j, k \in 1..(n + 1) : ordered'[j] = ordered'[k] => j = k
    <3> SUFFICES ASSUME NEW j \in 1..(n + 1), NEW k \in 1..(n + 1), ordered'[j] = ordered'[k]
                 PROVE  j = k
      OBVIOUS
    <3>1. CASE j \in 1..n /\ k \in 1..n
      BY <1>4, <3>1 DEF IndInv, Order, n
    <3>2. CASE j = n + 1 \/ k = n + 1
      BY <1>4, <2>3, <3>2, Counting
    <3> QED BY <1>4, <3>1, <3>2, Counting
  <2>5. \A r \in ready' : \A k \in 1..(n + 1) : ordered'[k] # r
    <3>1. \A r \in ready : \A k \in 1..n : ordered[k] # r
      BY DEF IndInv, Order, n
    <3> QED BY <1>1, <1>4, <3>1, Counting
  <2>6. \A r \in ready' : \A x \in declared[r].needs : \E j \in 1..(n + 1) : Named(x, j)'
    <3>1. \A r \in ready : \A x \in declared[r].needs : \E j \in 1..n : Named(x, j)
      BY DEF IndInv, Order, n
    <3> QED BY <1>1, <2>1, <3>1
  <2>7. pc' = "ordering" => Steps' # {}
    BY <1>2 DEF IndInv, Order, Steps
  <2> QED BY <1>2, <1>4, <2>2, <2>4, <2>5, <2>6, <2>7 DEF Order
<1> QED BY <1>2, <1>4, <1>5, <1>6, NothingYet DEF IndInv

\* From here on the order stays what it is.
LEMMA OrderStays ==
  ASSUME IndInv, UNCHANGED <<declared, ordered, ready>>,
         pc' # "ordering", pc' \in Settled => pc \in Settled
  PROVE  Order'
BY DEF IndInv, Order, Named, Steps

-----------------------------------------------------------------------------
(* The engine at work *)

\* The first save: the row is the run, which has no steps yet.
LEMMA OpenKeeps == ASSUME IndInv, Open PROVE IndInv'
<1>1. /\ UNCHANGED <<declared, ordered, ready, attempt, outcome, tasks, lost>>
      /\ run' = run /\ row' = run /\ pc = "opening" /\ pc' = "starting"
  BY DEF Open, Save
<1>2. /\ run.steps = << >> /\ tasks = {} /\ outcome = Untried /\ run.status = "RUNNING"
  BY <1>1 DEF IndInv, RowIsRun
<1>3. Done = 0 /\ Done' = 0
  BY <1>1, <1>2 DEF Done
<1>4. 0 < Len(ordered) /\ Len(ordered) \in Nat
  <2>1. ordered \in Seq(Steps) /\ \E k \in 1..Len(ordered) : TRUE
    BY <1>1 DEF IndInv, Types, Order
  <2> QED BY <2>1
<1>5. Types'
  BY <1>1 DEF IndInv, Types, Steps, StepRows, TaskRows
<1>6. Order'
  BY <1>1, OrderStays
<1>7. RowIsRun'
  BY <1>1, <1>2 DEF RowIsRun
<1>8. StepsInOrder'
  BY <1>1, <1>2, <1>3, <1>4 DEF StepsInOrder
<1>9. TasksBelong'
  BY <1>1, <1>2, <1>3 DEF TasksBelong, Untried
<1> QED BY <1>5, <1>6, <1>7, <1>8, <1>9 DEF IndInv

\* While a step is worked on, run and row stay: what the step's tasks are is all
\* that changes.
LEMMA WorkingKeeps ==
  ASSUME IndInv, pc \in {"starting", "working"}, pc' \in OnAStep,
         UNCHANGED <<declared, ordered, ready, run, row>>,
         attempt' \in Nat, outcome' \in [task : Nat, attempts : Nat, succeeded : BOOLEAN],
         tasks' \subseteq TaskRows,
         \A t \in tasks' : t.step = Current \/ \E u \in tasks : u.step = t.step,
         \A t \in tasks : t.step # Current => t \in tasks',
         pc' = "working" => [step |-> Current, attempt |-> attempt', status |-> "open"] \in tasks',
         pc' \in {"starting", "working"} => ~outcome'.succeeded,
         pc' = "recording" /\ outcome'.succeeded => Success(Current, outcome'.task) \in tasks'
  PROVE  IndInv'
<1>1. /\ Done' = Done /\ Current' = Current
      /\ \A k \in 1..Done : Failed(k)' <=> Failed(k)
  BY DEF Done, Current, Failed, Stops
<1>2. Types'
  BY DEF IndInv, Types, Steps, StepRows, TaskRows
<1>3. Order'
  BY OrderStays
<1>4. RowIsRun'
  BY DEF IndInv, RowIsRun
<1>5. /\ Done <= Len(ordered) /\ \A k \in 1..Done : run.steps[k].step = ordered[k]
      /\ \A k \in 1..Done : ~Failed(k)
      /\ Done < Len(ordered) /\ run.status = "RUNNING"
  BY DEF IndInv, StepsInOrder, RowIsRun
<1>6. StepsInOrder'
  BY <1>1, <1>5 DEF StepsInOrder
<1>7. \A t \in tasks' : Belongs(t)'
  <2> SUFFICES ASSUME NEW t \in tasks' PROVE Belongs(t)'
    OBVIOUS
  <2>1. Belongs(t)
    <3>1. CASE t.step = Current
      BY <1>5, <3>1, CurrentStep DEF Belongs
    <3>2. CASE \E u \in tasks : u.step = t.step
      BY <3>2 DEF IndInv, TasksBelong, Belongs
    <3> QED BY <3>1, <3>2
  <2> QED BY <1>1, <2>1 DEF Belongs
<1>8. \A k \in 1..Done : run.steps[k].succeeded =>
        Success(run.steps[k].step, run.steps[k].task) \in tasks'
  <2> SUFFICES ASSUME NEW k \in 1..Done, run.steps[k].succeeded
               PROVE  Success(run.steps[k].step, run.steps[k].task) \in tasks'
    OBVIOUS
  <2>1. Success(run.steps[k].step, run.steps[k].task) \in tasks
    BY DEF IndInv, TasksBelong
  <2>2. run.steps[k].step # Current
    BY CurrentStep DEF IndInv, StepsInOrder
  <2> QED BY <2>1, <2>2 DEF Success
<1>9. TasksBelong'
  BY <1>1, <1>7, <1>8 DEF TasksBelong, Success
<1> QED BY <1>2, <1>3, <1>4, <1>6, <1>9 DEF IndInv

LEMMA RaisedTypes ==
  ASSUME attempt \in Nat, outcome \in [task : Nat, attempts : Nat, succeeded : BOOLEAN],
         ~outcome.succeeded, Raised
  PROVE  /\ pc' \in {"starting", "recording"} /\ attempt' \in Nat
         /\ outcome' \in [task : Nat, attempts : Nat, succeeded : BOOLEAN]
         /\ ~outcome'.succeeded
BY Counting DEF Raised, Tried

LEMMA SubmitKeeps == ASSUME IndInv, Submit PROVE IndInv'
<1>1. /\ pc = "starting" /\ UNCHANGED <<declared, ordered, ready, run, row>>
      /\ attempt \in Nat /\ outcome \in [task : Nat, attempts : Nat, succeeded : BOOLEAN]
      /\ tasks \subseteq TaskRows /\ ~outcome.succeeded
      /\ Current \in Steps
  BY CurrentStep DEF Submit, IndInv, Types, TasksBelong
<1>2. CASE /\ tasks' = tasks \cup {[step |-> Current, attempt |-> attempt, status |-> "open"]}
           /\ pc' = "working" /\ UNCHANGED <<attempt, outcome>>
  <2>1. tasks' \subseteq TaskRows
    BY <1>1, <1>2 DEF TaskRows
  <2>2. \A t \in tasks' : t.step = Current \/ \E u \in tasks : u.step = t.step
    BY <1>2
  <2> QED BY <1>1, <1>2, <2>1, <2>2, WorkingKeeps
<1>3. CASE Raised /\ tasks' = tasks
  <2>1. /\ pc' \in {"starting", "recording"} /\ attempt' \in Nat
        /\ outcome' \in [task : Nat, attempts : Nat, succeeded : BOOLEAN]
        /\ ~outcome'.succeeded
    BY <1>1, <1>3, RaisedTypes
  <2> QED BY <1>1, <1>3, <2>1, WorkingKeeps
<1> QED BY <1>2, <1>3 DEF Submit

LEMMA EndingRows ==
  ASSUME IndInv, pc = "working", NEW status \in {"open"} \cup Verdicts,
         tasks' = Ending(status)
  PROVE  /\ tasks' \subseteq TaskRows
         /\ \A t \in tasks' : t.step = Current \/ \E u \in tasks : u.step = t.step
         /\ \A t \in tasks : t.step # Current => t \in tasks'
         /\ [step |-> Current, attempt |-> attempt, status |-> status] \in tasks'
<1>1. tasks \subseteq TaskRows
  BY DEF IndInv, Types
<1>2. \A t \in tasks : [t EXCEPT !.status = status] \in TaskRows
                      /\ [t EXCEPT !.status = status].step = t.step
  BY <1>1 DEF TaskRows
<1>3. tasks' \subseteq TaskRows
  BY <1>1, <1>2 DEF Ending
<1>4. \A t \in tasks' : t.step = Current \/ \E u \in tasks : u.step = t.step
  BY <1>2 DEF Ending
<1>5. \A t \in tasks : t.step # Current => t \in tasks'
  BY DEF Ending, Mine
<1>6. [step |-> Current, attempt |-> attempt, status |-> status] \in tasks'
  <2> DEFINE o == [step |-> Current, attempt |-> attempt, status |-> "open"]
  <2>1. o \in tasks
    BY DEF IndInv, TasksBelong
  <2>2. Mine(o) /\ [o EXCEPT !.status = status] = [step |-> Current, attempt |-> attempt, status |-> status]
    BY DEF Mine
  <2> QED BY <2>1, <2>2 DEF Ending
<1> QED BY <1>3, <1>4, <1>5, <1>6

LEMMA SettleKeeps == ASSUME IndInv, Settle PROVE IndInv'
<1>1. PICK status \in Verdicts :
        /\ tasks' = Ending(status)
        /\ Tried([task |-> attempt, attempts |-> attempt, succeeded |-> status = "COMPLETED"])
  BY DEF Settle
<1>2. /\ pc = "working" /\ UNCHANGED <<declared, ordered, ready, run, row>> /\ attempt \in Nat
  BY DEF Settle, IndInv, Types
<1>3. /\ tasks' \subseteq TaskRows
      /\ \A t \in tasks' : t.step = Current \/ \E u \in tasks : u.step = t.step
      /\ \A t \in tasks : t.step # Current => t \in tasks'
      /\ [step |-> Current, attempt |-> attempt, status |-> status] \in tasks'
  BY <1>1, <1>2, EndingRows
<1>4. /\ pc' \in {"starting", "recording"} /\ attempt' \in Nat
      /\ outcome' = [task |-> attempt, attempts |-> attempt, succeeded |-> status = "COMPLETED"]
      /\ outcome'.succeeded => pc' = "recording"
  BY <1>1, <1>2, Counting DEF Tried
<1>5. outcome' \in [task : Nat, attempts : Nat, succeeded : BOOLEAN]
  BY <1>2, <1>4
<1>6. outcome'.succeeded => Success(Current, outcome'.task) \in tasks'
  BY <1>3, <1>4 DEF Success
<1> QED BY <1>2, <1>3, <1>4, <1>5, <1>6, WorkingKeeps

LEMMA SettleLostKeeps == ASSUME IndInv, SettleLost PROVE IndInv'
<1>1. PICK status \in {"open"} \cup Verdicts : tasks' = Ending(status)
  BY DEF SettleLost
<1>2. /\ pc = "working" /\ UNCHANGED <<declared, ordered, ready, run, row>> /\ Raised
  BY DEF SettleLost
<1>3. /\ tasks' \subseteq TaskRows
      /\ \A t \in tasks' : t.step = Current \/ \E u \in tasks : u.step = t.step
      /\ \A t \in tasks : t.step # Current => t \in tasks'
  BY <1>1, <1>2, EndingRows
<1>4. /\ pc' \in {"starting", "recording"} /\ attempt' \in Nat
      /\ outcome' \in [task : Nat, attempts : Nat, succeeded : BOOLEAN]
      /\ ~outcome'.succeeded
  BY <1>2, RaisedTypes DEF IndInv, Types, TasksBelong
<1> QED BY <1>2, <1>3, <1>4, WorkingKeeps

\* A step is written down with what its last attempt said of it.
LEMMA RecordKeeps == ASSUME IndInv, Record PROVE IndInv'
<1> DEFINE new == [step |-> Current, task |-> outcome.task, attempts |-> outcome.attempts,
                   succeeded |-> outcome.succeeded]
<1>1. /\ UNCHANGED <<declared, ordered, ready, tasks, lost>>
      /\ pc = "recording" /\ attempt' = 1 /\ outcome' = Untried
      /\ run' = [run EXCEPT !.steps = Append(run.steps, new)] /\ row' = run'
      /\ pc' = AfterStep(Current, run')
  BY DEF Record, Save, WithStep
<1>2. /\ Done \in Nat /\ Len(ordered) \in Nat
      /\ Done + 1 \in 1..Len(ordered) /\ Current = ordered[Done + 1] /\ Current \in Steps
  BY <1>1, CurrentStep
<1>3. /\ run \in [status : {"RUNNING", "COMPLETED", "FAILED"}, steps : Seq(StepRows)]
      /\ outcome \in [task : Nat, attempts : Nat, succeeded : BOOLEAN]
      /\ run.status = "RUNNING" /\ row = run
  BY <1>1 DEF IndInv, Types, RowIsRun
<1>4. new \in StepRows
  BY <1>2, <1>3 DEF StepRows
<1>5. PICK last \in Nat : last = Done + 1 /\ last # 0 /\ last \in 1..Len(ordered)
  BY <1>2, Counting
<1>6. /\ run' \in [status : {"RUNNING", "COMPLETED", "FAILED"}, steps : Seq(StepRows)]
      /\ run'.status = "RUNNING" /\ run'.steps = Append(run.steps, new)
      /\ Done' = last
      /\ \A k \in 1..Done : run'.steps[k] = run.steps[k]
      /\ run'.steps[last] = new
  <2>1. run.steps \in Seq(StepRows)
    BY <1>3
  <2>2. /\ Append(run.steps, new) \in Seq(StepRows)
        /\ Len(Append(run.steps, new)) = Done + 1
        /\ \A k \in 1..Done : Append(run.steps, new)[k] = run.steps[k]
        /\ Append(run.steps, new)[Done + 1] = new
    <3> HIDE DEF new
    <3> QED BY <1>4, <2>1, Appended DEF Done
  <2> HIDE DEF new
  <2>3. /\ run'.steps = Append(run.steps, new) /\ run'.status = "RUNNING"
        /\ run' \in [status : {"RUNNING", "COMPLETED", "FAILED"}, steps : Seq(StepRows)]
    BY <1>1, <1>3, <2>2
  <2>4. Done' = Len(Append(run.steps, new))
    BY <2>3 DEF Done
  <2> QED BY <1>5, <2>2, <2>3, <2>4
<1>7. /\ run'.steps[last].step = Current /\ run'.steps[last].task = outcome.task
      /\ run'.steps[last].succeeded = outcome.succeeded
  <2>1. new.step = Current /\ new.task = outcome.task /\ new.succeeded = outcome.succeeded
    OBVIOUS
  <2> HIDE DEF new
  <2> QED BY <1>6, <2>1
<1>8. \A k \in 1..last : k \in 1..Done \/ k = last
  BY <1>5, <1>2, Counting
<1> HIDE DEF new
<1>9. /\ \A k \in 1..Done : Failed(k)' <=> Failed(k)
      /\ \A k \in 1..Done : ~Failed(k)
      /\ Failed(last)' <=> ~outcome.succeeded /\ declared[Current].onFailure = "STOP"
  <2>1. \A k \in 1..Done : Failed(k)' <=> Failed(k)
    BY <1>1, <1>6 DEF Failed, Stops
  <2>2. \A k \in 1..Done : ~Failed(k)
    BY <1>1 DEF IndInv, StepsInOrder
  <2>3. Failed(last)' <=> ~outcome.succeeded /\ declared[Current].onFailure = "STOP"
    BY <1>1, <1>7 DEF Failed, Stops
  <2> QED BY <2>1, <2>2, <2>3
<1>10. /\ Failed(last)' => pc' = "stopping"
       /\ ~Failed(last)' /\ last = Len(ordered) => pc' = "finishing"
       /\ ~Failed(last)' /\ last # Len(ordered) => pc' = "starting"
  <2>1. Len(run'.steps) = last
    BY <1>6 DEF Done
  <2> QED BY <1>1, <1>9, <2>1 DEF AfterStep
<1>11. pc' \in {"stopping", "finishing", "starting"}
  BY <1>10
<1>12. Types'
  BY <1>1, <1>6, <1>11 DEF IndInv, Types, Steps, StepRows, TaskRows, Untried
<1>13. Order'
  BY <1>1, <1>11, OrderStays
<1>14. RowIsRun'
  BY <1>1, <1>6, <1>11 DEF RowIsRun
<1>15. StepsInOrder'
  <2>1. /\ last <= Len(ordered) /\ (last # Len(ordered) => last < Len(ordered))
    BY <1>5, <1>2, Counting
  <2>2. \A k \in 1..last : run'.steps[k].step = ordered[k]
    <3>1. \A k \in 1..Done : run.steps[k].step = ordered[k]
      BY DEF IndInv, StepsInOrder
    <3>2. \A k \in 1..Done : run'.steps[k].step = ordered[k]
      BY <1>6, <3>1
    <3> QED BY <1>5, <1>2, <1>7, <1>8, <3>2
  <2>3. \A k \in 1..last : Failed(k)' => k = last /\ pc' = "stopping"
    BY <1>9, <1>10, <1>8
  <2>4. /\ pc' = "starting" => last < Len(ordered)
        /\ pc' = "finishing" => last = Len(ordered)
        /\ pc' = "stopping" => Failed(last)'
    BY <1>10, <2>1
  <2>5. UNCHANGED ordered /\ pc' \notin {"working", "recording"}
    BY <1>1, <1>11
  <2> QED BY <1>5, <1>6, <2>1, <2>2, <2>3, <2>4, <2>5 DEF StepsInOrder
<1>16. TasksBelong'
  <2>1. \A t \in tasks : Belongs(t)'
    <3> SUFFICES ASSUME NEW t \in tasks PROVE Belongs(t)'
      OBVIOUS
    <3>1. PICK j \in 1..Len(ordered) : t.step = ordered[j] /\ (j <= Done \/ j = Done + 1)
      BY DEF IndInv, TasksBelong, Belongs
    <3>2. j <= last
      BY <1>5, <1>2, <3>1
    <3> QED BY <1>1, <1>6, <3>1, <3>2 DEF Belongs
  <2>2. \A k \in 1..Done : run.steps[k].succeeded =>
          Success(run.steps[k].step, run.steps[k].task) \in tasks
    BY DEF IndInv, TasksBelong
  <2>3. outcome.succeeded => Success(Current, outcome.task) \in tasks
    BY <1>1 DEF IndInv, TasksBelong
  <2>4. \A k \in 1..last : run'.steps[k].succeeded =>
          Success(run'.steps[k].step, run'.steps[k].task) \in tasks
    BY <1>6, <1>7, <1>8, <2>2, <2>3
  <2> QED BY <1>1, <1>6, <1>11, <2>1, <2>4 DEF TasksBelong, Untried, Success
<1> QED BY <1>12, <1>13, <1>14, <1>15, <1>16 DEF IndInv

\* The verdict: of a run that stopped, of one that came to its end.
LEMMA VerdictKeeps == ASSUME IndInv, Stop \/ Finish PROVE IndInv'
<1>1. /\ UNCHANGED <<declared, ordered, ready, attempt, outcome, tasks, lost>>
      /\ row' = run' /\ pc' = "returned"
      /\ \/ pc = "stopping" /\ run' = [run EXCEPT !.status = "FAILED"]
         \/ pc = "finishing" /\ run' = [run EXCEPT !.status = "COMPLETED"]
  BY DEF Stop, Finish, Save
<1>2. /\ run' \in [status : {"RUNNING", "COMPLETED", "FAILED"}, steps : Seq(StepRows)]
      /\ run'.steps = run.steps /\ run'.status # "NONE"
      /\ run'.status = "FAILED" => pc = "stopping"
      /\ run'.status = "COMPLETED" => pc = "finishing"
  BY <1>1 DEF IndInv, Types
<1>3. Done' = Done /\ \A k : Failed(k)' <=> Failed(k)
  BY <1>1, <1>2 DEF Done, Failed, Stops
<1>4. Types'
  BY <1>1, <1>2 DEF IndInv, Types, Steps, StepRows, TaskRows
<1>5. Order'
  BY <1>1, OrderStays
<1>6. RowIsRun'
  BY <1>1, <1>2 DEF RowIsRun
<1>7. StepsInOrder'
  <2>1. Done <= Len(ordered) /\ \A k \in 1..Done : run.steps[k].step = ordered[k]
    BY DEF IndInv, StepsInOrder
  <2>2. \A k \in 1..Done : Failed(k) => k = Done
    BY DEF IndInv, StepsInOrder
  <2>3. pc = "finishing" => /\ \A i \in Steps : \E k \in 1..Done : run.steps[k].step = i
                            /\ \A k \in 1..Done : ~Failed(k)
    BY <2>1 DEF IndInv, StepsInOrder, Order
  <2>4. pc = "stopping" => Done # 0 /\ Failed(Done)
    BY DEF IndInv, StepsInOrder
  <2>5. Steps' = Steps /\ Done = Done'
    BY <1>1, <1>3 DEF Steps
  <2>6. run'.status = "FAILED" => Done' # 0 /\ Failed(Done)'
    <3>1. Failed(Done)' <=> Failed(Done)
      BY <1>1, <1>2, <2>5 DEF Failed, Stops
    <3> QED BY <1>2, <2>4, <2>5, <3>1
  <2> QED BY <1>1, <1>2, <1>3, <2>1, <2>2, <2>3, <2>5, <2>6 DEF StepsInOrder
<1>8. TasksBelong'
  <2>1. \A t \in tasks : Belongs(t)'
    BY <1>1, <1>2, <1>3 DEF IndInv, TasksBelong, Belongs
  <2> QED BY <1>1, <1>2, <1>3, <2>1 DEF IndInv, TasksBelong, Success
<1> QED BY <1>4, <1>5, <1>6, <1>7, <1>8 DEF IndInv

\* A save that fails, a process that dies, and a step of somebody else.
LEMMA EndKeeps ==
  ASSUME IndInv, UNCHANGED <<declared, ordered, ready, run, row, attempt, outcome, tasks>>,
         pc' \in {"raised", "dead", pc}
  PROVE  IndInv'
<1>1. Done' = Done /\ (\A k : Failed(k)' <=> Failed(k)) /\ Current' = Current
  BY DEF Done, Failed, Stops, Current
<1>2. Types'
  BY DEF IndInv, Types, Steps, StepRows, TaskRows
<1>3. Order'
  BY DEF IndInv, Order, Named, Steps
<1>4. RowIsRun'
  BY DEF IndInv, RowIsRun
<1>5. StepsInOrder'
  <2>1. Failed(Done)' <=> Failed(Done)
    BY <1>1 DEF Failed, Stops
  <2> QED BY <1>1, <2>1 DEF IndInv, StepsInOrder, Steps
<1>6. TasksBelong'
  <2>1. \A t \in tasks : Belongs(t)'
    BY <1>1 DEF IndInv, TasksBelong, Belongs
  <2> QED BY <1>1, <2>1 DEF IndInv, TasksBelong, Success
<1> QED BY <1>2, <1>3, <1>4, <1>5, <1>6 DEF IndInv

LEMMA StepKeeps == IndInv /\ [Next]_vars => IndInv'
<1> SUFFICES ASSUME IndInv, [Next]_vars PROVE IndInv'
  OBVIOUS
<1>1. CASE Load \/ Layer \/ Extend
  BY <1>1, LoadKeeps, LayerKeeps, ExtendKeeps
<1>2. CASE Open \/ Submit
  BY <1>2, OpenKeeps, SubmitKeeps
<1>3. CASE Settle \/ SettleLost
  BY <1>3, SettleKeeps, SettleLostKeeps
<1>4. CASE Record \/ Stop \/ Finish
  BY <1>4, RecordKeeps, VerdictKeeps
<1>5. CASE SaveFails \/ Kill \/ UNCHANGED vars
  BY <1>5, EndKeeps DEF SaveFails, Kill, vars
<1> QED BY <1>1, <1>2, <1>3, <1>4, <1>5 DEF Next, Engine

-----------------------------------------------------------------------------
(* Theorems *)

\* Order, run, row and tasks stay as IndInv says for every declaration, whatever
\* fails and whenever the process dies (engine.py).
THEOREM EngineInvariant == Spec => []IndInv
<1>1. Init => IndInv
  BY InitIndInv
<1>2. IndInv /\ [Next]_vars => IndInv'
  BY StepKeeps
<1> QED BY <1>1, <1>2, PTL DEF Spec

\* What is needed is in the saved row before a task is made of a step, and
\* nothing is made after a STOP step that failed (order_steps, engine.py).
LEMMA NeedsAreRows == IndInv => StepsFollowTheirNeeds
<1> SUFFICES ASSUME IndInv, NEW t \in tasks
             PROVE  /\ Written
                    /\ \A x \in declared[t.step].needs :
                         \E k \in DOMAIN row.steps : declared[row.steps[k].step].name = x
                    /\ \A k \in DOMAIN row.steps :
                         ~row.steps[k].succeeded /\ Stops(row.steps[k].step) =>
                            \E j \in 1..k : row.steps[j].step = t.step
  BY DEF StepsFollowTheirNeeds
<1>1. Written /\ row = run
  BY DEF IndInv, RowIsRun, Written
<1>2. /\ Done \in Nat /\ Len(ordered) \in Nat /\ Done <= Len(ordered)
      /\ DOMAIN row.steps = 1..Done
      /\ \A k \in 1..Done : row.steps[k].step = ordered[k]
  BY <1>1 DEF IndInv, Types, StepsInOrder, Done
<1>3. PICK j \in 1..Len(ordered) :
        /\ t.step = ordered[j]
        /\ j <= Done \/ (j = Done + 1 /\ \A k \in 1..Done : ~Failed(k))
  BY DEF IndInv, TasksBelong, Belongs
<1>4. \A x \in declared[t.step].needs :
        \E k \in DOMAIN row.steps : declared[row.steps[k].step].name = x
  <2> SUFFICES ASSUME NEW x \in declared[ordered[j]].needs
               PROVE  \E k \in 1..Done : declared[ordered[k]].name = x
    BY <1>2, <1>3
  <2>1. PICK k \in 1..Len(ordered) : k < j /\ declared[ordered[k]].name = x
    BY DEF IndInv, Order, Named
  <2>2. k \in 1..Done
    BY <1>2, <1>3, <2>1
  <2> QED BY <2>1, <2>2
<1>5. ASSUME NEW k \in DOMAIN row.steps, ~row.steps[k].succeeded, Stops(row.steps[k].step)
      PROVE  \E i \in 1..k : row.steps[i].step = t.step
  <2>1. k \in 1..Done /\ Failed(k)
    BY <1>1, <1>2, <1>5 DEF Failed
  <2>2. k = Done
    BY <2>1 DEF IndInv, StepsInOrder
  <2>3. j \in 1..k
    BY <1>2, <1>3, <2>1, <2>2
  <2> QED BY <1>2, <1>3, <2>2, <2>3
<1> QED BY <1>1, <1>4, <1>5

LEMMA RowsTellTheVerdict == IndInv => VerdictTellsTheSteps
<1> SUFFICES ASSUME IndInv, Written PROVE VerdictTellsTheSteps
  BY DEF VerdictTellsTheSteps
<1>1. row = run
  BY DEF IndInv, RowIsRun, Written
<1>2. Done \in Nat /\ DOMAIN row.steps = 1..Done /\ Len(row.steps) = Done
  BY <1>1 DEF IndInv, Types, Done
<1>3. row.status = "COMPLETED" =>
        /\ {row.steps[k].step : k \in DOMAIN row.steps} = Steps
        /\ \A k \in DOMAIN row.steps : Stops(row.steps[k].step) => row.steps[k].succeeded
  <2> SUFFICES ASSUME row.status = "COMPLETED"
               PROVE  /\ {row.steps[k].step : k \in 1..Done} = Steps
                      /\ \A k \in 1..Done : Stops(row.steps[k].step) => row.steps[k].succeeded
    BY <1>2
  <2>1. /\ \A i \in Steps : \E k \in 1..Done : run.steps[k].step = i
        /\ \A k \in 1..Done : ~Failed(k)
    BY <1>1 DEF IndInv, StepsInOrder
  <2>2. \A k \in 1..Done : run.steps[k].step \in Steps
    <3>1. run.steps \in Seq(StepRows)
      BY DEF IndInv, Types
    <3>2. \A k \in 1..Done : run.steps[k] \in StepRows
      BY <3>1 DEF Done
    <3> QED BY <3>2 DEF StepRows
  <2> QED BY <1>1, <2>1, <2>2 DEF Failed
<1>4. row.status = "FAILED" =>
        \E k \in DOMAIN row.steps :
          k = Len(row.steps) /\ Stops(row.steps[k].step) /\ ~row.steps[k].succeeded
  BY <1>1, <1>2 DEF IndInv, StepsInOrder, Failed
<1>5. \A k \in DOMAIN row.steps : row.steps[k].succeeded =>
        [step |-> row.steps[k].step, attempt |-> row.steps[k].task,
         status |-> "COMPLETED"] \in tasks
  BY <1>1, <1>2 DEF IndInv, TasksBelong, Success
<1> QED BY <1>3, <1>4, <1>5 DEF VerdictTellsTheSteps

\* For every declaration: no task is started on a gap, at any moment.
THEOREM NothingStartsOnAGap == Spec => []StepsFollowTheirNeeds
BY EngineInvariant, NeedsAreRows, PTL

\* For every declaration: the saved verdict agrees with the saved steps and they
\* with the rows of their tasks.
THEOREM VerdictsAreTrue == Spec => []VerdictTellsTheSteps
BY EngineInvariant, RowsTellTheVerdict, PTL

-----------------------------------------------------------------------------
(* What is done a second time *)

\* While a step is tried, its tasks are of this attempt or of earlier ones, and those
\* of earlier ones are lost if they were completed.
TriedInTurn ==
  /\ pc \in {"starting", "working"} =>
       \A t \in tasks : t.step = Current =>
         /\ t.attempt <= attempt
         /\ pc = "starting" => t.attempt < attempt
         /\ t.status = "COMPLETED" => [step |-> t.step, attempt |-> t.attempt] \in lost
  /\ RedoneOnlyWhenLost

\* Of what is added to the tasks of a step, nothing precedes what is there.
LEMMA LaterAttempts ==
  ASSUME IndInv, TriedInTurn, pc \in {"starting", "working"}, lost \subseteq lost',
         \A t \in tasks' : t \notin tasks => t.step = Current /\ t.attempt = attempt
  PROVE  RedoneOnlyWhenLost'
<1> SUFFICES ASSUME NEW t \in tasks', NEW u \in tasks', t.status = "COMPLETED",
                    u.step = t.step, u.attempt > t.attempt
             PROVE  [step |-> t.step, attempt |-> t.attempt] \in lost'
  BY DEF RedoneOnlyWhenLost
<1>1. /\ attempt \in Nat
      /\ \A r \in tasks : r.attempt \in Nat /\ (r.step = Current => r.attempt <= attempt)
  BY DEF IndInv, Types, TaskRows, TriedInTurn
<1>2. t \in tasks
  BY <1>1
<1>3. CASE u \in tasks
  BY <1>2, <1>3 DEF TriedInTurn, RedoneOnlyWhenLost
<1>4. CASE u \notin tasks
  BY <1>2, <1>4 DEF TriedInTurn
<1> QED BY <1>3, <1>4

LEMMA SubmitInTurn == ASSUME IndInv, TriedInTurn, Submit PROVE TriedInTurn'
<1>1. /\ pc = "starting" /\ UNCHANGED <<declared, ordered, ready, run, row, lost>>
      /\ attempt \in Nat /\ Current' = Current
      /\ \A t \in tasks : t.attempt \in Nat
  BY DEF Submit, IndInv, Types, TaskRows, Current
<1>2. \A t \in tasks : t.step = Current =>
        /\ t.attempt < attempt
        /\ t.status = "COMPLETED" => [step |-> t.step, attempt |-> t.attempt] \in lost
  BY <1>1 DEF TriedInTurn
<1>3. CASE /\ tasks' = tasks \cup {[step |-> Current, attempt |-> attempt, status |-> "open"]}
           /\ pc' = "working" /\ UNCHANGED <<attempt, outcome>>
  <2>1. RedoneOnlyWhenLost'
    BY <1>1, <1>3, LaterAttempts
  <2> QED BY <1>1, <1>2, <1>3, <2>1 DEF TriedInTurn
<1>4. CASE Raised /\ tasks' = tasks
  <2>1. RedoneOnlyWhenLost'
    BY <1>1, <1>4, LaterAttempts
  <2>2. pc' = "starting" => attempt' = attempt + 1
    BY <1>1, <1>4 DEF Raised, Tried
  <2>3. pc' \in {"starting", "recording"}
    BY <1>4 DEF Raised, Tried
  <2> QED BY <1>1, <1>2, <1>4, <2>1, <2>2, <2>3 DEF TriedInTurn
<1> QED BY <1>3, <1>4 DEF Submit

\* A task that comes to its end, whatever the engine hears of it.
LEMMA EndingInTurn ==
  ASSUME IndInv, TriedInTurn, pc = "working", NEW status, tasks' = Ending(status),
         UNCHANGED <<declared, ordered, ready, run, row>>, lost \subseteq lost',
         pc' \in {"starting", "recording"}, pc' = "starting" => attempt' = attempt + 1,
         pc' = "starting" /\ status = "COMPLETED" =>
           [step |-> Current, attempt |-> attempt] \in lost'
  PROVE  TriedInTurn'
<1>1. /\ attempt \in Nat /\ Current' = Current
      /\ \A t \in tasks : t.attempt \in Nat /\ t \in [step : Steps, attempt : Nat, status : {"open"} \cup Verdicts]
  BY DEF IndInv, Types, TaskRows, Current
<1>2. \A t \in tasks' : \/ t \in tasks /\ ~Mine(t)
                        \/ t.step = Current /\ t.attempt = attempt /\ t.status = status
  <2> SUFFICES ASSUME NEW t \in tasks' PROVE \/ t \in tasks /\ ~Mine(t)
                                             \/ t.step = Current /\ t.attempt = attempt /\ t.status = status
    OBVIOUS
  <2>1. PICK u \in tasks : t = IF Mine(u) THEN [u EXCEPT !.status = status] ELSE u
    BY DEF Ending
  <2> QED BY <1>1, <2>1 DEF Mine
<1>3. RedoneOnlyWhenLost'
  BY <1>2, LaterAttempts
<1>4. \A t \in tasks' : t.step = Current =>
        /\ t.attempt <= attempt
        /\ pc' = "starting" /\ t.status = "COMPLETED" =>
             [step |-> t.step, attempt |-> t.attempt] \in lost'
  BY <1>1, <1>2 DEF TriedInTurn
<1>5. \A t \in tasks' : t.step = Current => t.attempt \in Nat
  BY <1>1, <1>2
<1> QED BY <1>1, <1>3, <1>4, <1>5 DEF TriedInTurn

LEMMA WorkingInTurn == ASSUME IndInv, TriedInTurn, Settle \/ SettleLost PROVE TriedInTurn'
<1>1. CASE Settle
  <2>1. PICK status \in Verdicts :
          /\ tasks' = Ending(status)
          /\ Tried([task |-> attempt, attempts |-> attempt, succeeded |-> status = "COMPLETED"])
    BY <1>1 DEF Settle
  <2>2. pc = "working" /\ UNCHANGED <<declared, ordered, ready, run, row, lost>>
    BY <1>1 DEF Settle
  <2>3. /\ pc' \in {"starting", "recording"}
        /\ pc' = "starting" => attempt' = attempt + 1 /\ status # "COMPLETED"
    BY <2>1 DEF Tried
  <2> QED BY <2>1, <2>2, <2>3, EndingInTurn
<1>2. CASE SettleLost
  <2>1. PICK status \in {"open"} \cup Verdicts : tasks' = Ending(status)
    BY <1>2 DEF SettleLost
  <2>2. /\ pc = "working" /\ UNCHANGED <<declared, ordered, ready, run, row>>
        /\ lost' = lost \cup {[step |-> Current, attempt |-> attempt]}
    BY <1>2 DEF SettleLost
  <2>3. /\ pc' \in {"starting", "recording"}
        /\ pc' = "starting" => attempt' = attempt + 1
    BY <1>2 DEF SettleLost, Raised, Tried
  <2> QED BY <2>1, <2>2, <2>3, EndingInTurn
<1> QED BY <1>1, <1>2

LEMMA RecordAppends == ASSUME IndInv, Record PROVE Done' = Done + 1
<1>1. run' = WithStep /\ run.steps \in Seq(StepRows)
      /\ run \in [status : {"RUNNING", "COMPLETED", "FAILED"}, steps : Seq(StepRows)]
  BY DEF Record, Save, IndInv, Types
<1>2. run'.steps = Append(run.steps, [step |-> Current, task |-> outcome.task,
                                      attempts |-> outcome.attempts,
                                      succeeded |-> outcome.succeeded])
  BY <1>1 DEF WithStep
<1> QED BY <1>1, <1>2 DEF Done

\* The next step of the order has no task yet.
LEMMA RecordInTurn == ASSUME IndInv, TriedInTurn, Record PROVE TriedInTurn'
<1>1. /\ UNCHANGED <<declared, ordered, tasks, lost>> /\ pc = "recording"
      /\ run' = WithStep /\ pc' = AfterStep(Current, WithStep)
  BY DEF Record, Save
<1>2. RedoneOnlyWhenLost'
  BY <1>1 DEF TriedInTurn, RedoneOnlyWhenLost
<1>3. pc' \in {"stopping", "finishing", "starting"}
  BY <1>1 DEF AfterStep
<1>4. ASSUME pc' = "starting", NEW t \in tasks, t.step = Current' PROVE FALSE
  <2>1. IndInv'
    BY RecordKeeps
  <2>2. /\ Done \in Nat /\ Len(ordered) \in Nat
        /\ Done' = Done + 1
    BY <1>1, CurrentStep, RecordAppends
  <2>3. Done' < Len(ordered) /\ Current' = ordered[Done' + 1]
    BY <1>1, <1>4, <2>1 DEF IndInv, StepsInOrder, Current, Done
  <2>4. PICK j \in 1..Len(ordered) : t.step = ordered[j] /\ (j <= Done \/ j = Done + 1)
    BY DEF IndInv, TasksBelong, Belongs
  <2>5. Done' + 1 \in 1..Len(ordered) /\ j # Done' + 1
    BY <2>2, <2>3, <2>4
  <2>6. ordered[j] # ordered[Done' + 1]
    BY <2>5 DEF IndInv, Order
  <2> QED BY <1>4, <2>3, <2>4, <2>6
<1> QED BY <1>1, <1>2, <1>3, <1>4 DEF TriedInTurn

LEMMA StepInTurn == IndInv /\ TriedInTurn /\ [Next]_vars => TriedInTurn'
<1> SUFFICES ASSUME IndInv, TriedInTurn, [Next]_vars PROVE TriedInTurn'
  OBVIOUS
<1>1. CASE Load \/ Layer \/ Extend
  <2>1. UNCHANGED <<tasks, lost>> /\ pc' \notin {"starting", "working"}
    BY <1>1 DEF Load, Layer, Extend
  <2> QED BY <2>1 DEF TriedInTurn, RedoneOnlyWhenLost
<1>2. CASE Open
  <2>1. UNCHANGED <<tasks, lost>> /\ tasks = {}
    BY <1>2 DEF Open, IndInv, RowIsRun
  <2> QED BY <2>1 DEF TriedInTurn, RedoneOnlyWhenLost
<1>3. CASE Stop \/ Finish \/ SaveFails \/ Kill
  <2>1. UNCHANGED <<tasks, lost>> /\ pc' \notin {"starting", "working"}
    BY <1>3 DEF Stop, Finish, SaveFails, Kill, Save
  <2> QED BY <2>1 DEF TriedInTurn, RedoneOnlyWhenLost
<1>4. CASE UNCHANGED vars
  BY <1>4 DEF vars, TriedInTurn, RedoneOnlyWhenLost, Current
<1> QED
  BY <1>1, <1>2, <1>3, <1>4, SubmitInTurn, WorkingInTurn, RecordInTurn DEF Next, Engine

\* For every declaration: a step whose task was completed is tried again only if a save
\* raised after the task was completed (engine.py).
THEOREM DoneOnce == Spec => []RedoneOnlyWhenLost
<1>1. Init => TriedInTurn
  BY DEF Init, TriedInTurn, RedoneOnlyWhenLost
<1>2. TriedInTurn => RedoneOnlyWhenLost
  BY DEF TriedInTurn
<1> QED
  BY <1>1, <1>2, StepInTurn, EngineInvariant, PTL DEF Spec

-----------------------------------------------------------------------------
(* What a plan is made of *)

USE DEF Planner!Keys

\* An instance counts as the module it is an instance in does.
LEMMA SameCount == \A S : Planner!Cardinality(S) = Cardinality(S)
  BY DEF Planner!Cardinality, Cardinality

\* The tasks of a plan are no more than the entries they were read from: an edge is
\* read from an entry that is there.
LEMMA TasksAreEntries ==
  ASSUME answer \in Answers
  PROVE  /\ Planner!Kept \subseteq Planner!Keys
         /\ \A i \in 1..Cardinality(Planner!Kept) : i \in 1..Len(answer)
  <1>1. Len(answer) \in 0..MaxKey /\ \A i \in 1..Len(answer) : answer[i].id \in 0..MaxKey
    BY AnswersAssumption
  <1>2. Planner!Read \subseteq 1..Len(answer)
    BY DEF Planner!Read
  <1>3. \A i \in 1..Len(answer) : Planner!Key(i) \in Planner!Keys
    BY <1>1, AnswersAssumption DEF Planner!Key
  <1>4. Planner!Kept \subseteq Planner!Keys
    BY <1>2, <1>3 DEF Planner!Kept
  <1>5. /\ IsFiniteSet(1..Len(answer)) /\ Cardinality(1..Len(answer)) = Len(answer)
    <2>1. Len(answer) \in Int /\ 1 \in Int /\ Len(answer) >= 0
      BY <1>1, AnswersAssumption
    <2>2. QED
      BY <2>1, FS_Interval
  <1>6. IsFiniteSet(Planner!Read) /\ Cardinality(Planner!Read) <= Len(answer)
    BY <1>2, <1>5, FS_Subset
  <1> DEFINE f == [i \in Planner!Read |-> Planner!Key(i)]
  <1>7. f \in Surjection(Planner!Read, Planner!Kept)
    BY DEF Surjection, Planner!Kept
  <1>8. IsFiniteSet(Planner!Kept) /\ Cardinality(Planner!Kept) <= Cardinality(Planner!Read)
    BY <1>6, <1>7, FS_Surjection
  <1>9. Cardinality(Planner!Kept) \in Nat /\ Cardinality(Planner!Read) \in Nat
    BY <1>6, <1>8, FS_CardinalityType
  <1>10. QED
    BY <1>1, <1>4, <1>6, <1>8, <1>9

\* Each edge is one an entry named, and each result that was passed went along one;
\* whoever carries a task was a candidate for it.
PlanAsRead ==
  /\ answer \in Answers /\ space \in {"first", "second"}
  /\ stage = "reading" => planned = {} /\ \A k \in Planner!Keys : told[k] = {} /\ chosen[k] = Planner!Nobody
  /\ planned \subseteq Planner!Keys
  /\ edges \subseteq planned \X planned
  /\ \A edge \in edges :
       \E i \in 1..Len(answer) : Planner!Key(i) = edge[1] /\ edge[2] \in answer[i].on
  /\ results \subseteq done
  /\ told = [k \in Planner!Keys |-> told[k]]
  /\ \A k \in Planner!Keys : \A other \in told[k] : other \in done /\ <<k, other>> \in edges
  /\ chosen = [k \in Planner!Keys |-> chosen[k]]
  /\ \A k \in Planner!Keys :
       chosen[k] # Planner!Nobody => chosen[k] \in Planner!Candidates(requirement[k])

LEMMA PlanStarts == Planner!Init => PlanAsRead
  BY DEF Planner!Init, PlanAsRead

\* Steps that leave the plan and who carries it as they are.
LEMMA PlanStands ==
  ASSUME PlanAsRead, UNCHANGED <<answer, space, planned, edges, requirement, told>>,
         stage' = stage \/ stage' \in {"over", "escalated"},
         done \subseteq done', results' \subseteq done',
         chosen' = [k \in Planner!Keys |-> chosen'[k]],
         \A k \in Planner!Keys :
           chosen'[k] \in {chosen[k], Planner!Nobody} \cup Planner!Field(k),
         stage = "reading" => chosen' = chosen
  PROVE  PlanAsRead'
  <1>1. \A k \in Planner!Keys : Planner!Field(k) \subseteq Planner!Candidates(requirement[k])
    BY DEF Planner!Field, Planner!OrElse
  <1>2. \A k \in Planner!Keys :
          Planner!Candidates(requirement[k])' = Planner!Candidates(requirement[k])
    BY DEF Planner!Candidates, Planner!OrElse, Planner!Offering, Planner!Listed
  <1>3. \A k \in Planner!Keys : chosen'[k] # Planner!Nobody
          => chosen'[k] \in Planner!Candidates(requirement[k])
    BY <1>1 DEF PlanAsRead
  <1>4. QED
    BY <1>2, <1>3 DEF PlanAsRead, Planner!Key, Planner!Nobody

LEMMA PlanStep == PlanAsRead /\ [Planner!Next]_(Planner!vars) => PlanAsRead'
  <1> SUFFICES ASSUME PlanAsRead, [Planner!Next]_(Planner!vars) PROVE PlanAsRead'
    OBVIOUS
  <1>1. CASE Planner!Plan
    <2>1. /\ UNCHANGED <<answer, space, done, results, told, chosen>>
          /\ stage = "reading" /\ stage' = "working"
          /\ \/ planned' = {1} /\ edges' = {}
             \/ planned' = Planner!Kept /\ edges' = Planner!EdgesRead
      BY <1>1 DEF Planner!Plan
    <2>2. \A k \in Planner!Keys : told'[k] = {} /\ chosen'[k] = Planner!Nobody
      BY <2>1 DEF PlanAsRead
    <2>3. planned' \subseteq Planner!Keys /\ edges' \subseteq planned' \X planned'
      BY <2>1, TasksAreEntries, AnswersAssumption DEF PlanAsRead, Planner!EdgesRead
    <2>4. ASSUME NEW edge \in edges'
          PROVE  \E i \in 1..Len(answer) : Planner!Key(i) = edge[1] /\ edge[2] \in answer[i].on
      <3>1. edge \in Planner!EdgesRead /\ answer \in Answers
        BY <2>1, <2>4 DEF PlanAsRead
      <3>2. PICK i \in 1..Cardinality(Planner!Kept) :
              Planner!Key(i) = edge[1] /\ edge[2] \in answer[i].on
        BY <3>1, SameCount DEF Planner!EdgesRead
      <3>3. QED
        BY <3>1, <3>2, TasksAreEntries
    <2>5. QED
      BY <2>1, <2>2, <2>3, <2>4 DEF PlanAsRead, Planner!Key, Planner!Nobody
  <1>2. CASE Planner!StartWave
    <2>1. /\ UNCHANGED <<answer, space, stage, planned, edges, requirement, done, results, chosen>>
          /\ stage = "working"
          /\ told' = [k \in Planner!Keys |->
                        IF k \in Planner!Ready THEN Planner!ContextFor(k) ELSE told[k]]
      BY <1>2 DEF Planner!StartWave
    <2>2. ASSUME NEW k \in Planner!Keys, NEW other \in Planner!ContextFor(k)
          PROVE  other \in done /\ <<k, other>> \in edges
      <3>1. PICK edge \in edges : edge[1] = k /\ edge[2] = other
        BY <2>2 DEF Planner!ContextFor, Planner!DependsOn
      <3>2. edge = <<k, other>>
        BY <3>1 DEF PlanAsRead
      <3>3. QED
        BY <2>2, <3>1, <3>2 DEF Planner!ContextFor, PlanAsRead
    <2>3. \A k \in Planner!Keys : \A other \in told'[k] : other \in done /\ <<k, other>> \in edges
      BY <2>1, <2>2 DEF PlanAsRead
    <2>4. \A k \in Planner!Keys :
            Planner!Candidates(requirement[k])' = Planner!Candidates(requirement[k])
      BY <2>1 DEF Planner!Candidates, Planner!OrElse, Planner!Offering, Planner!Listed
    <2>5. \A k \in Planner!Keys :
            (chosen[k] # Planner!Nobody => chosen[k] \in Planner!Candidates(requirement[k]))'
      BY <2>1, <2>4 DEF PlanAsRead, Planner!Nobody
    <2>6. told' = [k \in Planner!Keys |-> told'[k]]
      BY <2>1
    <2>7. QED
      BY <2>1, <2>3, <2>5, <2>6 DEF PlanAsRead, Planner!Key, Planner!Nobody
  <1>3. ASSUME NEW k \in Planner!Keys, Planner!Choose(k) PROVE PlanAsRead'
    BY <1>3, PlanStands DEF Planner!Choose, PlanAsRead
  <1>4. ASSUME NEW k \in Planner!Keys, Planner!NobodyLeft(k) PROVE PlanAsRead'
    BY <1>4, PlanStands DEF Planner!NobodyLeft, PlanAsRead
  <1>5. ASSUME NEW k \in Planner!Keys, Planner!Succeed(k) PROVE PlanAsRead'
    BY <1>5, PlanStands DEF Planner!Succeed, PlanAsRead
  <1>6. ASSUME NEW k \in Planner!Keys, Planner!Fall(k) PROVE PlanAsRead'
    <2>1. chosen' = chosen \/ chosen' = [chosen EXCEPT ![k] = Planner!Nobody]
      BY <1>6 DEF Planner!Fall
    <2>2. /\ UNCHANGED <<answer, space, stage, planned, edges, requirement, done, results, told>>
          /\ stage = "working"
      BY <1>6 DEF Planner!Fall
    <2>3. QED
      BY <2>1, <2>2, PlanStands DEF PlanAsRead
  <1>7. CASE Planner!EndWave \/ Planner!Finish \/ UNCHANGED Planner!vars
    <2>1. /\ UNCHANGED <<answer, space, planned, edges, requirement, done, results, told, chosen>>
          /\ stage' = stage \/ stage' = "over"
      BY <1>7 DEF Planner!EndWave, Planner!Finish, Planner!vars
    <2>2. QED
      BY <2>1, PlanStands DEF PlanAsRead
  <1>8. QED
    BY <1>1, <1>2, <1>3, <1>4, <1>5, <1>6, <1>7 DEF Planner!Next

THEOREM PlanInvariant == Planner!Spec => []PlanAsRead
  BY PlanStarts, PlanStep, PTL DEF Planner!Spec

\* However a model numbers and repeats its entries, a task is told only the results
\* of tasks that are done and that an entry of its own name waits for.
THEOREM ContextIsDeclared == Planner!Spec => []ContextFollowsTheEdges
  <1>1. PlanAsRead => ContextFollowsTheEdges
    BY DEF PlanAsRead, ContextFollowsTheEdges, Planner!ContextFollowsTheEdges
  <1>2. QED
    BY <1>1, PlanInvariant, PTL

\* Somebody who fits is among the candidates, and then they all fit.
LEMMA CandidatesFit ==
  ASSUME NEW need, space \in {"first", "second"}, NEW c \in Planner!Candidates(need),
         NEW e \in Staff, need.capabilities \subseteq Can[e], need.services \subseteq Holds[e]
  PROVE  need.capabilities \subseteq Can[c] /\ need.services \subseteq Holds[c]
  <1> DEFINE able == IF need.capabilities = {} THEN Planner!Listed
                     ELSE Planner!OrElse(Planner!Offering(need.capabilities), Planner!Listed)
  <1>1. need.capabilities # {} => able = Planner!Offering(need.capabilities) /\ e \in able
    BY DEF Planner!Offering, Planner!OrElse
  <1>2. \A x \in able : need.capabilities \subseteq Can[x]
    BY <1>1 DEF Planner!Offering
  <1>3. able # {} => e \in able
    BY <1>1 DEF Planner!Listed
  <1>4. Planner!Candidates(need)
          = IF need.services = {} THEN able
            ELSE Planner!OrElse({x \in able : need.services \subseteq Holds[x]}, able)
    BY DEF Planner!Candidates
  <1> HIDE DEF able
  <1>5. QED
    BY <1>2, <1>3, <1>4 DEF Planner!OrElse

\* Whoever takes a task declares what it needs whenever somebody does, however many
\* attempts were to avoid somebody, and in whichever workspace.
THEOREM TheAbleAreChosen == Planner!Spec => []TakenByTheAble
  <1>1. PlanAsRead => TakenByTheAble
    BY CandidatesFit DEF PlanAsRead, TakenByTheAble, Planner!TakenByTheAble
  <1>2. QED
    BY <1>1, PlanInvariant, PTL

-----------------------------------------------------------------------------
(* Counting up *)

\* A set of numbers has a least one: what the natural numbers are well-founded for.
LEMMA Least ==
  ASSUME NEW T, T \subseteq Nat, T # {}
  PROVE  \E n \in T : \A m \in T : n <= m
  <1> DEFINE R == {ss \in Nat \X Nat : ss[1] < ss[2]}
  <1>1. IsWellFoundedOn(R, Nat)
    BY NatLessThanWellFounded DEF OpToRel
  <1>2. \A x, y \in Nat : <<y, x>> \in R <=> y < x
    OBVIOUS
  <1> HIDE DEF R
  <1>3. PICK x \in T : \A y \in T : ~ (<<y, x>> \in R)
    BY <1>1, WFMin
  <1>4. ASSUME NEW y \in T PROVE x <= y
    <2>1. x \in Nat /\ y \in Nat
      OBVIOUS
    <2>2. ~ (y < x)
      BY <1>2, <1>3, <2>1
    <2>3. QED
      BY <2>1, <2>2
  <1>5. QED
    BY <1>4

\* What holds of none, and of one more whenever it holds of some, holds of all.
LEMMA UpTo ==
  ASSUME NEW n \in Nat, NEW T, 0 \in T, \A i \in 1..n : i - 1 \in T => i \in T
  PROVE  \A i \in 0..n : i \in T
  <1> DEFINE Left == (0..n) \ T
  <1>1. Left # {} => FALSE
    <2> SUFFICES ASSUME Left # {} PROVE FALSE
      OBVIOUS
    <2>1. Left \subseteq Nat
      OBVIOUS
    <2> HIDE DEF Left
    <2>2. PICK i \in Left : \A m \in Left : i <= m
      BY <2>1, Least
    <2>3. i \in 1..n /\ i - 1 \in 0..n
      BY <2>2 DEF Left
    <2>4. i - 1 \in T
      BY <2>2, <2>3 DEF Left
    <2>5. QED
      BY <2>2, <2>3, <2>4 DEF Left
  <1>2. QED
    BY <1>1

-----------------------------------------------------------------------------
(* The names of the tools on the wire *)

\* A name that is taken gets a suffix nobody has, as there are more suffixes than
\* tools before this one.
LEMMA FreeIsNew ==
  ASSUME NEW w \in Seq(STRING), NEW taken, IsFiniteSet(taken),
         Cardinality(taken) < Len(Registry)
  PROVE  Talk!Free(w, taken) \notin taken
  <1> DEFINE top == Len(Registry) + 1
             Suffixes == {k \in 2..top : Append(w, k) \notin taken}
  <1>1. Len(Registry) \in Nat /\ top \in Nat
    BY ToolsAssumption
  <1>2. w \in Seq(STRING \cup Nat) /\ Len(w) \in Nat
    OBVIOUS
  <1>3. \A k \in 2..top : Append(w, k)[Len(w) + 1] = k
    BY <1>1, <1>2
  <1>4. Suffixes # {}
    <2> SUFFICES ASSUME Suffixes = {} PROVE FALSE
      OBVIOUS
    <2> DEFINE f == [k \in 2..top |-> Append(w, k)]
    <2>1. \A k \in 2..top : f[k] \in taken
      OBVIOUS
    <2>2. \A j, k \in 2..top : f[j] = f[k] => j = k
      BY <1>3
    <2>3. DOMAIN f = 2..top
      OBVIOUS
    <2> HIDE DEF f
    <2>4. f \in [2..top -> taken]
      <3>1. f = [k \in 2..top |-> f[k]]
        BY DEF f
      <3>2. QED
        BY <2>1, <3>1
    <2>5. f \in Injection(2..top, taken)
      BY <2>2, <2>4 DEF Injection, IsInjective
    <2>6. Cardinality(2..top) <= Cardinality(taken)
      BY <2>5, FS_Injection
    <2>7. Cardinality(2..top) = Len(Registry)
      <3>1. 2 \in Int /\ top \in Int /\ (IF 2 > top THEN 0 ELSE top - 2 + 1) = Len(Registry)
        BY <1>1
      <3> HIDE DEF top
      <3>2. QED
        BY <3>1, FS_Interval
    <2>8. Cardinality(taken) \in Nat
      BY FS_CardinalityType
    <2>9. QED
      BY <1>1, <2>6, <2>7, <2>8
  <1>5. Suffixes \subseteq Nat
    BY <1>1
  <1>6. PICK least \in Suffixes : \A m \in Suffixes : least <= m
    BY <1>4, <1>5, Least
  <1>7. /\ least \in 2..top /\ Append(w, least) \notin taken
        /\ \A j \in 2..least - 1 : Append(w, j) \in taken
    BY <1>1, <1>6
  <1>8. Append(w, CHOOSE k \in 2..top : /\ Append(w, k) \notin taken
                                        /\ \A j \in 2..k - 1 : Append(w, j) \in taken) \notin taken
    BY <1>7
  <1>9. QED
    BY <1>8 DEF Talk!Free

\* The names given so far, and the next tool's besides.
NamedToo(tools, u, i) ==
  IF Registry[i] \notin tools THEN u
  ELSE [t \in DOMAIN u \cup {Registry[i]} |->
          IF t = Registry[i] THEN Talk!Free(Sanitised[t], Talk!Range(u)) ELSE u[t]]

\* wire_names goes over the tools once, in their order.
LEMMA NamesAreGivenInTurn ==
  ASSUME NEW tools
  PROVE  \E u : /\ u[0] = << >>
                /\ \A i \in 1..Len(Registry) : u[i] = NamedToo(tools, u[i - 1], i)
                /\ Talk!WireNames(tools) = u[Len(Registry)]
  <1> DEFINE Goes(n, f) ==
               f = [i \in 0..n |-> IF i = 0 THEN << >> ELSE NamedToo(tools, f[i - 1], i)]
             T == {n \in 0..Len(Registry) : \E f : Goes(n, f)}
  <1>1. Len(Registry) \in Nat
    BY ToolsAssumption
  <1>2. 0 \in T
    <2>1. Goes(0, [i \in 0..0 |-> << >>])
      OBVIOUS
    <2>2. \E f : Goes(0, f)
      BY <2>1
    <2> HIDE DEF Goes
    <2>3. QED
      BY <1>1, <2>2
  <1>3. ASSUME NEW n \in 1..Len(Registry), n - 1 \in T PROVE n \in T
    <2>1. PICK f : Goes(n - 1, f)
      BY <1>3
    <2> DEFINE g == [i \in 0..n |-> IF i = n THEN NamedToo(tools, f[n - 1], n) ELSE f[i]]
    <2>2. \A i \in 0..n - 1 : f[i] = IF i = 0 THEN << >> ELSE NamedToo(tools, f[i - 1], i)
      BY <1>1, <2>1
    <2>3. \A i \in 0..n : g[i] = IF i = n THEN NamedToo(tools, f[n - 1], n) ELSE f[i]
      OBVIOUS
    <2>4. \A i \in 0..n - 1 : g[i] = f[i]
      BY <1>1, <2>3
    <2>5. ASSUME NEW i \in 0..n
          PROVE  g[i] = IF i = 0 THEN << >> ELSE NamedToo(tools, g[i - 1], i)
      <3>1. CASE i = n
        BY <1>1, <2>3, <2>4, <3>1
      <3>2. CASE i \in 0..n - 1 /\ i # 0
        <4>1. i - 1 \in 0..n - 1 /\ g[i] = f[i] /\ g[i - 1] = f[i - 1]
          BY <1>1, <2>4, <3>2
        <4>2. QED
          BY <2>2, <3>2, <4>1
      <3>3. CASE i = 0
        BY <1>1, <2>2, <2>4, <3>3
      <3>4. QED
        BY <1>1, <3>1, <3>2, <3>3
    <2>6. g = [i \in 0..n |-> g[i]]
      OBVIOUS
    <2> HIDE DEF g
    <2>7. Goes(n, g)
      BY <2>5, <2>6
    <2>8. QED
      BY <1>1, <2>7
  <1>4. Len(Registry) \in T
    <2>1. \A n \in 1..Len(Registry) : n - 1 \in T => n \in T
      BY <1>3
    <2> HIDE DEF T
    <2>2. \A n \in 0..Len(Registry) : n \in T
      BY <1>1, <1>2, <2>1, UpTo
    <2>3. QED
      BY <1>1, <2>2
  <1> DEFINE upTo == CHOOSE f : Goes(Len(Registry), f)
  <1>5. Goes(Len(Registry), upTo)
    BY <1>4
  <1>6. Talk!WireNames(tools) = upTo[Len(Registry)]
    BY DEF Talk!WireNames, NamedToo
  <1> HIDE DEF upTo
  <1>7. upTo[0] = << >>
    BY <1>1, <1>5
  <1>8. \A i \in 1..Len(Registry) : upTo[i] = NamedToo(tools, upTo[i - 1], i)
    BY <1>1, <1>5
  <1>9. QED
    BY <1>6, <1>7, <1>8

\* No two tools have one name, and there are no more names than tools gone over.
Apart(u, i) ==
  /\ \A t1, t2 \in DOMAIN u : u[t1] = u[t2] => t1 = t2
  /\ IsFiniteSet(Talk!Range(u)) /\ Cardinality(Talk!Range(u)) <= i

LEMMA OneMoreApart ==
  ASSUME NEW tools, NEW u, NEW i \in 1..Len(Registry), Apart(u, i - 1)
  PROVE  Apart(NamedToo(tools, u, i), i)
  <1> DEFINE v == NamedToo(tools, u, i)
             new == Talk!Free(Sanitised[Registry[i]], Talk!Range(u))
  <1>1. Len(Registry) \in Nat /\ Sanitised[Registry[i]] \in Seq(STRING)
    BY ToolsAssumption
  <1>2. Cardinality(Talk!Range(u)) \in Nat /\ IsFiniteSet(Talk!Range(u))
    BY FS_CardinalityType DEF Apart
  <1>3. Cardinality(Talk!Range(u)) <= i - 1
    BY DEF Apart
  <1>4. CASE Registry[i] \notin tools
    BY <1>1, <1>2, <1>3, <1>4 DEF NamedToo, Apart
  <1>5. CASE Registry[i] \in tools
    <2>1. new \notin Talk!Range(u)
      BY <1>1, <1>2, <1>3, FreeIsNew
    <2>2. /\ DOMAIN v = DOMAIN u \cup {Registry[i]} /\ v[Registry[i]] = new
          /\ \A t \in DOMAIN u : t # Registry[i] => v[t] = u[t]
      BY <1>5 DEF NamedToo
    <2>3. \A t \in DOMAIN u : u[t] \in Talk!Range(u)
      BY DEF Talk!Range
    <2> HIDE DEF v, new
    <2>4. \A t1, t2 \in DOMAIN v : v[t1] = v[t2] => t1 = t2
      BY <2>1, <2>2, <2>3 DEF Apart
    <2>5. Talk!Range(v) \subseteq Talk!Range(u) \cup {new}
      BY <2>2 DEF Talk!Range
    <2>6. /\ IsFiniteSet(Talk!Range(u) \cup {new})
          /\ Cardinality(Talk!Range(u) \cup {new}) <= Cardinality(Talk!Range(u)) + 1
      <3>1. /\ IsFiniteSet(Talk!Range(u) \cup {new})
            /\ Cardinality(Talk!Range(u) \cup {new})
                 = IF new \in Talk!Range(u) THEN Cardinality(Talk!Range(u))
                   ELSE Cardinality(Talk!Range(u)) + 1
        BY <1>2, FS_AddElement
      <3>2. QED
        BY <1>2, <3>1
    <2>7. /\ IsFiniteSet(Talk!Range(v))
          /\ Cardinality(Talk!Range(v)) <= Cardinality(Talk!Range(u) \cup {new})
      BY <2>5, <2>6, FS_Subset
    <2>8. /\ Cardinality(Talk!Range(v)) \in Nat
          /\ Cardinality(Talk!Range(u) \cup {new}) \in Nat
      BY <2>6, <2>7, FS_CardinalityType
    <2>9. Cardinality(Talk!Range(v)) <= i
      BY <1>1, <1>2, <1>3, <2>6, <2>7, <2>8
    <2>10. QED
      BY <2>4, <2>7, <2>9 DEF Apart, v
  <1>6. QED
    BY <1>4, <1>5

\* On the messages wire every tool has a name of its own, whatever the names come
\* out as and however many collide.
LEMMA WireNamesApart ==
  ASSUME NEW tools, NEW t1 \in DOMAIN Talk!WireNames(tools),
         NEW t2 \in DOMAIN Talk!WireNames(tools),
         Talk!WireNames(tools)[t1] = Talk!WireNames(tools)[t2]
  PROVE  t1 = t2
  <1>1. PICK u : /\ u[0] = << >>
                 /\ \A i \in 1..Len(Registry) : u[i] = NamedToo(tools, u[i - 1], i)
                 /\ Talk!WireNames(tools) = u[Len(Registry)]
    BY NamesAreGivenInTurn
  <1> DEFINE T == {i \in 0..Len(Registry) : Apart(u[i], i)}
  <1>2. Len(Registry) \in Nat
    BY ToolsAssumption
  <1>3. 0 \in T
    <2>1. Talk!Range(u[0]) = {} /\ DOMAIN u[0] = {}
      BY <1>1 DEF Talk!Range
    <2>2. Apart(u[0], 0)
      BY <2>1, FS_EmptySet DEF Apart
    <2>3. QED
      BY <1>2, <2>2
  <1>4. \A i \in 1..Len(Registry) : i - 1 \in T => i \in T
    BY <1>1, <1>2, OneMoreApart
  <1>5. Len(Registry) \in T
    <2> HIDE DEF T
    <2>1. \A i \in 0..Len(Registry) : i \in T
      BY <1>2, <1>3, <1>4, UpTo
    <2>2. QED
      BY <1>2, <2>1
  <1>6. QED
    BY <1>1, <1>5 DEF Apart

\* What a tool is called in the last request is its own name there, and every call
\* of the answer to it was taken for the tool of that name.
CallsAreTakenAtTheirNames ==
  /\ \A t1, t2 \in DOMAIN request.names : request.names[t1] = request.names[t2] => t1 = t2
  /\ \A i \in DOMAIN asked : asked[i].reached = Talk!Meant(request.names, asked[i].by)

LEMMA NamesAreOwn ==
  ASSUME NEW tools, NEW t1 \in DOMAIN Talk!Names(tools), NEW t2 \in DOMAIN Talk!Names(tools),
         Talk!Names(tools)[t1] = Talk!Names(tools)[t2]
  PROVE  t1 = t2
  <1>1. CASE wire = "messages"
    <2>1. Talk!Names(tools) = Talk!WireNames(tools)
      BY <1>1 DEF Talk!Names
    <2>2. QED
      BY <2>1, WireNamesApart
  <1>2. CASE wire # "messages"
    <2>1. Talk!Names(tools) = [t \in tools |-> <<t>>]
      BY <1>2 DEF Talk!Names
    <2>2. t1 \in tools /\ t2 \in tools /\ <<t1>> = <<t2>>
      BY <2>1
    <2>3. QED
      BY <2>2
  <1>3. QED
    BY <1>1, <1>2

LEMMA NamesStep ==
  CallsAreTakenAtTheirNames /\ [Talk!Next]_(Talk!vars) => CallsAreTakenAtTheirNames'
  <1> SUFFICES ASSUME CallsAreTakenAtTheirNames, [Talk!Next]_(Talk!vars)
               PROVE  CallsAreTakenAtTheirNames'
    OBVIOUS
  <1>1. CASE Talk!Send
    <2> DEFINE tools == Talk!Offered(transcript.messages)
    <2>1. request'.names = Talk!Names(tools) /\ asked' = << >>
      BY <1>1 DEF Talk!Send
    <2> HIDE DEF tools
    <2>2. \A t1, t2 \in DOMAIN request'.names :
            request'.names[t1] = request'.names[t2] => t1 = t2
      BY <2>1, NamesAreOwn
    <2>3. DOMAIN asked' = {}
      BY <2>1
    <2>4. QED
      BY <2>2, <2>3 DEF CallsAreTakenAtTheirNames
  <1>2. ASSUME NEW wanted, Talk!Ask(wanted) PROVE CallsAreTakenAtTheirNames'
    <2>1. /\ request' = request /\ todo' = Talk!CallsOf(wanted)
          /\ asked' = [i \in DOMAIN wanted |-> [by |-> wanted[i], reached |-> todo'[i].tool]]
      BY <1>2 DEF Talk!Ask
    <2>2. \A i \in DOMAIN wanted : todo'[i].tool = Talk!Meant(request.names, wanted[i])
      BY <2>1 DEF Talk!CallsOf
    <2>3. DOMAIN asked' = DOMAIN wanted
          /\ \A i \in DOMAIN wanted :
               asked'[i].by = wanted[i] /\ asked'[i].reached = todo'[i].tool
      BY <2>1
    <2>4. \A i \in DOMAIN asked' :
            asked'[i].reached = Talk!Meant(request.names, asked'[i].by)
      BY <2>2, <2>3
    <2>5. QED
      BY <2>1, <2>4 DEF CallsAreTakenAtTheirNames
  <1>3. CASE UNCHANGED <<request, asked>>
    BY <1>3 DEF CallsAreTakenAtTheirNames, Talk!Meant
  <1>4. CASE Talk!Stop \/ Talk!TryAgain \/ Talk!GiveUp \/ Talk!StopBetween \/ Talk!SendBack
             \/ Talk!Settle \/ Talk!Cancel \/ Talk!Kill
    BY <1>3, <1>4 DEF Talk!Stop, Talk!TryAgain, Talk!GiveUp, Talk!StopBetween,
                      Talk!SendBack, Talk!Settle, Talk!Cancel, Talk!Kill
  <1>5. CASE Talk!CallTool \/ Talk!FinishPlan \/ Talk!Resume
             \/ \E text \in BOOLEAN : Talk!Finish(text)
    BY <1>3, <1>5 DEF Talk!CallTool, Talk!FinishPlan, Talk!Resume, Talk!Finish
  <1>6. CASE UNCHANGED Talk!vars
    BY <1>3, <1>6 DEF Talk!vars
  <1>7. QED
    BY <1>1, <1>2, <1>4, <1>5, <1>6 DEF Talk!Next

\* Whatever tools a request offers and whatever their names come out as, a call by a
\* name it showed reaches the tool that name stood for.
THEOREM CallsReachTheirTools == Talk!Spec => []CallsReachWhatWasShown
  <1>1. Talk!Init => CallsAreTakenAtTheirNames
    <2>1. Talk!Init => DOMAIN request.names = {} /\ DOMAIN asked = {}
      BY DEF Talk!Init, Talk!NoRequest
    <2>2. QED
      BY <2>1 DEF CallsAreTakenAtTheirNames
  <1>2. CallsAreTakenAtTheirNames => CallsReachWhatWasShown
    <2> SUFFICES ASSUME CallsAreTakenAtTheirNames, NEW i \in DOMAIN asked,
                        NEW t \in DOMAIN request.names, request.names[t] = asked[i].by
                 PROVE  asked[i].reached = t
      BY DEF CallsReachWhatWasShown, Talk!CallsReachWhatWasShown
    <2>1. asked[i].reached = CHOOSE u \in DOMAIN request.names : request.names[u] = asked[i].by
      BY DEF CallsAreTakenAtTheirNames, Talk!Meant
    <2>2. asked[i].reached \in DOMAIN request.names
          /\ request.names[asked[i].reached] = asked[i].by
      BY <2>1
    <2>3. QED
      BY <2>2 DEF CallsAreTakenAtTheirNames
  <1>3. QED
    BY <1>1, <1>2, NamesStep, PTL DEF Talk!Spec

-----------------------------------------------------------------------------
(* What an answer costs *)

\* Amounts are counted; whatever the transcript and its row say was spent has a row
\* of its own, and what the provider charged beyond it went with a fault or a kill.
SpendIsLogged ==
  /\ {transcript.cost, saved.cost, logged, charged, faults, kills} \subseteq Nat
  /\ "cost" \in DOMAIN transcript /\ "cost" \in DOMAIN saved
  /\ TheLogHasTheSpend

\* An answer is logged before it is in the transcript.
LEMMA AnswerIsLogged ==
  ASSUME SpendIsLogged, NEW message, Talk!Answered(message), UNCHANGED <<faults, kills>>,
         saved' = saved \/ saved' = transcript'
  PROVE  SpendIsLogged'
  <1>1. /\ transcript'.cost = transcript.cost + 1 /\ logged' = logged + 1
        /\ charged' = charged + 1 /\ "cost" \in DOMAIN transcript'
    BY DEF Talk!Answered, Talk!Log
  <1>2. /\ saved'.cost = saved.cost \/ saved'.cost = transcript'.cost
        /\ "cost" \in DOMAIN saved'
    BY <1>1 DEF SpendIsLogged
  <1>3. QED
    BY <1>1, <1>2 DEF SpendIsLogged, TheLogHasTheSpend, Talk!TheLogHasTheSpend

\* A request may have been charged whose answer never came: one fault or kill each.
LEMMA NoAnswer ==
  ASSUME SpendIsLogged, UNCHANGED logged,
         transcript'.cost \in {transcript.cost, saved.cost},
         saved'.cost \in {transcript.cost, saved.cost},
         "cost" \in DOMAIN transcript', "cost" \in DOMAIN saved',
         \/ UNCHANGED <<charged, faults, kills>>
         \/ charged' \in {charged, charged + 1} /\ faults' = faults + 1 /\ kills' = kills
         \/ charged' \in {charged, charged + 1} /\ kills' = kills + 1 /\ faults' = faults
  PROVE  SpendIsLogged'
  BY DEF SpendIsLogged, TheLogHasTheSpend, Talk!TheLogHasTheSpend

LEMMA SpendStep == SpendIsLogged /\ [Talk!Next]_(Talk!vars) => SpendIsLogged'
  <1> SUFFICES ASSUME SpendIsLogged, [Talk!Next]_(Talk!vars) PROVE SpendIsLogged'
    OBVIOUS
  <1>1. ASSUME NEW text \in BOOLEAN, Talk!Finish(text) PROVE SpendIsLogged'
    BY <1>1, AnswerIsLogged DEF Talk!Finish
  <1>2. ASSUME NEW wanted, Talk!Ask(wanted) PROVE SpendIsLogged'
    BY <1>2, AnswerIsLogged DEF Talk!Ask
  <1>3. CASE Talk!TryAgain \/ Talk!GiveUp
    BY <1>3, NoAnswer DEF SpendIsLogged, Talk!TryAgain, Talk!GiveUp, Talk!Posted
  <1>4. CASE Talk!Kill
    BY <1>4, NoAnswer DEF SpendIsLogged, Talk!Kill, Talk!Posted
  <1>5. CASE Talk!CallTool
    <2>1. transcript' = [transcript EXCEPT !.messages = transcript'.messages]
          /\ saved' \in {transcript', saved} /\ UNCHANGED <<logged, charged, faults, kills>>
      BY <1>5 DEF Talk!CallTool, Talk!SavedAtTheEnd
    <2>2. transcript'.cost = transcript.cost /\ "cost" \in DOMAIN transcript'
      BY <2>1 DEF SpendIsLogged
    <2>3. QED
      BY <2>1, <2>2, NoAnswer DEF SpendIsLogged
  <1>6. CASE Talk!FinishPlan
    <2>1. transcript'.cost = transcript.cost /\ saved' = transcript' /\ "cost" \in DOMAIN saved'
          /\ UNCHANGED <<logged, charged, faults, kills>>
      BY <1>6 DEF Talk!FinishPlan, Talk!Opening
    <2>2. QED
      BY <2>1, NoAnswer
  <1>7. CASE Talk!Resume
    BY <1>7, NoAnswer DEF SpendIsLogged, Talk!Resume
  <1>8. CASE Talk!Send
    BY <1>8, NoAnswer DEF SpendIsLogged, Talk!Send
  <1>9. CASE Talk!Stop \/ Talk!StopBetween \/ Talk!SendBack \/ Talk!Settle \/ Talk!Cancel
             \/ UNCHANGED Talk!vars
    BY <1>9, NoAnswer DEF SpendIsLogged, Talk!Stop, Talk!StopBetween, Talk!SendBack, Talk!Settle,
                          Talk!Cancel, Talk!vars
  <1>10. QED
    BY <1>1, <1>2, <1>3, <1>4, <1>5, <1>6, <1>7, <1>8, <1>9 DEF Talk!Next

\* Over all attempts and processes of a task, what its transcript says was spent
\* stands in the call log, and a charge that does not was lost to a failure or a kill.
THEOREM SpendingIsOnRecord == Talk!Spec => []TheLogHasTheSpend
  <1>1. Talk!Init => SpendIsLogged
    BY DEF Talk!Init, SpendIsLogged, TheLogHasTheSpend, Talk!TheLogHasTheSpend
  <1>2. SpendIsLogged => TheLogHasTheSpend
    BY DEF SpendIsLogged
  <1>3. QED
    BY <1>1, <1>2, SpendStep, PTL DEF Talk!Spec

-----------------------------------------------------------------------------
(* What a transcript is *)

\* A list, whatever it is of.
IsList(s) == s \in Seq({s[i] : i \in DOMAIN s})

\* The calls of message a that none of the messages up to n answers.
IdsOf(m) == {m.calls[k].id : k \in DOMAIN m.calls}
Unanswered(ms, n) ==
  UNION {{c \in IdsOf(ms[a]) : \A j \in a + 1..n : ms[j].role = "tool" /\ ms[j].of # c} :
           a \in {a \in 1..n : ms[a].role = "assistant"}}

\* A transcript opens with the instructions and what is asked; then the model speaks
\* when it has every answer, and a tool when it was called and has not answered yet.
WellTold(ms) ==
  /\ IsList(ms)
  /\ ms # <<>> => Len(ms) >= 2 /\ ms[1] = Talk!System /\ ms[2] = Talk!User
  /\ \A i \in 3..Len(ms) :
       \/ ms[i].role = "assistant" /\ IsList(ms[i].calls) /\ ms[i].text \in BOOLEAN
            /\ Unanswered(ms, i - 1) = {}
       \/ ms[i].role = "tool" /\ ms[i].of \in Unanswered(ms, i - 1)

\* Nothing is left to answer, but for the calls still to be made.
TalkIsWhole ==
  LET ms == transcript.messages IN
  /\ "messages" \in DOMAIN transcript /\ "messages" \in DOMAIN saved /\ ids \in Nat
  /\ WellTold(ms) /\ WellTold(saved.messages)
  /\ phase \in {"loop", "sent", "tools", "verify"} => ms # << >>
  /\ phase \in {"plan", "loop", "sent", "verify"} => Unanswered(ms, Len(ms)) = {}
  /\ Unanswered(saved.messages, Len(saved.messages)) = {}
  /\ phase = "tools" =>
       /\ IsList(todo) /\ todo # << >>
       /\ \A i, j \in DOMAIN todo : todo[i].id = todo[j].id => i = j
       /\ Unanswered(ms, Len(ms)) = {todo[i].id : i \in DOMAIN todo}

-----------------------------------------------------------------------------
(* Lists *)

LEMMA ListFacts ==
  ASSUME NEW s, IsList(s)
  PROVE  Len(s) \in Nat /\ DOMAIN s = 1..Len(s) /\ (s = << >> <=> Len(s) = 0)
  BY DEF IsList

LEMMA ListOf ==
  ASSUME NEW n \in Nat, NEW f, f = [i \in 1..n |-> f[i]]
  PROVE  IsList(f) /\ Len(f) = n /\ DOMAIN f = 1..n
  <1>1. f \in [1..n -> {f[i] : i \in DOMAIN f}]
    OBVIOUS
  <1>2. QED
    BY <1>1 DEF IsList

LEMMA ListAppend ==
  ASSUME NEW s, IsList(s), NEW m
  PROVE  /\ IsList(Append(s, m)) /\ Len(Append(s, m)) = Len(s) + 1
         /\ Append(s, m)[Len(s) + 1] = m /\ \A i \in 1..Len(s) : Append(s, m)[i] = s[i]
  <1> DEFINE S == {s[i] : i \in DOMAIN s} \cup {m}
             t == Append(s, m)
  <1>1. s \in Seq({s[i] : i \in DOMAIN s})
    BY DEF IsList
  <1>2. s \in Seq(S)
    BY <1>1
  <1>3. m \in S
    OBVIOUS
  <1> HIDE DEF S
  <1>4. /\ t \in Seq(S) /\ Len(t) = Len(s) + 1 /\ Len(s) \in Nat
        /\ t[Len(s) + 1] = m /\ \A i \in 1..Len(s) : t[i] = s[i]
    BY <1>2, <1>3
  <1> HIDE DEF t
  <1>5. t = [i \in 1..Len(t) |-> t[i]] /\ Len(t) \in Nat
    BY <1>4
  <1>6. IsList(t)
    BY <1>5, ListOf
  <1>7. QED
    BY <1>4, <1>6 DEF t

LEMMA ListTail ==
  ASSUME NEW s, IsList(s), s # << >>
  PROVE  /\ IsList(Tail(s)) /\ Len(Tail(s)) = Len(s) - 1 /\ Head(s) = s[1] /\ Len(s) >= 1
         /\ \A i \in 1..Len(s) - 1 : Tail(s)[i] = s[i + 1]
  <1> DEFINE S == {s[i] : i \in DOMAIN s}
             t == Tail(s)
  <1>1. s \in Seq(S)
    BY DEF IsList
  <1> HIDE DEF S
  <1>2. /\ t \in Seq(S) /\ Len(t) = Len(s) - 1 /\ Len(s) \in Nat /\ Len(s) >= 1
        /\ Head(s) = s[1] /\ \A i \in 1..Len(s) - 1 : t[i] = s[i + 1]
    BY <1>1
  <1> HIDE DEF t
  <1>3. t = [i \in 1..Len(t) |-> t[i]] /\ Len(t) \in Nat
    BY <1>2
  <1>4. IsList(t)
    BY <1>3, ListOf
  <1>5. QED
    BY <1>2, <1>4 DEF t

LEMMA ListConcat ==
  ASSUME NEW s, IsList(s), NEW t, IsList(t)
  PROVE  /\ IsList(s \o t) /\ Len(s \o t) = Len(s) + Len(t)
         /\ \A x : x \in Talk!ToSet(s \o t) <=> x \in Talk!ToSet(s) \/ x \in Talk!ToSet(t)
  <1> DEFINE S == {s[i] : i \in DOMAIN s} \cup {t[i] : i \in DOMAIN t}
             u == s \o t
  <1>1. s \in Seq(S) /\ t \in Seq(S)
    <2>1. s \in Seq({s[i] : i \in DOMAIN s}) /\ t \in Seq({t[i] : i \in DOMAIN t})
      BY DEF IsList
    <2>2. QED
      BY <2>1
  <1> HIDE DEF S
  <1>2. /\ u \in Seq(S) /\ Len(u) = Len(s) + Len(t) /\ Len(s) \in Nat /\ Len(t) \in Nat
        /\ \A i \in 1..Len(s) : u[i] = s[i]
        /\ \A i \in 1..Len(t) : u[Len(s) + i] = t[i]
    BY <1>1
  <1> HIDE DEF u
  <1>3. u = [i \in 1..Len(u) |-> u[i]] /\ Len(u) \in Nat
    BY <1>2
  <1>4. IsList(u)
    BY <1>3, ListOf
  <1>5. /\ DOMAIN s = 1..Len(s) /\ DOMAIN t = 1..Len(t) /\ DOMAIN u = 1..Len(s) + Len(t)
    BY <1>2, <1>4, ListFacts
  <1>6. ASSUME NEW i \in DOMAIN u PROVE u[i] \in Talk!ToSet(s) \/ u[i] \in Talk!ToSet(t)
    <2>1. CASE i \in DOMAIN s
      BY <1>2, <1>5, <2>1 DEF Talk!ToSet
    <2>2. CASE i \notin DOMAIN s
      <3>1. i - Len(s) \in DOMAIN t /\ u[i] = t[i - Len(s)]
        BY <1>2, <1>5, <2>2
      <3>2. QED
        BY <3>1 DEF Talk!ToSet
    <2>3. QED
      BY <2>1, <2>2
  <1>7. ASSUME NEW i \in DOMAIN s PROVE s[i] \in Talk!ToSet(u)
    BY <1>2, <1>5 DEF Talk!ToSet
  <1>8. ASSUME NEW i \in DOMAIN t PROVE t[i] \in Talk!ToSet(u)
    <2>1. Len(s) + i \in DOMAIN u /\ u[Len(s) + i] = t[i]
      BY <1>2, <1>5
    <2>2. QED
      BY <2>1 DEF Talk!ToSet
  <1>9. \A x : x \in Talk!ToSet(u) <=> x \in Talk!ToSet(s) \/ x \in Talk!ToSet(t)
    BY <1>6, <1>7, <1>8 DEF Talk!ToSet
  <1>10. QED
    BY <1>2, <1>4, <1>9 DEF u

-----------------------------------------------------------------------------
(* What is still to be answered *)

LEMMA StillOpen ==
  ASSUME NEW ms, NEW n, NEW c
  PROVE  c \in Unanswered(ms, n) <=>
           \E a \in 1..n : /\ ms[a].role = "assistant" /\ c \in IdsOf(ms[a])
                           /\ \A j \in a + 1..n : ms[j].role = "tool" /\ ms[j].of # c
  BY DEF Unanswered

LEMMA OpenBefore ==
  ASSUME NEW ms, NEW t, NEW n \in Nat, \A i \in 1..n : t[i] = ms[i]
  PROVE  Unanswered(t, n) = Unanswered(ms, n)
  <1>1. ASSUME NEW c PROVE c \in Unanswered(t, n) <=> c \in Unanswered(ms, n)
    <2>1. \A a \in 1..n : \A j \in a + 1..n : j \in 1..n
      OBVIOUS
    <2>2. QED
      BY <2>1, StillOpen
  <1>2. QED
    BY <1>1

LEMMA OpenAfterCalls ==
  ASSUME NEW ms, NEW n \in Nat, ms[n + 1].role = "assistant"
  PROVE  Unanswered(ms, n + 1) = IdsOf(ms[n + 1])
  <1>1. ASSUME NEW c PROVE c \in Unanswered(ms, n + 1) <=> c \in IdsOf(ms[n + 1])
    <2>1. \A a \in 1..n : n + 1 \in a + 1..n + 1
      OBVIOUS
    <2>2. \A j \in n + 1 + 1..n + 1 : FALSE
      OBVIOUS
    <2>3. n + 1 \in 1..n + 1 /\ \A a \in 1..n + 1 : a \in 1..n \/ a = n + 1
      OBVIOUS
    <2>4. QED
      BY <2>1, <2>2, <2>3, StillOpen
  <1>2. QED
    BY <1>1

LEMMA OpenAfterResult ==
  ASSUME NEW ms, NEW n \in Nat, ms[n + 1].role = "tool"
  PROVE  Unanswered(ms, n + 1) = Unanswered(ms, n) \ {ms[n + 1].of}
  <1>1. ASSUME NEW c
        PROVE  c \in Unanswered(ms, n + 1) <=> c \in Unanswered(ms, n) /\ c # ms[n + 1].of
    <2>1. \A a \in 1..n : n + 1 \in a + 1..n + 1
      OBVIOUS
    <2>2. \A a \in 1..n + 1 : ms[a].role = "assistant" => a \in 1..n
      <3>1. \A a \in 1..n + 1 : a \in 1..n \/ a = n + 1
        OBVIOUS
      <3>2. QED
        BY <3>1
    <2>3. \A a \in 1..n : a \in 1..n + 1 /\ \A j \in a + 1..n + 1 : j \in a + 1..n \/ j = n + 1
      OBVIOUS
    <2>4. \A a \in 1..n : \A j \in a + 1..n : j \in a + 1..n + 1
      OBVIOUS
    <2>5. QED
      BY <2>1, <2>2, <2>3, <2>4, StillOpen
  <1>2. QED
    BY <1>1

\* A transcript that is continued stays as it was told.
LEMMA ToldOn ==
  ASSUME NEW ms, WellTold(ms), ms # << >>, NEW m,
         \/ m.role = "assistant" /\ IsList(m.calls) /\ m.text \in BOOLEAN
              /\ Unanswered(ms, Len(ms)) = {}
         \/ m.role = "tool" /\ m.of \in Unanswered(ms, Len(ms))
  PROVE  /\ WellTold(Append(ms, m)) /\ Append(ms, m) # << >>
         /\ Unanswered(Append(ms, m), Len(Append(ms, m)))
              = IF m.role = "tool" THEN Unanswered(ms, Len(ms)) \ {m.of} ELSE IdsOf(m)
  <1> DEFINE t == Append(ms, m)
             n == Len(ms)
  <1>1. IsList(ms) /\ n \in Nat /\ n >= 2 /\ ms[1] = Talk!System /\ ms[2] = Talk!User
    BY ListFacts DEF WellTold
  <1>2. IsList(t) /\ Len(t) = n + 1 /\ t[n + 1] = m /\ \A i \in 1..n : t[i] = ms[i]
    BY <1>1, ListAppend
  <1> HIDE DEF t
  <1>3. \A k \in 0..n : Unanswered(t, k) = Unanswered(ms, k)
    <2> SUFFICES ASSUME NEW k \in 0..n PROVE Unanswered(t, k) = Unanswered(ms, k)
      OBVIOUS
    <2>1. k \in Nat /\ \A i \in 1..k : i \in 1..n
      BY <1>1
    <2>2. QED
      BY <1>2, <2>1, OpenBefore
  <1> HIDE DEF n
  <1>4. Unanswered(t, n + 1) = IF m.role = "tool" THEN Unanswered(ms, n) \ {m.of} ELSE IdsOf(m)
    <2>1. Unanswered(t, n) = Unanswered(ms, n)
      BY <1>1, <1>3
    <2>2. QED
      BY <1>1, <1>2, <2>1, OpenAfterCalls, OpenAfterResult DEF n
  <1>5. \A i \in 3..Len(t) :
          \/ t[i].role = "assistant" /\ IsList(t[i].calls) /\ t[i].text \in BOOLEAN
               /\ Unanswered(t, i - 1) = {}
          \/ t[i].role = "tool" /\ t[i].of \in Unanswered(t, i - 1)
    <2> SUFFICES ASSUME NEW i \in 3..Len(t)
                 PROVE  \/ t[i].role = "assistant" /\ IsList(t[i].calls) /\ t[i].text \in BOOLEAN
                             /\ Unanswered(t, i - 1) = {}
                        \/ t[i].role = "tool" /\ t[i].of \in Unanswered(t, i - 1)
      OBVIOUS
    <2>1. i - 1 \in 0..n
      BY <1>1, <1>2
    <2>2. Unanswered(t, i - 1) = Unanswered(ms, i - 1)
      BY <1>3, <2>1
    <2>3. CASE i = n + 1
      BY <1>1, <1>2, <2>2, <2>3 DEF n
    <2>4. CASE i # n + 1
      <3>1. i \in 3..n /\ i \in 1..n
        BY <1>1, <1>2, <2>4
      <3>2. QED
        BY <1>2, <2>2, <3>1 DEF WellTold, n
    <2>5. QED
      BY <2>3, <2>4
  <1>6. t # << >> /\ Len(t) >= 2 /\ t[1] = Talk!System /\ t[2] = Talk!User
    <2>1. Len(t) # 0
      BY <1>1, <1>2
    <2>2. t # << >>
      BY <1>2, <2>1, ListFacts
    <2>3. QED
      BY <1>1, <1>2, <2>2
  <1>7. WellTold(t)
    BY <1>2, <1>5, <1>6 DEF WellTold
  <1>8. QED
    BY <1>2, <1>4, <1>6, <1>7 DEF t, n

LEMMA NothingTold == WellTold(<< >>) /\ Unanswered(<< >>, Len(<< >>)) = {}
  <1>1. IsList(<< >>) /\ Len(<< >>) = 0
    BY DEF IsList
  <1>2. 3..Len(<< >>) = {} /\ 1..Len(<< >>) = {}
    BY <1>1
  <1>3. QED
    BY <1>1, <1>2 DEF WellTold, Unanswered

LEMMA OpeningIsTold ==
  LET ms == <<Talk!System, Talk!User>>
  IN  WellTold(ms) /\ ms # << >> /\ Unanswered(ms, Len(ms)) = {}
  <1> DEFINE ms == <<Talk!System, Talk!User>>
  <1>1. ms \in Seq({Talk!System, Talk!User}) /\ Len(ms) = 2 /\ ms[1] = Talk!System /\ ms[2] = Talk!User
    OBVIOUS
  <1>2. ms = [i \in 1..2 |-> ms[i]]
    BY <1>1
  <1> HIDE DEF ms
  <1>3. IsList(ms)
    BY <1>2, ListOf
  <1>4. 3..Len(ms) = {} /\ ms # << >>
    BY <1>1, <1>3, ListFacts
  <1>5. \A a \in 1..Len(ms) : ms[a].role # "assistant"
    BY <1>1 DEF Talk!System, Talk!User
  <1>6. QED
    BY <1>1, <1>3, <1>4, <1>5 DEF WellTold, Unanswered, ms

LEMMA TalkStarts == Talk!Init => TalkIsWhole
  <1> SUFFICES ASSUME Talk!Init PROVE TalkIsWhole
    OBVIOUS
  <1>1. /\ transcript.messages = << >> /\ saved.messages = << >> /\ ids = 0 /\ phase = "plan"
        /\ "messages" \in DOMAIN transcript /\ "messages" \in DOMAIN saved
    BY DEF Talk!Init
  <1>2. QED
    BY <1>1, NothingTold DEF TalkIsWhole

\* A step that neither speaks nor goes where more is asked of the transcript.
LEMMA TalkStays ==
  ASSUME TalkIsWhole, UNCHANGED <<transcript, saved, ids>>,
         \/ phase' \in {"over", "down"}
         \/ phase' = phase /\ todo' = todo
         \/ phase \in {"loop", "sent", "verify"} /\ phase' \in {"plan", "loop", "sent", "verify"}
  PROVE  TalkIsWhole'
  <1>1. phase' \in {"loop", "sent", "tools", "verify", "plan"} =>
          \/ phase' = phase /\ todo' = todo
          \/ phase \in {"loop", "sent", "verify"} /\ phase' \in {"plan", "loop", "sent", "verify"}
    OBVIOUS
  <1>2. QED
    BY <1>1 DEF TalkIsWhole

LEMMA FinishKeepsTalk == ASSUME TalkIsWhole, NEW text \in BOOLEAN, Talk!Finish(text) PROVE TalkIsWhole'
  <1> DEFINE m == Talk!Assistant(text, << >>)
             ms == transcript.messages
  <1>1. m.role = "assistant" /\ m.calls = << >> /\ m.text \in BOOLEAN
    BY DEF Talk!Assistant
  <1>2. IsList(m.calls) /\ IdsOf(m) = {}
    <2>1. IsList(<< >>) /\ DOMAIN << >> = {}
      BY DEF IsList
    <2>2. QED
      BY <1>1, <2>1 DEF IdsOf
  <1>3. /\ transcript'.messages = Append(ms, m) /\ "messages" \in DOMAIN transcript'
        /\ saved' = transcript' /\ phase' = "verify" /\ ids' = ids /\ phase = "sent"
    BY DEF Talk!Finish, Talk!Answered
  <1> HIDE DEF m
  <1>4. WellTold(ms) /\ ms # << >> /\ Unanswered(ms, Len(ms)) = {} /\ ids \in Nat
    BY <1>3 DEF TalkIsWhole
  <1> HIDE DEF ms
  <1>5. /\ WellTold(Append(ms, m)) /\ Append(ms, m) # << >>
        /\ Unanswered(Append(ms, m), Len(Append(ms, m))) = IdsOf(m)
    BY <1>1, <1>2, <1>4, ToldOn
  <1>6. QED
    BY <1>2, <1>3, <1>4, <1>5 DEF TalkIsWhole

LEMMA AskKeepsTalk ==
  ASSUME TalkIsWhole, NEW wanted \in Talk!SeqOf(Talk!Nameable, MaxCalls), wanted # << >>,
         Talk!Ask(wanted)
  PROVE  TalkIsWhole'
  <1> DEFINE m == Talk!Assistant(FALSE, todo')
             ms == transcript.messages
  <1>1. PICK n \in 0..MaxCalls : wanted \in [1..n -> Talk!Nameable]
    BY DEF Talk!SeqOf
  <1>2. n \in Nat /\ wanted = [i \in 1..n |-> wanted[i]]
    BY <1>1, ToolsAssumption
  <1>3. IsList(wanted) /\ Len(wanted) = n /\ DOMAIN wanted = 1..n /\ n # 0
    BY <1>2, ListOf, ListFacts
  <1>4. /\ todo' = [i \in 1..n |-> [id |-> ids + i, tool |-> Talk!Meant(request.names, wanted[i])]]
        /\ ids' = ids + n
    BY <1>3 DEF Talk!Ask, Talk!CallsOf
  <1>5. todo' = [i \in 1..n |-> todo'[i]] /\ \A i \in 1..n : todo'[i].id = ids + i
    BY <1>4
  <1>6. IsList(todo') /\ Len(todo') = n /\ DOMAIN todo' = 1..n /\ todo' # << >>
    <2>1. IsList(todo') /\ Len(todo') = n /\ DOMAIN todo' = 1..n
      BY <1>2, <1>5, ListOf
    <2>2. QED
      BY <1>3, <2>1, ListFacts
  <1>7. m.role = "assistant" /\ m.calls = todo' /\ m.text \in BOOLEAN
    BY DEF Talk!Assistant
  <1>8. IdsOf(m) = {todo'[i].id : i \in DOMAIN todo'}
    BY <1>7 DEF IdsOf
  <1>9. /\ transcript'.messages = Append(ms, m) /\ "messages" \in DOMAIN transcript'
        /\ saved' = saved /\ phase' = "tools" /\ phase = "sent"
    BY DEF Talk!Ask, Talk!Answered
  <1> HIDE DEF m
  <1>10. /\ WellTold(ms) /\ ms # << >> /\ Unanswered(ms, Len(ms)) = {} /\ ids \in Nat
         /\ WellTold(saved.messages) /\ Unanswered(saved.messages, Len(saved.messages)) = {}
         /\ "messages" \in DOMAIN saved
    BY <1>9 DEF TalkIsWhole
  <1> HIDE DEF ms
  <1>11. /\ WellTold(Append(ms, m)) /\ Append(ms, m) # << >>
         /\ Unanswered(Append(ms, m), Len(Append(ms, m))) = IdsOf(m)
    BY <1>6, <1>7, <1>10, ToldOn
  <1>12. ids' \in Nat /\ \A i, j \in DOMAIN todo' : todo'[i].id = todo'[j].id => i = j
    BY <1>2, <1>4, <1>5, <1>6, <1>10
  <1>13. QED
    BY <1>6, <1>8, <1>9, <1>10, <1>11, <1>12 DEF TalkIsWhole

LEMMA CallToolKeepsTalk == ASSUME TalkIsWhole, Talk!CallTool PROVE TalkIsWhole'
  <1> DEFINE call == Head(todo)
             m == Talk!Result(call, call.tool \in Refusable \cup {"unknown"})
             ms == transcript.messages
  <1>1. phase = "tools" /\ ids' = ids /\ todo' = Tail(todo)
    BY DEF Talk!CallTool
  <1>2. /\ WellTold(ms) /\ ms # << >> /\ IsList(todo) /\ todo # << >> /\ ids \in Nat
        /\ \A i, j \in DOMAIN todo : todo[i].id = todo[j].id => i = j
        /\ Unanswered(ms, Len(ms)) = {todo[i].id : i \in DOMAIN todo}
        /\ WellTold(saved.messages) /\ Unanswered(saved.messages, Len(saved.messages)) = {}
        /\ "messages" \in DOMAIN saved /\ "messages" \in DOMAIN transcript
    BY <1>1 DEF TalkIsWhole
  <1>3. /\ transcript'.messages = Append(ms, m) /\ "messages" \in DOMAIN transcript'
        /\ saved' = (IF Len(todo) = 1 THEN transcript' ELSE saved)
        /\ phase' = (IF Len(todo) = 1 THEN "loop" ELSE "tools")
    BY <1>2 DEF Talk!CallTool, Talk!SavedAtTheEnd
  <1>4. /\ IsList(todo') /\ Len(todo') = Len(todo) - 1 /\ call = todo[1] /\ Len(todo) >= 1
        /\ \A i \in 1..Len(todo) - 1 : todo'[i] = todo[i + 1]
    BY <1>1, <1>2, ListTail
  <1>5. Len(todo) \in Nat /\ DOMAIN todo = 1..Len(todo) /\ DOMAIN todo' = 1..Len(todo) - 1
        /\ (todo' = << >> <=> Len(todo) = 1)
    BY <1>2, <1>4, ListFacts
  <1>6. m.role = "tool" /\ m.of = todo[1].id
    BY <1>4 DEF Talk!Result
  <1> HIDE DEF m, ms, call
  <1>7. m.of \in Unanswered(ms, Len(ms))
    BY <1>2, <1>4, <1>5, <1>6
  <1>8. /\ WellTold(Append(ms, m)) /\ Append(ms, m) # << >>
        /\ Unanswered(Append(ms, m), Len(Append(ms, m))) = Unanswered(ms, Len(ms)) \ {m.of}
    BY <1>2, <1>6, <1>7, ToldOn
  <1>9. Unanswered(ms, Len(ms)) \ {m.of} = {todo'[i].id : i \in DOMAIN todo'}
    <2>1. ASSUME NEW c \in Unanswered(ms, Len(ms)), c # m.of
          PROVE  c \in {todo'[i].id : i \in DOMAIN todo'}
      <3>1. PICK i \in 1..Len(todo) : c = todo[i].id
        BY <1>2, <1>5, <2>1
      <3>2. i - 1 \in DOMAIN todo' /\ todo'[i - 1] = todo[i]
        BY <1>4, <1>5, <1>6, <2>1, <3>1
      <3>3. QED
        BY <3>1, <3>2
    <2>2. ASSUME NEW i \in DOMAIN todo'
          PROVE  todo'[i].id \in Unanswered(ms, Len(ms)) /\ todo'[i].id # m.of
      <3>1. i + 1 \in DOMAIN todo /\ todo'[i] = todo[i + 1] /\ 1 \in DOMAIN todo /\ i + 1 # 1
        BY <1>4, <1>5
      <3>2. QED
        BY <1>2, <1>6, <3>1
    <2>3. QED
      BY <2>1, <2>2
  <1>10. \A i, j \in DOMAIN todo' : todo'[i].id = todo'[j].id => i = j
    <2> SUFFICES ASSUME NEW i \in DOMAIN todo', NEW j \in DOMAIN todo', todo'[i].id = todo'[j].id
                 PROVE  i = j
      OBVIOUS
    <2>1. /\ i + 1 \in DOMAIN todo /\ todo'[i] = todo[i + 1]
          /\ j + 1 \in DOMAIN todo /\ todo'[j] = todo[j + 1]
      BY <1>4, <1>5
    <2>2. i + 1 = j + 1
      BY <1>2, <2>1
    <2>3. QED
      BY <1>5, <2>2
  <1>11. CASE Len(todo) = 1
    <2>1. {todo'[i].id : i \in DOMAIN todo'} = {}
      BY <1>5, <1>11
    <2>2. QED
      BY <1>1, <1>2, <1>3, <1>8, <1>9, <1>11, <2>1 DEF TalkIsWhole
  <1>12. CASE Len(todo) # 1
    BY <1>1, <1>2, <1>3, <1>4, <1>5, <1>8, <1>9, <1>10, <1>12 DEF TalkIsWhole
  <1>13. QED
    BY <1>11, <1>12

LEMMA TalkStep == TalkIsWhole /\ [Talk!Next]_(Talk!vars) => TalkIsWhole'
  <1> SUFFICES ASSUME TalkIsWhole, [Talk!Next]_(Talk!vars) PROVE TalkIsWhole'
    OBVIOUS
  <1>1. ASSUME NEW text \in BOOLEAN, Talk!Finish(text) PROVE TalkIsWhole'
    BY <1>1, FinishKeepsTalk
  <1>2. ASSUME NEW wanted \in Talk!SeqOf(Talk!Nameable, MaxCalls) \ {<< >>}, Talk!Ask(wanted)
        PROVE  TalkIsWhole'
    BY <1>2, AskKeepsTalk
  <1>3. CASE Talk!CallTool
    BY <1>3, CallToolKeepsTalk
  <1>4. CASE Talk!FinishPlan
    <2>1. /\ transcript'.messages = <<Talk!System, Talk!User>> /\ saved' = transcript'
          /\ phase' = "loop" /\ ids' = ids /\ "messages" \in DOMAIN transcript'
      BY <1>4 DEF Talk!FinishPlan, Talk!Opening
    <2>2. QED
      BY <2>1, OpeningIsTold DEF TalkIsWhole
  <1>5. CASE Talk!Resume
    <2>1. /\ transcript' = saved /\ saved' = saved /\ ids' = ids
          /\ phase' = IF saved.messages = << >> THEN "plan" ELSE "loop"
      BY <1>5 DEF Talk!Resume
    <2>2. QED
      BY <2>1 DEF TalkIsWhole
  <1>6. CASE Talk!Kill \/ Talk!GiveUp \/ Talk!StopBetween
    BY <1>6, TalkStays DEF Talk!Kill, Talk!GiveUp, Talk!StopBetween
  <1>7. CASE Talk!TryAgain \/ Talk!Cancel \/ UNCHANGED Talk!vars
    BY <1>7, TalkStays DEF Talk!TryAgain, Talk!Cancel, Talk!vars
  <1>8. CASE Talk!Send \/ Talk!Stop \/ Talk!SendBack \/ Talk!Settle
    BY <1>8, TalkStays DEF Talk!Send, Talk!Stop, Talk!SendBack, Talk!Settle
  <1>9. QED
    BY <1>1, <1>2, <1>3, <1>4, <1>5, <1>6, <1>7, <1>8 DEF Talk!Next

-----------------------------------------------------------------------------
(* What a message puts on the wire *)

\* The calls and the answers among some blocks.
UsesIn(bs) == {b.id : b \in {b \in Talk!ToSet(bs) : b.kind = "use"}}
ResultsIn(bs) == {b.of : b \in {b \in Talk!ToSet(bs) : b.kind = "result"}}

\* A message is one the transcript can have.
IsMessage(m) ==
  \/ m \in {Talk!System, Talk!User}
  \/ m.role = "assistant" /\ IsList(m.calls) /\ m.text \in BOOLEAN
  \/ m.role = "tool"

LEMMA NoBlocks == IsList(<< >>) /\ UsesIn(<< >>) = {} /\ ResultsIn(<< >>) = {}
  <1>1. IsList(<< >>) /\ DOMAIN << >> = {}
    BY DEF IsList
  <1>2. Talk!ToSet(<< >>) = {}
    BY <1>1 DEF Talk!ToSet
  <1>3. QED
    BY <1>1, <1>2 DEF UsesIn, ResultsIn

LEMMA OneBlock ==
  ASSUME NEW b
  PROVE  IsList(<<b>>) /\ <<b>> # << >> /\ Talk!ToSet(<<b>>) = {b}
  <1>1. <<b>> \in Seq({b}) /\ Len(<<b>>) = 1 /\ <<b>>[1] = b /\ DOMAIN <<b>> = 1..1
    OBVIOUS
  <1>2. <<b>> = [i \in 1..1 |-> <<b>>[i]]
    BY <1>1
  <1>3. IsList(<<b>>)
    BY <1>2, ListOf
  <1>4. Talk!ToSet(<<b>>) = {b}
    BY <1>1 DEF Talk!ToSet
  <1>5. QED
    BY <1>1, <1>3, <1>4, ListFacts

LEMMA BlocksJoined ==
  ASSUME NEW s, IsList(s), NEW t, IsList(t)
  PROVE  /\ IsList(s \o t)
         /\ UsesIn(s \o t) = UsesIn(s) \cup UsesIn(t)
         /\ ResultsIn(s \o t) = ResultsIn(s) \cup ResultsIn(t)
  <1>1. /\ IsList(s \o t)
        /\ \A x : x \in Talk!ToSet(s \o t) <=> x \in Talk!ToSet(s) \/ x \in Talk!ToSet(t)
    BY ListConcat
  <1> DEFINE st == s \o t
  <1> HIDE DEF st
  <1>2. \A x : x \in Talk!ToSet(st) <=> x \in Talk!ToSet(s) \/ x \in Talk!ToSet(t)
    BY <1>1 DEF st
  <1>3. UsesIn(st) = UsesIn(s) \cup UsesIn(t)
    BY <1>2 DEF UsesIn
  <1>4. ResultsIn(st) = ResultsIn(s) \cup ResultsIn(t)
    BY <1>2 DEF ResultsIn
  <1>5. QED
    BY <1>1, <1>3, <1>4 DEF st

\* An assistant's message puts its calls on the wire, a tool's its answer; one that
\* puts nothing there has neither.
LEMMA BlocksSay ==
  ASSUME NEW m, IsMessage(m), NEW names
  PROVE  LET bs == Talk!Blocks(m, names)
         IN  /\ IsList(bs)
             /\ UsesIn(bs) = IF m.role = "assistant" THEN IdsOf(m) ELSE {}
             /\ ResultsIn(bs) = IF m.role = "tool" THEN {m.of} ELSE {}
             /\ m.role # "assistant" => bs # << >>
  <1> DEFINE bs == Talk!Blocks(m, names)
             said == IF m.text THEN <<[kind |-> "text"]>> ELSE << >>
             uses == [i \in DOMAIN m.calls |->
                        [kind |-> "use", id |-> m.calls[i].id,
                         name |-> Talk!Called(names, m.calls[i].tool)]]
  <1>1. IsList(said) /\ UsesIn(said) = {} /\ ResultsIn(said) = {}
    <2> DEFINE text == [kind |-> "text"]
    <2>1. text.kind = "text"
      OBVIOUS
    <2> HIDE DEF text
    <2>2. IsList(<<text>>) /\ UsesIn(<<text>>) = {} /\ ResultsIn(<<text>>) = {}
      BY <2>1, OneBlock DEF UsesIn, ResultsIn
    <2>3. QED
      BY <2>2, NoBlocks DEF text
  <1>2. CASE m.role = "tool"
    <2> DEFINE r == [kind |-> "result", of |-> m.of]
    <2>1. bs = <<r>>
      BY <1>2 DEF Talk!Blocks
    <2>2. r.kind = "result" /\ r.of = m.of
      OBVIOUS
    <2> HIDE DEF r, bs
    <2>3. IsList(bs) /\ bs # << >> /\ Talk!ToSet(bs) = {r}
      BY <2>1, OneBlock
    <2>4. UsesIn(bs) = {} /\ ResultsIn(bs) = {m.of}
      BY <2>2, <2>3 DEF UsesIn, ResultsIn
    <2>5. QED
      BY <1>2, <2>3, <2>4 DEF bs
  <1>3. CASE m.role = "assistant"
    <2>1. IsList(m.calls)
      BY <1>3 DEF IsMessage, Talk!System, Talk!User
    <2>2. Len(m.calls) \in Nat /\ DOMAIN m.calls = 1..Len(m.calls)
      BY <2>1, ListFacts
    <2>3. /\ uses = [i \in 1..Len(m.calls) |-> uses[i]]
          /\ \A i \in DOMAIN m.calls : uses[i].kind = "use" /\ uses[i].id = m.calls[i].id
      BY <2>2
    <2>4. bs = said \o uses
      BY <1>3 DEF Talk!Blocks
    <2> HIDE DEF bs, said, uses
    <2>5. IsList(uses) /\ DOMAIN uses = DOMAIN m.calls
      BY <2>2, <2>3, ListOf
    <2>6. UsesIn(uses) = IdsOf(m)
      <3>1. ASSUME NEW c \in IdsOf(m) PROVE c \in UsesIn(uses)
        <4>1. PICK i \in DOMAIN m.calls : c = m.calls[i].id
          BY DEF IdsOf
        <4>2. uses[i] \in Talk!ToSet(uses) /\ uses[i].kind = "use" /\ uses[i].id = c
          BY <2>3, <2>5, <4>1 DEF Talk!ToSet
        <4>3. QED
          BY <4>2 DEF UsesIn
      <3>2. ASSUME NEW c \in UsesIn(uses) PROVE c \in IdsOf(m)
        <4>1. PICK b \in Talk!ToSet(uses) : b.kind = "use" /\ c = b.id
          BY DEF UsesIn
        <4>2. PICK i \in DOMAIN m.calls : b = uses[i]
          BY <2>5, <4>1 DEF Talk!ToSet
        <4>3. QED
          BY <2>3, <4>1, <4>2 DEF IdsOf
      <3>3. QED
        BY <3>1, <3>2
    <2>7. ResultsIn(uses) = {}
      BY <2>3, <2>5 DEF ResultsIn, Talk!ToSet
    <2>8. IsList(bs) /\ UsesIn(bs) = IdsOf(m) /\ ResultsIn(bs) = {}
      <3>1. /\ IsList(said \o uses)
            /\ UsesIn(said \o uses) = UsesIn(said) \cup UsesIn(uses)
            /\ ResultsIn(said \o uses) = ResultsIn(said) \cup ResultsIn(uses)
        BY <1>1, <2>5, BlocksJoined
      <3>2. QED
        BY <1>1, <2>4, <2>6, <2>7, <3>1
    <2>9. QED
      BY <1>3, <2>8 DEF bs
  <1>4. CASE m \in {Talk!System, Talk!User}
    <2>1. m.role \in {"system", "user"} /\ m.text = TRUE
      BY <1>4 DEF Talk!System, Talk!User
    <2>2. bs = said \o << >> /\ said = <<[kind |-> "text"]>>
      BY <2>1 DEF Talk!Blocks
    <2>3. Len(said \o << >>) = 1
      BY <2>2
    <2> HIDE DEF bs, said, uses
    <2>4. IsList(bs) /\ UsesIn(bs) = {} /\ ResultsIn(bs) = {}
      BY <1>1, <2>2, NoBlocks, BlocksJoined
    <2>5. bs # << >>
      BY <2>2, <2>3, <2>4, ListFacts
    <2>6. QED
      BY <2>1, <2>4, <2>5 DEF bs
  <1>5. QED
    BY <1>2, <1>3, <1>4 DEF IsMessage

\* Every message of a transcript is one.
LEMMA ToldIsMessages ==
  ASSUME NEW ms, WellTold(ms), ms # << >>
  PROVE  /\ Len(ms) \in Nat /\ Len(ms) >= 2 /\ DOMAIN ms = 1..Len(ms)
         /\ \A i \in 1..Len(ms) :
              /\ IsMessage(ms[i])
              /\ ms[i].role \in {"assistant", "tool"} => i \in 3..Len(ms)
              /\ i \in 3..Len(ms) =>
                   \/ ms[i].role = "assistant" /\ Unanswered(ms, i - 1) = {}
                   \/ ms[i].role = "tool" /\ ms[i].of \in Unanswered(ms, i - 1)
  <1>1. /\ Len(ms) \in Nat /\ Len(ms) >= 2 /\ DOMAIN ms = 1..Len(ms)
        /\ ms[1] = Talk!System /\ ms[2] = Talk!User
    BY ListFacts DEF WellTold
  <1>2. ASSUME NEW i \in 1..Len(ms)
        PROVE  /\ IsMessage(ms[i])
               /\ ms[i].role \in {"assistant", "tool"} => i \in 3..Len(ms)
               /\ i \in 3..Len(ms) =>
                    \/ ms[i].role = "assistant" /\ Unanswered(ms, i - 1) = {}
                    \/ ms[i].role = "tool" /\ ms[i].of \in Unanswered(ms, i - 1)
    <2>1. i = 1 \/ i = 2 \/ i \in 3..Len(ms)
      BY <1>1
    <2>2. CASE i \in 3..Len(ms)
      BY <2>2 DEF WellTold, IsMessage
    <2>3. CASE i \notin 3..Len(ms)
      <3>1. ms[i] \in {Talk!System, Talk!User}
        BY <1>1, <2>1, <2>3
      <3>2. QED
        BY <2>3, <3>1 DEF IsMessage, Talk!System, Talk!User
    <2>4. QED
      BY <2>2, <2>3
  <1>3. QED
    BY <1>1, <1>2

-----------------------------------------------------------------------------
(* One turn per message *)

\* What every provider asks of the turns it is sent.
Accepted(turns) ==
  /\ turns # << >> /\ turns[1].role # "assistant"
  /\ \A i \in DOMAIN turns :
       turns[i].role = "assistant" =>
         Talk!Uses(turns[i]) = UNION {Talk!Results(turns[j]) : j \in Talk!Replies(turns, i)}
  /\ UNION {Talk!Results(turns[i]) : i \in DOMAIN turns}
       \subseteq UNION {Talk!Uses(turns[i]) : i \in DOMAIN turns}

\* A transcript that has every answer is accepted as it is.
LEMMA ToldIsAccepted ==
  ASSUME NEW ms, WellTold(ms), ms # << >>, Unanswered(ms, Len(ms)) = {},
         NEW turns, NEW names,
         turns = [i \in DOMAIN ms |->
                    [role |-> ms[i].role, blocks |-> Talk!Blocks(ms[i], names)]]
  PROVE  Accepted(turns)
  <1> DEFINE n == Len(ms)
  <1>1. n \in Nat /\ n >= 2 /\ DOMAIN ms = 1..n
    BY ToldIsMessages
  <1>2. \A i \in 1..n :
          /\ ms[i].role \in {"assistant", "tool"} => i \in 3..n
          /\ i \in 3..n =>
               \/ ms[i].role = "assistant" /\ Unanswered(ms, i - 1) = {}
               \/ ms[i].role = "tool" /\ ms[i].of \in Unanswered(ms, i - 1)
    BY ToldIsMessages
  <1>3. IsList(turns) /\ Len(turns) = n /\ DOMAIN turns = 1..n
    <2>1. turns = [i \in 1..n |-> turns[i]]
      BY <1>1
    <2>2. QED
      BY <1>1, <2>1, ListOf
  <1>4. ASSUME NEW i \in 1..n
        PROVE  /\ turns[i].role = ms[i].role
               /\ Talk!Uses(turns[i]) = IF ms[i].role = "assistant" THEN IdsOf(ms[i]) ELSE {}
               /\ Talk!Results(turns[i]) = IF ms[i].role = "tool" THEN {ms[i].of} ELSE {}
    <2>1. turns[i].role = ms[i].role /\ turns[i].blocks = Talk!Blocks(ms[i], names)
      BY <1>1
    <2>2. IsMessage(ms[i])
      BY ToldIsMessages
    <2>3. QED
      BY <2>1, <2>2, BlocksSay DEF Talk!Uses, Talk!Results, UsesIn, ResultsIn
  <1> HIDE DEF n
  \* What answers a call stands after it, with nothing but answers between.
  <1>5. ASSUME NEW j \in 1..n, NEW c \in Talk!Results(turns[j])
        PROVE  \E a \in 1..j - 1 : /\ ms[a].role = "assistant" /\ c \in IdsOf(ms[a])
                                   /\ \A k \in a + 1..j - 1 : ms[k].role = "tool"
    <2>1. ms[j].role = "tool" /\ c = ms[j].of
      <3>1. Talk!Results(turns[j]) = IF ms[j].role = "tool" THEN {ms[j].of} ELSE {}
        BY <1>4
      <3>2. c \in Talk!Results(turns[j])
        BY <1>5
      <3>3. QED
        BY <3>1, <3>2
    <2>2. c \in Unanswered(ms, j - 1)
      BY <1>2, <2>1
    <2>3. QED
      BY <2>2, StillOpen
  <1>6. ASSUME NEW i \in 1..n, ms[i].role = "assistant",
               NEW j \in Talk!Replies(turns, i), NEW c \in Talk!Results(turns[j])
        PROVE  c \in Talk!Uses(turns[i])
    <2>1. j \in i + 1..n /\ \A k \in i + 1..j : ms[k].role # "assistant"
      <3>1. j \in i + 1..n /\ \A k \in i + 1..j : turns[k].role # "assistant"
        BY <1>3 DEF Talk!Replies
      <3>2. \A k \in i + 1..j : k \in 1..n
        BY <1>1, <3>1
      <3>3. QED
        BY <1>4, <3>1, <3>2
    <2>2. j \in 1..n
      BY <1>1, <2>1
    <2>3. PICK a \in 1..j - 1 : /\ ms[a].role = "assistant" /\ c \in IdsOf(ms[a])
                                /\ \A k \in a + 1..j - 1 : ms[k].role = "tool"
      BY <1>5, <2>2
    <2>4. ~ (i \in a + 1..j - 1) /\ ~ (a \in i + 1..j)
      BY <1>6, <2>1, <2>3
    <2>5. a = i
      BY <1>1, <2>1, <2>3, <2>4
    <2>6. QED
      BY <1>4, <1>6, <2>3, <2>5
  <1>7. ASSUME NEW i \in 1..n, ms[i].role = "assistant", NEW c \in Talk!Uses(turns[i])
        PROVE  \E j \in Talk!Replies(turns, i) : c \in Talk!Results(turns[j])
    <2> SUFFICES ASSUME \A j \in Talk!Replies(turns, i) : c \notin Talk!Results(turns[j])
                 PROVE  FALSE
      OBVIOUS
    <2>1. c \in IdsOf(ms[i]) /\ i \in 3..n
      BY <1>2, <1>4, <1>7
    <2>2. ASSUME NEW e \in i..n, \A j \in i + 1..e : ms[j].role # "assistant"
          PROVE  c \in Unanswered(ms, e)
      <3>1. ASSUME NEW j \in i + 1..e PROVE ms[j].role = "tool" /\ ms[j].of # c
        <4>1. j \in 1..n /\ j \in 3..n /\ j \in i + 1..n /\ \A k \in i + 1..j : k \in i + 1..e /\ k \in 1..n
          BY <1>1, <2>1
        <4>2. ms[j].role = "tool"
          BY <1>2, <2>2, <4>1
        <4>3. \A k \in i + 1..j : turns[k].role # "assistant"
          BY <1>4, <2>2, <4>1
        <4>4. j \in Talk!Replies(turns, i)
          BY <1>3, <4>1, <4>3 DEF Talk!Replies
        <4>5. Talk!Results(turns[j]) = {ms[j].of}
          BY <1>4, <4>1, <4>2
        <4>6. c \notin Talk!Results(turns[j])
          BY <4>4
        <4>7. QED
          BY <4>2, <4>5, <4>6
      <3>2. i \in 1..e
        BY <1>1
      <3>3. QED
        BY <1>7, <2>1, <3>1, <3>2, StillOpen
    <2> DEFINE A == {k \in i + 1..n : ms[k].role = "assistant"}
    <2>3. CASE A = {}
      <3>1. c \in Unanswered(ms, n)
        <4>1. n \in i..n /\ \A j \in i + 1..n : ms[j].role # "assistant"
          BY <1>1, <2>3
        <4>2. QED
          BY <2>2, <4>1
      <3>2. QED
        BY <3>1 DEF n
    <2>4. CASE A # {}
      <3>1. A \subseteq Nat
        BY <1>1
      <3>2. PICK k \in A : \A j \in A : k <= j
        <4> HIDE DEF A
        <4>1. QED
          BY <2>4, <3>1, Least
      <3>3. k \in i + 1..n /\ ms[k].role = "assistant" /\ k - 1 \in i..n /\ k \in 3..n /\ k \in 1..n
        BY <1>1, <2>1, <3>2
      <3>4. \A j \in i + 1..k - 1 : ms[j].role # "assistant"
        <4> SUFFICES ASSUME NEW j \in i + 1..k - 1, ms[j].role = "assistant" PROVE FALSE
          OBVIOUS
        <4>1. j \in A
          BY <1>1, <3>3
        <4>2. k <= j
          BY <3>2, <4>1
        <4>3. QED
          BY <1>1, <3>3, <4>2
      <3>5. c \in Unanswered(ms, k - 1)
        BY <2>2, <3>3, <3>4
      <3>6. QED
        BY <1>2, <3>3, <3>5
    <2>5. QED
      BY <2>3, <2>4
  <1>8. ASSUME NEW j \in 1..n, NEW c \in Talk!Results(turns[j])
        PROVE  \E a \in 1..n : c \in Talk!Uses(turns[a])
    <2>1. PICK a \in 1..j - 1 : ms[a].role = "assistant" /\ c \in IdsOf(ms[a])
      BY <1>5
    <2>2. a \in 1..n
      BY <1>1
    <2>3. QED
      BY <1>4, <2>1, <2>2
  <1>9. turns # << >> /\ turns[1].role # "assistant"
    <2>1. turns # << >> /\ 1 \in 1..n
      BY <1>1, <1>3, ListFacts
    <2>2. ~ (1 \in 3..n)
      BY <1>1
    <2>3. QED
      BY <1>2, <1>4, <2>1, <2>2
  <1>10. \A i \in 1..n : ms[i].role = "assistant" =>
           Talk!Uses(turns[i]) = UNION {Talk!Results(turns[j]) : j \in Talk!Replies(turns, i)}
    <2> SUFFICES ASSUME NEW i \in 1..n, ms[i].role = "assistant"
                 PROVE  Talk!Uses(turns[i]) = UNION {Talk!Results(turns[j]) : j \in Talk!Replies(turns, i)}
      OBVIOUS
    <2>1. ASSUME NEW c \in Talk!Uses(turns[i])
          PROVE  \E j \in Talk!Replies(turns, i) : c \in Talk!Results(turns[j])
      BY <1>7
    <2>2. ASSUME NEW j \in Talk!Replies(turns, i), NEW c \in Talk!Results(turns[j])
          PROVE  c \in Talk!Uses(turns[i])
      BY <1>6
    <2>3. QED
      BY <2>1, <2>2
  <1>11. UNION {Talk!Results(turns[i]) : i \in 1..n} \subseteq UNION {Talk!Uses(turns[i]) : i \in 1..n}
    BY <1>8
  <1>12. QED
    BY <1>3, <1>4, <1>9, <1>10, <1>11 DEF Accepted

-----------------------------------------------------------------------------
(* Turns of several messages *)

\* _split_system goes over the messages once, in their order.
LEMMA TurnsAreMergedInTurn ==
  ASSUME NEW ms, NEW names, Len(ms) \in Nat
  PROVE  \E u : /\ u[0] = << >>
                /\ \A i \in 1..Len(ms) : u[i] = Talk!Joined(u[i - 1], ms[i], names)
                /\ Talk!MergedTurns(ms, names) = u[Len(ms)]
  <1> DEFINE Goes(n, f) ==
               f = [i \in 0..n |-> IF i = 0 THEN << >> ELSE Talk!Joined(f[i - 1], ms[i], names)]
             T == {n \in 0..Len(ms) : \E f : Goes(n, f)}
  <1>1. 0 \in T
    <2>1. Goes(0, [i \in 0..0 |-> << >>])
      OBVIOUS
    <2>2. \E f : Goes(0, f)
      BY <2>1
    <2> HIDE DEF Goes
    <2>3. QED
      BY <2>2
  <1>2. ASSUME NEW n \in 1..Len(ms), n - 1 \in T PROVE n \in T
    <2>1. PICK f : Goes(n - 1, f)
      BY <1>2
    <2> DEFINE g == [i \in 0..n |-> IF i = n THEN Talk!Joined(f[n - 1], ms[n], names) ELSE f[i]]
    <2>2. \A i \in 0..n - 1 : f[i] = IF i = 0 THEN << >> ELSE Talk!Joined(f[i - 1], ms[i], names)
      BY <2>1
    <2>3. \A i \in 0..n : g[i] = IF i = n THEN Talk!Joined(f[n - 1], ms[n], names) ELSE f[i]
      OBVIOUS
    <2>4. \A i \in 0..n - 1 : g[i] = f[i]
      BY <2>3
    <2>5. ASSUME NEW i \in 0..n
          PROVE  g[i] = IF i = 0 THEN << >> ELSE Talk!Joined(g[i - 1], ms[i], names)
      <3>1. CASE i = n
        BY <2>3, <2>4, <3>1
      <3>2. CASE i \in 0..n - 1 /\ i # 0
        <4>1. i - 1 \in 0..n - 1 /\ g[i] = f[i] /\ g[i - 1] = f[i - 1]
          BY <2>4, <3>2
        <4>2. QED
          BY <2>2, <3>2, <4>1
      <3>3. CASE i = 0
        BY <2>2, <2>4, <3>3
      <3>4. QED
        BY <3>1, <3>2, <3>3
    <2>6. g = [i \in 0..n |-> g[i]]
      OBVIOUS
    <2> HIDE DEF g
    <2>7. Goes(n, g)
      BY <2>5, <2>6
    <2> HIDE DEF Goes
    <2>8. (\E f1 : Goes(n, f1)) /\ n \in 0..Len(ms)
      BY <2>7
    <2>9. QED
      BY <2>8
  <1>3. Len(ms) \in T
    <2>1. \A n \in 1..Len(ms) : n - 1 \in T => n \in T
      BY <1>2
    <2> HIDE DEF T
    <2>2. \A n \in 0..Len(ms) : n \in T
      BY <1>1, <2>1, UpTo
    <2>3. QED
      BY <2>2
  <1> DEFINE upTo == CHOOSE f : Goes(Len(ms), f)
  <1>4. Goes(Len(ms), upTo)
    BY <1>3
  <1>5. Talk!MergedTurns(ms, names) = upTo[Len(ms)]
    BY DEF Talk!MergedTurns
  <1> HIDE DEF upTo
  <1>6. upTo[0] = << >>
    BY <1>4
  <1>7. \A i \in 1..Len(ms) : upTo[i] = Talk!Joined(upTo[i - 1], ms[i], names)
    BY <1>4
  <1>8. QED
    BY <1>5, <1>6, <1>7

\* What the turn after the i-th answers.
AnswersTo(turns, i) == IF i < Len(turns) THEN Talk!Results(turns[i + 1]) ELSE {}

\* A person begins; the speakers alternate; the assistant calls and the others
\* answer, all of it, but that "open" is still unanswered of the last calls.
TurnsTold(turns, open) ==
  /\ IsList(turns) /\ turns # << >>
  /\ turns[1].role = "user" /\ Talk!Results(turns[1]) = {}
  /\ \A i \in DOMAIN turns :
       /\ turns[i] = [role |-> turns[i].role, blocks |-> turns[i].blocks]
       /\ turns[i].role \in {"user", "assistant"} /\ IsList(turns[i].blocks)
       /\ turns[i].role = "assistant" =>
            /\ Talk!Results(turns[i]) = {}
            /\ AnswersTo(turns, i) \subseteq Talk!Uses(turns[i])
            /\ Talk!Uses(turns[i]) \ AnswersTo(turns, i) = IF i + 1 >= Len(turns) THEN open ELSE {}
  /\ \A i \in 2..Len(turns) : turns[i].role # turns[i - 1].role
  /\ Len(turns) = 1 => open = {}

\* What the last turn comes to when more is said by the same speaker.
LEMMA SaidOn ==
  ASSUME NEW turns, NEW open, TurnsTold(turns, open), NEW bs, IsList(bs)
  PROVE  LET more == [turns EXCEPT ![Len(turns)].blocks = @ \o bs]
             n == Len(turns)
         IN  /\ IsList(more) /\ more # << >> /\ Len(more) = n /\ DOMAIN more = DOMAIN turns
             /\ \A i \in 1..n - 1 : more[i] = turns[i]
             /\ more[n].role = turns[n].role /\ IsList(more[n].blocks)
             /\ more[n] = [role |-> more[n].role, blocks |-> more[n].blocks]
             /\ Talk!Uses(more[n]) = Talk!Uses(turns[n]) \cup UsesIn(bs)
             /\ Talk!Results(more[n]) = Talk!Results(turns[n]) \cup ResultsIn(bs)
  <1> DEFINE n == Len(turns)
             last == turns[n]
             more == [turns EXCEPT ![n].blocks = @ \o bs]
  <1>1. IsList(turns) /\ turns # << >> /\ n \in Nat /\ n # 0 /\ DOMAIN turns = 1..n
    BY ListFacts DEF TurnsTold
  <1>2. n \in DOMAIN turns /\ IsList(last.blocks) /\ last = [role |-> last.role, blocks |-> last.blocks]
    <2>1. n \in DOMAIN turns
      BY <1>1
    <2>2. QED
      BY <2>1 DEF TurnsTold
  <1> HIDE DEF last
  <1>3. more = [turns EXCEPT ![n] = [last EXCEPT !.blocks = last.blocks \o bs]]
    BY <1>1, <1>2 DEF last
  <1> DEFINE said == [last EXCEPT !.blocks = last.blocks \o bs]
  <1>4. more = [turns EXCEPT ![n] = said]
    BY <1>3
  <1> HIDE DEF said, more, n
  <1>5. DOMAIN more = 1..n /\ more = [i \in 1..n |-> more[i]]
    BY <1>1, <1>4
  <1>6. more[n] = said
    BY <1>1, <1>2, <1>4
  <1>7. ASSUME NEW i \in 1..n - 1 PROVE more[i] = turns[i]
    <2>1. i \in DOMAIN turns /\ i # n
      BY <1>1
    <2>2. QED
      BY <1>4, <2>1
  <1>8. /\ DOMAIN more = 1..n /\ more = [i \in 1..n |-> more[i]]
        /\ \A i \in 1..n - 1 : more[i] = turns[i]
        /\ more[n] = said
    BY <1>5, <1>6, <1>7
  <1> USE DEF said
  <1>9. more[n] = [role |-> last.role, blocks |-> last.blocks \o bs]
    BY <1>2, <1>8
  <1>10. more[n].role = last.role /\ more[n].blocks = last.blocks \o bs
        /\ more[n] = [role |-> more[n].role, blocks |-> more[n].blocks]
    BY <1>9
  <1>11. IsList(more) /\ Len(more) = n
    BY <1>1, <1>8, ListOf
  <1>12. more # << >>
    BY <1>1, <1>11, ListFacts
  <1>13. /\ IsList(last.blocks \o bs)
        /\ UsesIn(last.blocks \o bs) = UsesIn(last.blocks) \cup UsesIn(bs)
        /\ ResultsIn(last.blocks \o bs) = ResultsIn(last.blocks) \cup ResultsIn(bs)
    BY <1>2, BlocksJoined
  <1>14. /\ Talk!Uses(more[n]) = UsesIn(more[n].blocks) /\ Talk!Uses(last) = UsesIn(last.blocks)
        /\ Talk!Results(more[n]) = ResultsIn(more[n].blocks)
        /\ Talk!Results(last) = ResultsIn(last.blocks)
    BY DEF Talk!Uses, Talk!Results, UsesIn, ResultsIn
  <1>15. /\ Talk!Uses(more[n]) = Talk!Uses(last) \cup UsesIn(bs)
         /\ Talk!Results(more[n]) = Talk!Results(last) \cup ResultsIn(bs)
         /\ IsList(more[n].blocks)
    BY <1>10, <1>13, <1>14
  <1> HIDE DEF said
  <1>16. DOMAIN more = DOMAIN turns
    BY <1>1, <1>5
  <1>17. more = [turns EXCEPT ![Len(turns)].blocks = @ \o bs]
    BY DEF more, n
  <1>18. QED
    BY <1>7, <1>10, <1>11, <1>12, <1>15, <1>16, <1>17 DEF last, n

\* A turn that begins.
LEMMA NewTurn ==
  ASSUME NEW turns, IsList(turns), NEW who, NEW bs, IsList(bs)
  PROVE  LET more == Append(turns, [role |-> who, blocks |-> bs])
             n == Len(turns)
         IN  /\ IsList(more) /\ more # << >> /\ Len(more) = n + 1 /\ DOMAIN more = 1..n + 1
             /\ \A i \in 1..n : more[i] = turns[i]
             /\ more[n + 1].role = who /\ IsList(more[n + 1].blocks)
             /\ more[n + 1] = [role |-> more[n + 1].role, blocks |-> more[n + 1].blocks]
             /\ Talk!Uses(more[n + 1]) = UsesIn(bs) /\ Talk!Results(more[n + 1]) = ResultsIn(bs)
  <1> DEFINE turn == [role |-> who, blocks |-> bs]
             more == Append(turns, turn)
             n == Len(turns)
  <1>1. /\ turn.role = who /\ turn.blocks = bs
        /\ turn = [role |-> turn.role, blocks |-> turn.blocks]
    OBVIOUS
  <1> HIDE DEF turn
  <1>2. IsList(more) /\ Len(more) = n + 1 /\ more[n + 1] = turn /\ \A i \in 1..n : more[i] = turns[i]
    BY ListAppend
  <1> HIDE DEF more
  <1>3. n \in Nat
    BY ListFacts
  <1>4. DOMAIN more = 1..n + 1 /\ more # << >>
    BY <1>2, <1>3, ListFacts
  <1>5. Talk!Uses(turn) = UsesIn(bs) /\ Talk!Results(turn) = ResultsIn(bs)
    BY <1>1 DEF Talk!Uses, Talk!Results, UsesIn, ResultsIn
  <1>6. QED
    BY <1>1, <1>2, <1>4, <1>5 DEF more, turn

\* The assistant speaks when it has every answer.
LEMMA TurnSpoken ==
  ASSUME NEW turns, TurnsTold(turns, {}), NEW names,
         NEW m, m.role = "assistant", IsList(m.calls), m.text \in BOOLEAN
  PROVE  TurnsTold(Talk!Joined(turns, m, names), IdsOf(m))
  <1> DEFINE bs == Talk!Blocks(m, names)
             n == Len(turns)
             new == Talk!Joined(turns, m, names)
  <1>1. IsMessage(m)
    BY DEF IsMessage
  <1>2. IsList(bs) /\ UsesIn(bs) = IdsOf(m) /\ ResultsIn(bs) = {}
    BY <1>1, BlocksSay
  <1>3. Talk!Speaker(m) = "assistant" /\ m.role # "system"
    BY DEF Talk!Speaker
  <1> HIDE DEF bs
  <1>4. new = IF bs = << >> THEN turns
              ELSE IF turns # << >> /\ turns[n].role = "assistant"
              THEN [turns EXCEPT ![n].blocks = @ \o bs]
              ELSE Append(turns, [role |-> "assistant", blocks |-> bs])
    BY <1>3 DEF Talk!Joined, bs
  <1> HIDE DEF n, new
  <1>5. /\ IsList(turns) /\ turns # << >> /\ n \in Nat /\ n >= 1 /\ DOMAIN turns = 1..n
        /\ turns[1].role = "user" /\ Talk!Results(turns[1]) = {}
    BY ListFacts DEF TurnsTold, n
  <1>6. \A i \in 1..n :
          /\ turns[i] = [role |-> turns[i].role, blocks |-> turns[i].blocks]
          /\ turns[i].role \in {"user", "assistant"} /\ IsList(turns[i].blocks)
          /\ turns[i].role = "assistant" =>
               /\ Talk!Results(turns[i]) = {}
               /\ AnswersTo(turns, i) \subseteq Talk!Uses(turns[i])
               /\ Talk!Uses(turns[i]) \ AnswersTo(turns, i) = {}
    <2>1. \A i \in 1..n : (IF i + 1 >= Len(turns) THEN {} ELSE {}) = {}
      OBVIOUS
    <2>2. QED
      BY <1>5, <2>1 DEF TurnsTold
  <1>7. \A i \in 2..n : turns[i].role # turns[i - 1].role
    BY DEF TurnsTold, n
  <1>8. CASE bs = << >>
    <2>1. IdsOf(m) = {}
      BY <1>2, <1>8, NoBlocks
    <2>2. new = turns
      BY <1>4, <1>8
    <2>3. QED
      BY <2>1, <2>2 DEF new
  <1>9. CASE bs # << >> /\ turns[n].role = "assistant"
    <2>1. new = [turns EXCEPT ![n].blocks = @ \o bs]
      BY <1>4, <1>5, <1>9
    <2>2. /\ IsList(new) /\ new # << >> /\ Len(new) = n /\ DOMAIN new = 1..n
          /\ \A i \in 1..n - 1 : new[i] = turns[i]
          /\ new[n].role = "assistant" /\ IsList(new[n].blocks)
          /\ new[n] = [role |-> new[n].role, blocks |-> new[n].blocks]
          /\ Talk!Uses(new[n]) = Talk!Uses(turns[n]) \cup IdsOf(m)
          /\ Talk!Results(new[n]) = Talk!Results(turns[n]) \cup {}
      <3> DEFINE more == [turns EXCEPT ![Len(turns)].blocks = @ \o bs]
      <3>1. /\ IsList(more) /\ more # << >> /\ Len(more) = Len(turns) /\ DOMAIN more = DOMAIN turns
            /\ \A i \in 1..Len(turns) - 1 : more[i] = turns[i]
            /\ more[Len(turns)].role = turns[Len(turns)].role /\ IsList(more[Len(turns)].blocks)
            /\ more[Len(turns)] = [role |-> more[Len(turns)].role,
                                   blocks |-> more[Len(turns)].blocks]
            /\ Talk!Uses(more[Len(turns)]) = Talk!Uses(turns[Len(turns)]) \cup UsesIn(bs)
            /\ Talk!Results(more[Len(turns)]) = Talk!Results(turns[Len(turns)]) \cup ResultsIn(bs)
        BY <1>2, SaidOn
      <3>2. new = more
        BY <2>1 DEF n
      <3> HIDE DEF more
      <3>3. QED
        BY <1>2, <1>5, <1>9, <3>1, <3>2 DEF n
    <2>3. n # 1 /\ n - 1 \in 1..n - 1 /\ turns[n - 1].role # "assistant" /\ 1 \in 1..n - 1
      BY <1>5, <1>7, <1>9
    <2>4. AnswersTo(turns, n) = {} /\ AnswersTo(new, n) = {}
      BY <1>5, <2>2 DEF AnswersTo, n
    <2>5. Talk!Uses(turns[n]) = {} /\ Talk!Results(turns[n]) = {}
      <3>1. n \in 1..n
        BY <1>5
      <3>2. QED
        BY <1>6, <1>9, <2>4, <3>1
    <2>6. \A i \in 1..n - 2 : AnswersTo(new, i) = AnswersTo(turns, i)
      <3>1. \A i \in 1..n - 2 : i + 1 \in 1..n - 1 /\ i < n
        BY <1>5
      <3>2. QED
        BY <2>2, <3>1 DEF AnswersTo, n
    <2>7. ASSUME NEW i \in DOMAIN new
          PROVE  /\ new[i] = [role |-> new[i].role, blocks |-> new[i].blocks]
                 /\ new[i].role \in {"user", "assistant"} /\ IsList(new[i].blocks)
                 /\ new[i].role = "assistant" =>
                      /\ Talk!Results(new[i]) = {}
                      /\ AnswersTo(new, i) \subseteq Talk!Uses(new[i])
                      /\ Talk!Uses(new[i]) \ AnswersTo(new, i)
                           = IF i + 1 >= Len(new) THEN IdsOf(m) ELSE {}
      <3>1. CASE i = n
        <4>1. i + 1 >= Len(new)
          BY <1>5, <2>2, <3>1
        <4>2. Talk!Uses(new[i]) = IdsOf(m) /\ AnswersTo(new, i) = {} /\ Talk!Results(new[i]) = {}
          BY <2>2, <2>4, <2>5, <3>1
        <4>3. QED
          BY <2>2, <3>1, <4>1, <4>2
      <3>2. CASE i = n - 1
        <4>1. new[i] = turns[i] /\ new[i].role # "assistant" /\ i \in 1..n
          BY <1>5, <2>2, <2>3, <3>2
        <4>2. QED
          BY <1>6, <4>1
      <3>3. CASE i # n /\ i # n - 1
        <4>1. i \in 1..n - 2 /\ i \in 1..n - 1 /\ i \in 1..n /\ ~ (i + 1 >= Len(new))
          BY <1>5, <2>2, <3>3
        <4>2. new[i] = turns[i] /\ AnswersTo(new, i) = AnswersTo(turns, i)
          BY <2>2, <2>6, <4>1
        <4>3. QED
          BY <1>6, <4>1, <4>2
      <3>4. QED
        BY <3>1, <3>2, <3>3
    <2>8. \A i \in 2..Len(new) : new[i].role # new[i - 1].role
      <3> SUFFICES ASSUME NEW i \in 2..n PROVE new[i].role # new[i - 1].role
        BY <2>2
      <3>1. i - 1 \in 1..n - 1 /\ (i = n \/ i \in 1..n - 1)
        BY <1>5
      <3>2. new[i].role = turns[i].role /\ new[i - 1] = turns[i - 1]
        BY <1>9, <2>2, <3>1
      <3>3. QED
        BY <1>7, <3>2
    <2>9. new[1] = turns[1] /\ Len(new) # 1
      BY <2>2, <2>3
    <2>10. TurnsTold(new, IdsOf(m))
      BY <1>5, <2>2, <2>7, <2>8, <2>9 DEF TurnsTold
    <2>11. QED
      BY <2>10 DEF new
  <1>10. CASE bs # << >> /\ turns[n].role # "assistant"
    <2>1. new = Append(turns, [role |-> "assistant", blocks |-> bs])
      BY <1>4, <1>5, <1>10
    <2>2. /\ IsList(new) /\ new # << >> /\ Len(new) = n + 1 /\ DOMAIN new = 1..n + 1
          /\ \A i \in 1..n : new[i] = turns[i]
          /\ new[n + 1].role = "assistant" /\ IsList(new[n + 1].blocks)
          /\ new[n + 1] = [role |-> new[n + 1].role, blocks |-> new[n + 1].blocks]
          /\ Talk!Uses(new[n + 1]) = IdsOf(m) /\ Talk!Results(new[n + 1]) = {}
      BY <1>2, <1>5, <2>1, NewTurn DEF n
    <2>3. AnswersTo(new, n + 1) = {}
      BY <1>5, <2>2 DEF AnswersTo
    <2>4. \A i \in 1..n - 1 : AnswersTo(new, i) = AnswersTo(turns, i)
      <3>1. \A i \in 1..n - 1 : i + 1 \in 1..n /\ i < n /\ i < n + 1
        BY <1>5
      <3>2. QED
        BY <2>2, <3>1 DEF AnswersTo, n
    <2>5. ASSUME NEW i \in DOMAIN new
          PROVE  /\ new[i] = [role |-> new[i].role, blocks |-> new[i].blocks]
                 /\ new[i].role \in {"user", "assistant"} /\ IsList(new[i].blocks)
                 /\ new[i].role = "assistant" =>
                      /\ Talk!Results(new[i]) = {}
                      /\ AnswersTo(new, i) \subseteq Talk!Uses(new[i])
                      /\ Talk!Uses(new[i]) \ AnswersTo(new, i)
                           = IF i + 1 >= Len(new) THEN IdsOf(m) ELSE {}
      <3>1. CASE i = n + 1
        <4>1. i + 1 >= Len(new)
          BY <1>5, <2>2, <3>1
        <4>2. QED
          BY <2>2, <2>3, <3>1, <4>1
      <3>2. CASE i = n
        <4>1. new[i] = turns[i] /\ new[i].role # "assistant" /\ i \in 1..n
          BY <1>5, <1>10, <2>2, <3>2
        <4>2. QED
          BY <1>6, <4>1
      <3>3. CASE i # n /\ i # n + 1
        <4>1. i \in 1..n - 1 /\ i \in 1..n /\ ~ (i + 1 >= Len(new))
          BY <1>5, <2>2, <3>3
        <4>2. new[i] = turns[i] /\ AnswersTo(new, i) = AnswersTo(turns, i)
          BY <2>2, <2>4, <4>1
        <4>3. QED
          BY <1>6, <4>1, <4>2
      <3>4. QED
        BY <3>1, <3>2, <3>3
    <2>6. \A i \in 2..Len(new) : new[i].role # new[i - 1].role
      <3> SUFFICES ASSUME NEW i \in 2..n + 1 PROVE new[i].role # new[i - 1].role
        BY <2>2
      <3>1. i - 1 \in 1..n /\ new[i - 1] = turns[i - 1]
        BY <1>5, <2>2
      <3>2. CASE i = n + 1
        BY <1>5, <1>10, <2>2, <3>1, <3>2
      <3>3. CASE i # n + 1
        <4>1. i \in 2..n /\ i \in 1..n
          BY <1>5, <3>3
        <4>2. QED
          BY <1>7, <2>2, <3>1, <4>1
      <3>4. QED
        BY <3>2, <3>3
    <2>7. new[1] = turns[1] /\ Len(new) # 1
      BY <1>5, <2>2
    <2>8. TurnsTold(new, IdsOf(m))
      BY <1>5, <2>2, <2>5, <2>6, <2>7 DEF TurnsTold
    <2>9. QED
      BY <2>8 DEF new
  <1>11. QED
    BY <1>8, <1>9, <1>10

\* A tool answers when it was called and has not answered yet.
LEMMA TurnAnswered ==
  ASSUME NEW turns, NEW open, TurnsTold(turns, open), NEW names,
         NEW m, m.role = "tool", m.of \in open
  PROVE  TurnsTold(Talk!Joined(turns, m, names), open \ {m.of})
  <1> DEFINE bs == Talk!Blocks(m, names)
             n == Len(turns)
             new == Talk!Joined(turns, m, names)
             left == open \ {m.of}
  <1>1. IsMessage(m)
    BY DEF IsMessage
  <1>2. IsList(bs) /\ UsesIn(bs) = {} /\ ResultsIn(bs) = {m.of} /\ bs # << >>
    BY <1>1, BlocksSay
  <1>3. Talk!Speaker(m) = "user" /\ m.role # "system"
    BY DEF Talk!Speaker
  <1> HIDE DEF bs
  <1>4. new = IF turns # << >> /\ turns[n].role = "user"
              THEN [turns EXCEPT ![n].blocks = @ \o bs]
              ELSE Append(turns, [role |-> "user", blocks |-> bs])
    BY <1>2, <1>3 DEF Talk!Joined, bs
  <1> HIDE DEF n, new
  <1>5. /\ IsList(turns) /\ turns # << >> /\ n \in Nat /\ n >= 1 /\ DOMAIN turns = 1..n
        /\ turns[1].role = "user" /\ Talk!Results(turns[1]) = {}
    BY ListFacts DEF TurnsTold, n
  <1>6. \A i \in 1..n :
          /\ turns[i] = [role |-> turns[i].role, blocks |-> turns[i].blocks]
          /\ turns[i].role \in {"user", "assistant"} /\ IsList(turns[i].blocks)
          /\ turns[i].role = "assistant" =>
               /\ Talk!Results(turns[i]) = {}
               /\ AnswersTo(turns, i) \subseteq Talk!Uses(turns[i])
               /\ Talk!Uses(turns[i]) \ AnswersTo(turns, i) = IF i + 1 >= n THEN open ELSE {}
    BY <1>5 DEF TurnsTold, n
  <1>7. \A i \in 2..n : turns[i].role # turns[i - 1].role
    BY DEF TurnsTold, n
  <1>8. n # 1 /\ n - 1 \in 1..n - 1 /\ n - 1 \in 1..n /\ n \in 2..n /\ n \in 1..n
        /\ 1 \in 1..n - 1
    <2>1. n # 1
      BY DEF TurnsTold, n
    <2>2. QED
      BY <1>5, <2>1
  <1>9. turns[n].role # turns[n - 1].role
    BY <1>7, <1>8
  <1>10. CASE turns[n].role = "user"
    <2>1. new = [turns EXCEPT ![n].blocks = @ \o bs]
      BY <1>4, <1>5, <1>10
    <2>2. /\ IsList(new) /\ new # << >> /\ Len(new) = n /\ DOMAIN new = 1..n
          /\ \A i \in 1..n - 1 : new[i] = turns[i]
          /\ new[n].role = "user" /\ IsList(new[n].blocks)
          /\ new[n] = [role |-> new[n].role, blocks |-> new[n].blocks]
          /\ Talk!Results(new[n]) = Talk!Results(turns[n]) \cup {m.of}
      <3> DEFINE more == [turns EXCEPT ![Len(turns)].blocks = @ \o bs]
      <3>1. /\ IsList(more) /\ more # << >> /\ Len(more) = Len(turns) /\ DOMAIN more = DOMAIN turns
            /\ \A i \in 1..Len(turns) - 1 : more[i] = turns[i]
            /\ more[Len(turns)].role = turns[Len(turns)].role /\ IsList(more[Len(turns)].blocks)
            /\ more[Len(turns)] = [role |-> more[Len(turns)].role,
                                   blocks |-> more[Len(turns)].blocks]
            /\ Talk!Results(more[Len(turns)]) = Talk!Results(turns[Len(turns)]) \cup ResultsIn(bs)
        BY <1>2, SaidOn
      <3>2. new = more
        BY <2>1 DEF n
      <3> HIDE DEF more
      <3>3. QED
        BY <1>2, <1>5, <1>10, <3>1, <3>2 DEF n
    <2>3. turns[n - 1].role = "assistant"
      BY <1>6, <1>8, <1>9, <1>10
    <2>4. /\ AnswersTo(turns, n - 1) = Talk!Results(turns[n])
          /\ AnswersTo(new, n - 1) = Talk!Results(turns[n]) \cup {m.of}
      <3>1. n - 1 < n /\ n - 1 + 1 = n
        BY <1>5
      <3>2. AnswersTo(turns, n - 1) = Talk!Results(turns[n])
        BY <3>1 DEF AnswersTo, n
      <3>3. AnswersTo(new, n - 1) = Talk!Results(new[n])
        BY <2>2, <3>1 DEF AnswersTo
      <3>4. QED
        BY <2>2, <3>2, <3>3
    <2>5. /\ Talk!Results(turns[n - 1]) = {}
          /\ Talk!Results(turns[n]) \subseteq Talk!Uses(turns[n - 1])
          /\ Talk!Uses(turns[n - 1]) \ Talk!Results(turns[n]) = open
      <3>1. n - 1 + 1 >= n
        BY <1>5
      <3>2. QED
        BY <1>6, <1>8, <2>3, <2>4, <3>1
    <2>6. \A i \in 1..n - 2 : AnswersTo(new, i) = AnswersTo(turns, i)
      <3>1. \A i \in 1..n - 2 : i + 1 \in 1..n - 1 /\ i < n
        BY <1>5
      <3>2. QED
        BY <2>2, <3>1 DEF AnswersTo, n
    <2>7. ASSUME NEW i \in DOMAIN new
          PROVE  /\ new[i] = [role |-> new[i].role, blocks |-> new[i].blocks]
                 /\ new[i].role \in {"user", "assistant"} /\ IsList(new[i].blocks)
                 /\ new[i].role = "assistant" =>
                      /\ Talk!Results(new[i]) = {}
                      /\ AnswersTo(new, i) \subseteq Talk!Uses(new[i])
                      /\ Talk!Uses(new[i]) \ AnswersTo(new, i)
                           = IF i + 1 >= Len(new) THEN left ELSE {}
      <3>1. CASE i = n
        BY <2>2, <3>1
      <3>2. CASE i = n - 1
        <4>1. i + 1 >= Len(new)
          BY <1>5, <2>2, <3>2
        <4>2. new[i] = turns[i]
          BY <1>8, <2>2, <3>2
        <4>3. /\ AnswersTo(new, i) \subseteq Talk!Uses(new[i])
              /\ Talk!Uses(new[i]) \ AnswersTo(new, i) = left
          BY <2>4, <2>5, <3>2, <4>2
        <4>4. Talk!Results(new[i]) = {}
          BY <2>5, <3>2, <4>2
        <4>5. QED
          BY <1>6, <1>8, <3>2, <4>1, <4>2, <4>3, <4>4
      <3>3. CASE i # n /\ i # n - 1
        <4>1. i \in 1..n - 2 /\ i \in 1..n - 1 /\ i \in 1..n /\ ~ (i + 1 >= n)
          BY <1>5, <2>2, <3>3
        <4>2. new[i] = turns[i] /\ AnswersTo(new, i) = AnswersTo(turns, i) /\ ~ (i + 1 >= Len(new))
          BY <2>2, <2>6, <4>1
        <4>3. QED
          BY <1>6, <4>1, <4>2
      <3>4. QED
        BY <3>1, <3>2, <3>3
    <2>8. \A i \in 2..Len(new) : new[i].role # new[i - 1].role
      <3> SUFFICES ASSUME NEW i \in 2..n PROVE new[i].role # new[i - 1].role
        BY <2>2
      <3>1. i - 1 \in 1..n - 1 /\ (i = n \/ i \in 1..n - 1)
        BY <1>5
      <3>2. new[i].role = turns[i].role /\ new[i - 1] = turns[i - 1]
        BY <1>10, <2>2, <3>1
      <3>3. QED
        BY <1>7, <3>2
    <2>9. new[1] = turns[1] /\ Len(new) # 1
      BY <1>8, <2>2
    <2>10. TurnsTold(new, left)
      BY <1>5, <2>2, <2>7, <2>8, <2>9 DEF TurnsTold
    <2>11. QED
      BY <2>10 DEF new
  <1>11. CASE turns[n].role # "user"
    <2>1. new = Append(turns, [role |-> "user", blocks |-> bs])
      BY <1>4, <1>5, <1>11
    <2>2. /\ IsList(new) /\ new # << >> /\ Len(new) = n + 1 /\ DOMAIN new = 1..n + 1
          /\ \A i \in 1..n : new[i] = turns[i]
          /\ new[n + 1].role = "user" /\ IsList(new[n + 1].blocks)
          /\ new[n + 1] = [role |-> new[n + 1].role, blocks |-> new[n + 1].blocks]
          /\ Talk!Results(new[n + 1]) = {m.of}
      BY <1>2, <1>5, <2>1, NewTurn DEF n
    <2>3. turns[n].role = "assistant"
      BY <1>6, <1>8, <1>11
    <2>4. AnswersTo(turns, n) = {} /\ AnswersTo(new, n) = {m.of}
      <3>1. ~ (n < n) /\ n < n + 1
        BY <1>5
      <3>2. QED
        BY <2>2, <3>1 DEF AnswersTo, n
    <2>5. Talk!Uses(turns[n]) = open /\ Talk!Results(turns[n]) = {}
      <3>1. n + 1 >= n
        BY <1>5
      <3>2. QED
        BY <1>6, <1>8, <2>3, <2>4, <3>1
    <2>6. \A i \in 1..n - 1 : AnswersTo(new, i) = AnswersTo(turns, i)
      <3>1. \A i \in 1..n - 1 : i + 1 \in 1..n /\ i < n /\ i < n + 1
        BY <1>5
      <3>2. QED
        BY <2>2, <3>1 DEF AnswersTo, n
    <2>7. ASSUME NEW i \in DOMAIN new
          PROVE  /\ new[i] = [role |-> new[i].role, blocks |-> new[i].blocks]
                 /\ new[i].role \in {"user", "assistant"} /\ IsList(new[i].blocks)
                 /\ new[i].role = "assistant" =>
                      /\ Talk!Results(new[i]) = {}
                      /\ AnswersTo(new, i) \subseteq Talk!Uses(new[i])
                      /\ Talk!Uses(new[i]) \ AnswersTo(new, i)
                           = IF i + 1 >= Len(new) THEN left ELSE {}
      <3>1. CASE i = n + 1
        BY <2>2, <3>1
      <3>2. CASE i = n
        <4>1. i + 1 >= Len(new) /\ new[i] = turns[i]
          BY <1>5, <1>8, <2>2, <3>2
        <4>2. /\ AnswersTo(new, i) \subseteq Talk!Uses(new[i])
              /\ Talk!Uses(new[i]) \ AnswersTo(new, i) = left
          BY <2>4, <2>5, <3>2, <4>1
        <4>3. Talk!Results(new[i]) = {}
          BY <2>5, <3>2, <4>1
        <4>4. QED
          BY <1>6, <1>8, <3>2, <4>1, <4>2, <4>3
      <3>3. CASE i # n /\ i # n + 1
        <4>1. i \in 1..n - 1 /\ i \in 1..n /\ ~ (i + 1 >= n + 1)
          BY <1>5, <2>2, <3>3
        <4>2. new[i] = turns[i] /\ AnswersTo(new, i) = AnswersTo(turns, i) /\ ~ (i + 1 >= Len(new))
          BY <2>2, <2>6, <4>1
        <4>3. CASE turns[i].role = "assistant"
          \* The next is not the assistant's, so this one is not the last but one.
          <5>1. PICK j \in 2..n : j = i + 1 /\ j - 1 = i
            BY <1>5, <4>1
          <5>2. turns[j].role # turns[j - 1].role
            BY <1>7
          <5>3. turns[j].role # "assistant"
            BY <4>3, <5>1, <5>2
          <5>4. i + 1 # n
            BY <2>3, <5>1, <5>3
          <5>5. ~ (i + 1 >= n)
            BY <1>5, <4>1, <5>4
          <5>6. QED
            BY <1>6, <4>1, <4>2, <5>5
        <4>4. QED
          BY <1>6, <4>1, <4>2, <4>3
      <3>4. QED
        BY <3>1, <3>2, <3>3
    <2>8. \A i \in 2..Len(new) : new[i].role # new[i - 1].role
      <3> SUFFICES ASSUME NEW i \in 2..n + 1 PROVE new[i].role # new[i - 1].role
        BY <2>2
      <3>1. i - 1 \in 1..n /\ new[i - 1] = turns[i - 1]
        BY <1>5, <2>2
      <3>2. CASE i = n + 1
        BY <1>5, <1>11, <2>2, <3>1, <3>2
      <3>3. CASE i # n + 1
        <4>1. i \in 2..n /\ i \in 1..n
          BY <1>5, <3>3
        <4>2. QED
          BY <1>7, <2>2, <3>1, <4>1
      <3>4. QED
        BY <3>2, <3>3
    <2>9. new[1] = turns[1] /\ Len(new) # 1
      BY <1>5, <1>8, <2>2
    <2>10. TurnsTold(new, left)
      BY <1>5, <2>2, <2>7, <2>8, <2>9 DEF TurnsTold
    <2>11. QED
      BY <2>10 DEF new
  <1>12. QED
    BY <1>10, <1>11

\* The first turn is the person's.
LEMMA TurnsOpen ==
  ASSUME NEW names
  PROVE  /\ Talk!Joined(<< >>, Talk!System, names) = << >>
         /\ TurnsTold(Talk!Joined(<< >>, Talk!User, names), {})
  <1> DEFINE bs == Talk!Blocks(Talk!User, names)
             new == Append(<< >>, [role |-> "user", blocks |-> bs])
  <1>1. Talk!Joined(<< >>, Talk!System, names) = << >>
    BY DEF Talk!Joined, Talk!System
  <1>2. IsMessage(Talk!User) /\ Talk!User.role = "user"
    BY DEF IsMessage, Talk!User
  <1>3. IsList(bs) /\ UsesIn(bs) = {} /\ ResultsIn(bs) = {} /\ bs # << >>
    BY <1>2, BlocksSay
  <1>4. Talk!Joined(<< >>, Talk!User, names) = new
    BY <1>2, <1>3 DEF Talk!Joined, Talk!Speaker
  <1> HIDE DEF bs
  <1>5. IsList(<< >>) /\ Len(<< >>) = 0
    BY NoBlocks
  <1>6. /\ IsList(new) /\ new # << >> /\ Len(new) = 1 /\ DOMAIN new = 1..1
        /\ new[1].role = "user" /\ IsList(new[1].blocks)
        /\ new[1] = [role |-> new[1].role, blocks |-> new[1].blocks]
        /\ Talk!Results(new[1]) = {}
    <2> DEFINE none == << >>
               k == Len(none) + 1
               more == Append(none, [role |-> "user", blocks |-> bs])
    <2>1. k = 1 /\ IsList(none) /\ new = more
      BY <1>5
    <2> HIDE DEF none, k, new
    <2>2. /\ IsList(more) /\ more # << >> /\ Len(more) = k /\ DOMAIN more = 1..k
          /\ more[k].role = "user" /\ IsList(more[k].blocks)
          /\ more[k] = [role |-> more[k].role, blocks |-> more[k].blocks]
          /\ Talk!Results(more[k]) = ResultsIn(bs)
      BY <1>3, <2>1, NewTurn DEF k
    <2> HIDE DEF more
    <2>3. QED
      BY <1>3, <2>1, <2>2
  <1> HIDE DEF new
  <1>7. TurnsTold(new, {})
    <2>1. \A i \in DOMAIN new : i = 1
      BY <1>6
    <2>2. 2..Len(new) = {}
      BY <1>6
    <2>3. QED
      BY <1>6, <2>1, <2>2 DEF TurnsTold
  <1>8. QED
    BY <1>1, <1>4, <1>7

\* Turns told with nothing left open are accepted, and alternate.
LEMMA MergedIsAccepted ==
  ASSUME NEW turns, TurnsTold(turns, {})
  PROVE  Accepted(turns) /\ \A i \in 2..Len(turns) : turns[i].role # turns[i - 1].role
  <1> DEFINE n == Len(turns)
  <1>1. /\ turns # << >> /\ n \in Nat /\ DOMAIN turns = 1..n
        /\ turns[1].role = "user" /\ Talk!Results(turns[1]) = {}
    BY ListFacts DEF TurnsTold
  <1>2. \A i \in 1..n :
          /\ turns[i].role \in {"user", "assistant"}
          /\ turns[i].role = "assistant" =>
               Talk!Results(turns[i]) = {} /\ Talk!Uses(turns[i]) = AnswersTo(turns, i)
    <2> SUFFICES ASSUME NEW i \in 1..n
                 PROVE  /\ turns[i].role \in {"user", "assistant"}
                        /\ turns[i].role = "assistant" =>
                             Talk!Results(turns[i]) = {} /\ Talk!Uses(turns[i]) = AnswersTo(turns, i)
      OBVIOUS
    <2>1. /\ turns[i].role \in {"user", "assistant"}
          /\ turns[i].role = "assistant" =>
               /\ Talk!Results(turns[i]) = {}
               /\ AnswersTo(turns, i) \subseteq Talk!Uses(turns[i])
               /\ Talk!Uses(turns[i]) \ AnswersTo(turns, i) = IF i + 1 >= n THEN {} ELSE {}
      BY <1>1 DEF TurnsTold
    <2>2. QED
      BY <2>1
  <1>3. \A i \in 2..n : turns[i].role # turns[i - 1].role
    BY DEF TurnsTold
  <1> HIDE DEF n
  <1>4. ASSUME NEW i \in 1..n, turns[i].role = "assistant"
        PROVE  Talk!Uses(turns[i]) = UNION {Talk!Results(turns[j]) : j \in Talk!Replies(turns, i)}
    <2>1. Talk!Uses(turns[i]) = AnswersTo(turns, i)
      BY <1>2, <1>4
    <2>2. CASE i = n
      <3>1. i + 1..n = {}
        BY <1>1, <2>2
      <3>2. Talk!Replies(turns, i) = {}
        BY <3>1 DEF Talk!Replies, n
      <3>3. AnswersTo(turns, i) = {}
        BY <1>1, <2>2 DEF AnswersTo, n
      <3>4. QED
        BY <2>1, <3>2, <3>3
    <2>3. CASE i # n
      <3>1. PICK j \in 2..n : j = i + 1 /\ j - 1 = i /\ j \in 1..n
        BY <1>1, <2>3
      <3>2. turns[j].role # "assistant"
        BY <1>3, <1>4, <3>1
      <3>3. \A k \in i + 1..n : k # j => \E l \in i + 1..k : turns[l].role = "assistant"
        <4> SUFFICES ASSUME NEW k \in i + 1..n, k # j
                     PROVE  \E l \in i + 1..k : turns[l].role = "assistant"
          OBVIOUS
        <4>1. PICK l \in 2..n : l = j + 1 /\ l - 1 = j /\ l \in 1..n /\ l \in i + 1..k
          BY <1>1, <3>1
        <4>2. turns[l].role # turns[j].role
          BY <1>3, <4>1
        <4>3. turns[l].role = "assistant"
          BY <1>2, <3>1, <3>2, <4>1, <4>2
        <4>4. QED
          BY <4>1, <4>3
      <3>4. j \in i + 1..n /\ \A k \in i + 1..j : k = j
        BY <1>1, <3>1
      <3>5. Talk!Replies(turns, i) = {j}
        BY <3>2, <3>3, <3>4 DEF Talk!Replies, n
      <3>6. AnswersTo(turns, i) = Talk!Results(turns[j])
        BY <1>1, <3>1 DEF AnswersTo, n
      <3>7. QED
        BY <2>1, <3>5, <3>6
    <2>4. QED
      BY <2>2, <2>3
  <1>5. ASSUME NEW j \in 1..n, NEW c \in Talk!Results(turns[j])
        PROVE  \E i \in 1..n : c \in Talk!Uses(turns[i])
    <2>1. j # 1 /\ turns[j].role # "assistant"
      BY <1>1, <1>2, <1>5
    <2>2. PICK i \in 1..n : i = j - 1 /\ i + 1 = j /\ i < n /\ j \in 2..n
      BY <1>1, <2>1
    <2>3. turns[i].role = "assistant"
      BY <1>2, <1>3, <2>1, <2>2
    <2>4. AnswersTo(turns, i) = Talk!Results(turns[j])
      BY <2>2 DEF AnswersTo, n
    <2>5. QED
      BY <1>2, <1>5, <2>3, <2>4
  <1>6. turns[1].role # "assistant"
    BY <1>1
  <1>7. UNION {Talk!Results(turns[i]) : i \in 1..n} \subseteq UNION {Talk!Uses(turns[i]) : i \in 1..n}
    BY <1>5
  <1>8. QED
    BY <1>1, <1>3, <1>4, <1>6, <1>7 DEF Accepted, n

\* On the messages wire: what the messages so far leave unanswered is what the turns do.
LEMMA MergedAsTold ==
  ASSUME NEW ms, WellTold(ms), ms # << >>, NEW names
  PROVE  TurnsTold(Talk!MergedTurns(ms, names), Unanswered(ms, Len(ms)))
  <1> DEFINE n == Len(ms)
  <1>1. n \in Nat /\ n >= 2 /\ ms[1] = Talk!System /\ ms[2] = Talk!User
    BY ListFacts DEF WellTold
  <1>2. PICK u : /\ u[0] = << >>
                 /\ \A i \in 1..n : u[i] = Talk!Joined(u[i - 1], ms[i], names)
                 /\ Talk!MergedTurns(ms, names) = u[n]
    BY <1>1, TurnsAreMergedInTurn
  <1>3. \A i \in 3..n :
          \/ ms[i].role = "assistant" /\ IsList(ms[i].calls) /\ ms[i].text \in BOOLEAN
               /\ Unanswered(ms, i - 1) = {}
          \/ ms[i].role = "tool" /\ ms[i].of \in Unanswered(ms, i - 1)
    BY DEF WellTold
  <1> HIDE DEF n
  <1>4. u[1] = << >> /\ TurnsTold(u[2], {}) /\ Unanswered(ms, 2) = {}
    <2>1. 1 \in 1..n /\ 2 \in 1..n
      BY <1>1
    <2>2. u[1] = Talk!Joined(u[0], ms[1], names) /\ u[2] = Talk!Joined(u[1], ms[2], names)
      <3>1. u[1] = Talk!Joined(u[1 - 1], ms[1], names) /\ u[2] = Talk!Joined(u[2 - 1], ms[2], names)
        BY <1>2, <2>1
      <3>2. 1 - 1 = 0 /\ 2 - 1 = 1
        OBVIOUS
      <3>3. QED
        BY <3>1, <3>2
    <2>3. u[1] = << >>
      BY <1>1, <1>2, <2>2, TurnsOpen
    <2>4. TurnsTold(u[2], {})
      BY <1>1, <2>2, <2>3, TurnsOpen
    <2>5. \A a \in 1..2 : ms[a].role # "assistant"
      BY <1>1 DEF Talk!System, Talk!User
    <2>6. Unanswered(ms, 2) = {}
      BY <2>5 DEF Unanswered
    <2>7. QED
      BY <2>3, <2>4, <2>6
  <1> DEFINE T == {i \in 0..n : i >= 2 => TurnsTold(u[i], Unanswered(ms, i))}
  <1>5. 0 \in T
    BY <1>1
  <1>6. ASSUME NEW i \in 1..n, i - 1 \in T PROVE i \in T
    <2>1. CASE i = 1
      BY <1>1, <2>1
    <2>2. CASE i = 2
      <3>1. TurnsTold(u[2], Unanswered(ms, 2))
        BY <1>4
      <3>2. i \in 0..n
        BY <1>1
      <3>3. QED
        BY <2>2, <3>1, <3>2
    <2>3. CASE i \in 3..n
      <3>1. u[i] = Talk!Joined(u[i - 1], ms[i], names)
        BY <1>2
      <3>2. TurnsTold(u[i - 1], Unanswered(ms, i - 1))
        BY <1>1, <1>6, <2>3
      <3>3. PICK k \in Nat : k = i - 1 /\ k + 1 = i
        BY <1>1, <2>3
      <3>4. CASE ms[i].role = "tool"
        <4>1. ms[i].of \in Unanswered(ms, k)
          BY <1>3, <2>3, <3>3, <3>4
        <4>2. TurnsTold(u[i], Unanswered(ms, k) \ {ms[i].of})
          BY <3>1, <3>2, <3>3, <3>4, <4>1, TurnAnswered
        <4>3. Unanswered(ms, i) = Unanswered(ms, k) \ {ms[i].of}
          BY <3>3, <3>4, OpenAfterResult
        <4>4. i \in 0..n /\ TurnsTold(u[i], Unanswered(ms, i))
          BY <1>1, <4>2, <4>3
        <4>5. QED
          BY <4>4
      <3>5. CASE ms[i].role # "tool"
        <4>1. ms[i].role = "assistant" /\ IsList(ms[i].calls) /\ ms[i].text \in BOOLEAN
              /\ Unanswered(ms, i - 1) = {}
          BY <1>3, <2>3, <3>5
        <4>2. TurnsTold(u[i], IdsOf(ms[i]))
          BY <3>1, <3>2, <4>1, TurnSpoken
        <4>3. Unanswered(ms, i) = IdsOf(ms[i])
          BY <3>3, <4>1, OpenAfterCalls
        <4>4. i \in 0..n /\ TurnsTold(u[i], Unanswered(ms, i))
          BY <1>1, <4>2, <4>3
        <4>5. QED
          BY <4>4
      <3>6. QED
        BY <3>4, <3>5
    <2>4. QED
      BY <1>1, <2>1, <2>2, <2>3
  <1>7. n \in T
    <2>1. \A i \in 1..n : i - 1 \in T => i \in T
      BY <1>6
    <2> HIDE DEF T
    <2>2. \A i \in 0..n : i \in T
      BY <1>1, <1>5, <2>1, UpTo
    <2>3. QED
      BY <1>1, <2>2
  <1>8. QED
    BY <1>1, <1>2, <1>7 DEF n

-----------------------------------------------------------------------------
(* Every request *)

LEMMA RequestsStep ==
  TalkIsWhole /\ RequestsAreWhole /\ [Talk!Next]_(Talk!vars) => RequestsAreWhole'
  <1> SUFFICES ASSUME TalkIsWhole, RequestsAreWhole, [Talk!Next]_(Talk!vars)
               PROVE  RequestsAreWhole'
    OBVIOUS
  <1>1. CASE Talk!Send
    <2> DEFINE ms == transcript.messages
               names == Talk!Names(Talk!Offered(ms))
               turns == Talk!Turns(ms, names)
    <2>1. request'.turns = turns /\ wire' = wire
      BY <1>1 DEF Talk!Send
    <2>2. WellTold(ms) /\ ms # << >> /\ Unanswered(ms, Len(ms)) = {}
      BY <1>1 DEF Talk!Send, TalkIsWhole
    <2> HIDE DEF ms, names
    <2>3. CASE wire = "messages"
      <3>1. turns = Talk!MergedTurns(ms, names)
        BY <2>3 DEF Talk!Turns
      <3>2. TurnsTold(turns, {})
        BY <2>2, <3>1, MergedAsTold
      <3>3. Accepted(turns) /\ \A i \in 2..Len(turns) : turns[i].role # turns[i - 1].role
        BY <3>2, MergedIsAccepted
      <3> HIDE DEF turns
      <3>4. QED
        BY <2>1, <3>3 DEF RequestsAreWhole, Talk!RequestsAreWhole, Accepted
    <2>4. CASE wire # "messages"
      <3>1. turns = [i \in DOMAIN ms |-> [role |-> ms[i].role, blocks |-> Talk!Blocks(ms[i], names)]]
        BY <2>4 DEF Talk!Turns
      <3> HIDE DEF turns
      <3>2. Accepted(turns)
        BY <2>2, <3>1, ToldIsAccepted
      <3>3. QED
        BY <2>1, <2>4, <3>2 DEF RequestsAreWhole, Talk!RequestsAreWhole, Accepted
    <2>5. QED
      BY <2>3, <2>4
  <1>2. ASSUME phase' # "sent" PROVE RequestsAreWhole'
    BY <1>2 DEF RequestsAreWhole, Talk!RequestsAreWhole
  <1>3. ASSUME UNCHANGED <<wire, phase, request>> PROVE RequestsAreWhole'
    BY <1>3 DEF RequestsAreWhole, Talk!RequestsAreWhole
  <1>4. CASE Talk!TryAgain \/ Talk!Cancel \/ UNCHANGED Talk!vars
    BY <1>3, <1>4 DEF Talk!TryAgain, Talk!Cancel, Talk!vars
  <1>5. CASE Talk!Stop \/ Talk!GiveUp \/ Talk!StopBetween \/ Talk!SendBack \/ Talk!Settle
             \/ Talk!Kill \/ Talk!Resume \/ Talk!FinishPlan
    BY <1>2, <1>5 DEF Talk!Stop, Talk!GiveUp, Talk!StopBetween, Talk!SendBack, Talk!Settle,
                      Talk!Kill, Talk!Resume, Talk!FinishPlan
  <1>6. CASE Talk!CallTool \/ (\E text \in BOOLEAN : Talk!Finish(text))
             \/ (\E wanted \in Talk!SeqOf(Talk!Nameable, MaxCalls) \ {<< >>} : Talk!Ask(wanted))
    BY <1>2, <1>6 DEF Talk!CallTool, Talk!Finish, Talk!Ask
  <1>7. QED
    BY <1>1, <1>4, <1>5, <1>6 DEF Talk!Next

\* However a task is killed, cancelled, sent back or refused, and whatever the model
\* says and calls, each request is one a provider accepts: every call in it has its
\* answer before the assistant speaks again and nothing else is answered, and on the
\* messages wire the speakers alternate.
THEOREM RequestsAreAccepted == Talk!Spec => []RequestsAreWhole
  <1>1. Talk!Init => TalkIsWhole /\ RequestsAreWhole
    <2>1. Talk!Init => phase = "plan"
      BY DEF Talk!Init
    <2>2. QED
      BY <2>1, TalkStarts DEF RequestsAreWhole, Talk!RequestsAreWhole
  <1>2. QED
    BY <1>1, TalkStep, RequestsStep, PTL DEF Talk!Spec

-----------------------------------------------------------------------------
(* The three side by side, as they are checked *)

\* Of each of the three, what they do side by side is a behaviour of it alone, so
\* that what is proved of each holds of the composition a run checks.
THEOREM PartsMoveAlone == AllSpec => Spec /\ Planner!Spec /\ Talk!Spec
  <1>1. AllInit => Init /\ Planner!Init /\ Talk!Init
    BY DEF AllInit
  <1>2. [AllNext]_<<part, vars, plan, talk>>
          => /\ [Next]_vars /\ [Planner!Next]_(Planner!vars) /\ [Talk!Next]_(Talk!vars)
    BY DEF AllNext, plan, talk, Planner!vars, Talk!vars
  <1>3. QED
    BY <1>1, <1>2, PTL DEF AllSpec, Spec, Planner!Spec, Talk!Spec

\* All of it at once, of the composition a run checks: steps wait for what they
\* need and the verdict tells what became of them, a task is told of the tasks it
\* was declared to need, what a model is sent is a conversation its provider
\* accepts, a call reaches the tool the model was shown, and the spending on record
\* is what the log has.
THEOREM WorkflowsAreSafe ==
  AllSpec => [](/\ StepsFollowTheirNeeds
               /\ VerdictTellsTheSteps
               /\ RedoneOnlyWhenLost
               /\ ContextFollowsTheEdges
               /\ RequestsAreWhole
               /\ CallsReachWhatWasShown
               /\ TheLogHasTheSpend)
  BY PartsMoveAlone, NothingStartsOnAGap, VerdictsAreTrue, DoneOnce, ContextIsDeclared,
     RequestsAreAccepted, CallsReachTheirTools, SpendingIsOnRecord, PTL

=============================================================================
