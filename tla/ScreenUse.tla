------------------------------ MODULE ScreenUse ------------------------------
(***************************************************************************)
(* Employees acting on a screen: the tools, the guard that confines them    *)
(* (brake, budget, region, application in front), and the surface behind    *)
(* it, the user's desktop or the one tab of the one browser. The guard, the *)
(* browser and the tab are one per process and shared by every task; the    *)
(* brake is a file and the desktop is the user's, and both change at any    *)
(* moment. Space is one axis: the other is treated alike.                   *)
(***************************************************************************)
EXTENDS Naturals, FiniteSets

CONSTANTS
  Tasks,
  Apps,       \* applications, and whatever else may be in front
  Allowed,    \* allowed_applications
  Pages,      \* what a tab can show
  Sizes,      \* how wide the screen may be
  MaxActions, \* max_actions
  MaxLaunches, MaxChanges \* bounds: browsers launched, changes of the desktop

Surfaces == {"BROWSER", "DESKTOP"}
Blank == "about:blank"
Points == 0..(CHOOSE s \in Sizes : \A u \in Sizes : u <= s)
Region == [x : Points, right : Points]
Everywhere == [x |-> 0, right |-> CHOOSE s \in Sizes : \A u \in Sizes : u <= s]

VARIABLES
  surface,
  configured, \* the region the settings name, or everywhere
  stop,       \* the STOP file is there
  front,      \* the application in front
  size,       \* how wide the screen is
  region,     \* allowed_region
  clipped,    \* a screenshot has told how big the surface is
  actions,    \* _actions
  tab,        \* the tab behind _page, 0 for none
  tabs,       \* what each tab that was ever opened shows
  alive,      \* the tabs whose browser was not closed
  task,       \* where each task's tool call is
  seen,       \* what its last screenshot was of, since it last opened a page
  landings,   \* history: actions that reached the surface
  last,       \* history: the last of them
  changes     \* history: changes of the desktop

desk == <<stop, front, size, changes>>
guard == <<region, clipped, actions>>
browser == <<tab, tabs, alive>>
history == <<seen, landings, last>>
vars == <<surface, configured, desk, guard, browser, task, history>>

\* A click has a point; typing, pressing and scrolling, which go where the cursor is,
\* have none.
Hands == {"click", "keys"}
Verbs == {"screenshot", "open"} \cup Hands
Steps == {"idle", "focus", "ensuring", "launching", "doing"}
Shown == [tab : 0..MaxLaunches, page : Pages \cup {Blank} \cup Apps]
Unseen == [tab |-> 0, page |-> Blank]
Idle == [at |-> "idle", verb |-> "screenshot", x |-> 0, page |-> Blank, tab |-> 0]
NoLanding == [verb |-> "click", inside |-> TRUE, front |-> CHOOSE a \in Allowed : TRUE, stopped |-> FALSE, aimed |-> TRUE]

TypeOK ==
  /\ surface \in Surfaces /\ configured \in Region /\ region \in Region
  /\ stop \in BOOLEAN /\ clipped \in BOOLEAN /\ front \in Apps /\ size \in Sizes
  /\ actions \in Nat /\ landings \in Nat /\ changes \in 0..MaxChanges
  /\ tab \in 0..MaxLaunches /\ alive \subseteq DOMAIN tabs
  /\ DOMAIN tabs = 1..Cardinality(DOMAIN tabs)
  /\ \A n \in DOMAIN tabs : tabs[n] \in Pages \cup {Blank}
  /\ task \in [Tasks -> [at : Steps, verb : Verbs, x : Points, page : Pages \cup {Blank}, tab : 0..MaxLaunches]]
  /\ \A t \in Tasks : seen[t] \in Shown
  /\ last \in [verb : Hands, inside : BOOLEAN, front : Apps, stopped : BOOLEAN, aimed : BOOLEAN]

Init ==
  /\ surface \in Surfaces /\ configured \in Region /\ configured.x < configured.right
  /\ stop = FALSE /\ front \in Allowed /\ size \in Sizes /\ changes = 0
  /\ region = configured /\ clipped = FALSE /\ actions = 0
  /\ tab = 0 /\ tabs = << >> /\ alive = {}
  /\ task = [t \in Tasks |-> Idle]
  /\ seen = [t \in Tasks |-> Unseen]
  /\ landings = 0 /\ last = NoLanding

-----------------------------------------------------------------------------
(* The user *)

\* `stop` and `stop --clear`, from any terminal.
Brake ==
  /\ changes < MaxChanges
  /\ stop' = ~stop /\ changes' = changes + 1
  /\ UNCHANGED <<surface, configured, front, size, guard, browser, task, history>>

\* Another application comes to the front, or another display is used.
Touch ==
  /\ changes < MaxChanges /\ surface = "DESKTOP"
  /\ \/ front' \in Apps \ {front} /\ UNCHANGED size
     \/ size' \in Sizes \ {size} /\ UNCHANGED front
  /\ changes' = changes + 1
  /\ UNCHANGED <<surface, configured, stop, guard, browser, task, history>>

-----------------------------------------------------------------------------
(* GuardedComputer *)

Contains(r, x) == r.x <= x /\ x < r.right

\* Fault: the screen takes the place of what was configured.
ScreenAlone(r, s) == [x |-> 0, right |-> s]
Smaller(a, b) == IF a <= b THEN a ELSE b
Larger(a, b) == IF a >= b THEN a ELSE b
\* within_the_screen: the part of the region that there is; it may be empty.
WithinTheScreen(r, s) == [x |-> r.x, right |-> Larger(Smaller(r.right, s), r.x)]

Begin(t, call) == task' = [task EXCEPT ![t] = call]
End(t) == task' = [task EXCEPT ![t] = Idle]
Onward == IF surface = "BROWSER" THEN "ensuring" ELSE "doing"

\* The platform is asked without giving up the loop: no other task moves.
LoopFree == \A t \in Tasks : task[t].at # "focus"

\* _allow, up to the question what is in front; whatever is refused changes nothing.
Act(t, verb, x) ==
  /\ LoopFree /\ task[t] = Idle
  /\ ~stop
  /\ actions < MaxActions
  /\ Begin(t, [Idle EXCEPT !.at = "focus", !.verb = verb, !.x = x])
  /\ UNCHANGED <<surface, configured, desk, guard, browser, history>>

\* Only a click is held against the region.
Click(t, x) == Contains(region, x) /\ Act(t, "click", x)
Keys(t) == Act(t, "keys", 0)

\* check_application. On a page it is not asked.
Allow(t) ==
  /\ task[t].at = "focus"
  /\ IF surface = "DESKTOP" /\ front \notin Allowed
       THEN End(t) /\ UNCHANGED actions
       ELSE /\ actions' = actions + 1
            /\ Begin(t, [task[t] EXCEPT !.at = Onward])
  /\ UNCHANGED <<surface, configured, desk, region, clipped, browser, history>>

\* Looking is not spent against the budget.
Look(t) ==
  /\ LoopFree /\ task[t] = Idle
  /\ ~stop
  /\ Begin(t, [Idle EXCEPT !.at = Onward])
  /\ UNCHANGED <<surface, configured, desk, guard, browser, history>>

\* browser.open, which no guard stands in front of.
Open(t, p) ==
  /\ LoopFree /\ task[t] = Idle /\ surface = "BROWSER"
  /\ Begin(t, [Idle EXCEPT !.at = "ensuring", !.verb = "open", !.page = p])
  /\ UNCHANGED <<surface, configured, desk, guard, browser, history>>

-----------------------------------------------------------------------------
(* PlaywrightBrowser._ensure_page *)

Ensure(t) ==
  /\ LoopFree /\ task[t].at = "ensuring"
  /\ Begin(t, [task[t] EXCEPT !.at = IF tab # 0 THEN "doing" ELSE "launching", !.tab = tab])
  /\ UNCHANGED <<surface, configured, desk, guard, browser, history>>

\* Nobody asks again whether there is a page by now.
Launched(t) ==
  /\ LoopFree /\ task[t].at = "launching"
  /\ Cardinality(DOMAIN tabs) < MaxLaunches
  /\ LET n == Cardinality(DOMAIN tabs) + 1
     IN  /\ tabs' = [m \in 1..n |-> IF m = n THEN Blank ELSE tabs[m]]
         /\ alive' = alive \cup {n} /\ tab' = n
         /\ Begin(t, [task[t] EXCEPT !.at = "doing", !.tab = n])
  /\ UNCHANGED <<surface, configured, desk, guard, history>>

\* No engine to launch: what the browser holds is closed, another task's included.
LaunchFails(t) ==
  /\ LoopFree /\ task[t].at = "launching"
  /\ tab' = 0 /\ alive' = alive \ {tab}
  /\ End(t)
  /\ UNCHANGED <<surface, configured, desk, guard, tabs, history>>

-----------------------------------------------------------------------------
(* The surface *)

Reaches(t) == surface = "DESKTOP" \/ task[t].tab \in alive
InView(t) == [tab |-> task[t].tab, page |-> IF surface = "DESKTOP" THEN front ELSE tabs[task[t].tab]]

\* A page that was closed under the call, a driver that raises: the call fails.
Fail(t) ==
  /\ LoopFree /\ task[t].at = "doing"
  /\ End(t)
  /\ UNCHANGED <<surface, configured, desk, guard, browser, history>>

\* The first screenshot clips the region.
Screenshot(t) ==
  /\ LoopFree /\ task[t].at = "doing" /\ task[t].verb = "screenshot" /\ Reaches(t)
  /\ seen' = [seen EXCEPT ![t] = InView(t)]
  /\ region' = IF clipped THEN region ELSE WithinTheScreen(region, size)
  /\ clipped' = TRUE
  /\ End(t)
  /\ UNCHANGED <<surface, configured, desk, actions, browser, landings, last>>

\* What goes where the cursor is goes anywhere.
Land(t) ==
  /\ task[t].at = "doing" /\ task[t].verb \in Hands /\ Reaches(t)
  /\ landings' = landings + 1
  /\ \E x \in IF task[t].verb = "click" THEN {task[t].x} ELSE Points :
       last' = [verb |-> task[t].verb, inside |-> Contains(configured, x), front |-> front,
                stopped |-> stop, aimed |-> seen[t] \in {InView(t), Unseen}]
  /\ End(t)
  /\ UNCHANGED <<surface, configured, desk, guard, browser, seen>>

Goto(t) ==
  /\ LoopFree /\ task[t].at = "doing" /\ task[t].verb = "open" /\ Reaches(t)
  /\ tabs' = [tabs EXCEPT ![task[t].tab] = task[t].page]
  /\ seen' = [seen EXCEPT ![t] = Unseen]
  /\ End(t)
  /\ UNCHANGED <<surface, configured, desk, guard, tab, alive, landings, last>>

-----------------------------------------------------------------------------

Next ==
  \/ Brake \/ Touch
  \/ \E t \in Tasks :
       \/ Keys(t)
       \/ \E x \in Points : Click(t, x)
       \/ \E p \in Pages : Open(t, p)
       \/ Allow(t) \/ Look(t) \/ Ensure(t) \/ Launched(t) \/ LaunchFails(t)
       \/ Fail(t) \/ Screenshot(t) \/ Land(t) \/ Goto(t)

Spec == Init /\ [][Next]_vars

-----------------------------------------------------------------------------
(* What the guard promises *)

UnderWay == {t \in Tasks : task[t].verb \in Hands /\ task[t].at \notin {"idle", "focus"}}

\* However many tasks act at once, no more actions reach the surface, or are on
\* their way to it, than max_actions.
WithinBudget == landings + Cardinality(UnderWay) <= MaxActions

\* A click lands in the region the settings name, whatever the screen turned out to
\* be and whenever the first look at it was taken.  Text, keys and scrolling are not
\* held against the region at all (see EverythingLandsInside).
LandsInside == last.verb = "click" => last.inside

-----------------------------------------------------------------------------
(* What the documentation says and the code does not *)

\* constraints.py:5, "state the bounds once, resolve every action against them, and
\* refuse what falls outside": what is typed, pressed or scrolled goes where the cursor
\* is, and the region is not asked about it.
EverythingLandsInside == last.inside

\* constraints.py:12, "what may be in front when a key or a click lands": it is
\* asked before, and the user may bring another window to the front.
FrontIsAllowed == surface = "DESKTOP" => last.front \in Allowed

\* main.py:461, "Stop anything that is acting on a screen, right now": what was let
\* through before the brake, or while the question about focus is answered, lands.
NothingLandsStopped == ~last.stopped

\* playwright_computer.py:6, "what the model is shown and what the click lands on
\* cannot drift apart": another task opens a page in the same tab, or launched a
\* second browser.
ClicksLandOnWhatWasShown == surface = "BROWSER" => last.aimed

\* playwright_browser.py:58, "the same tab the employee has been reading, which is
\* the point: two engines side by side would show the model one page and act on
\* another": two first calls launch two.
OneEngine == Cardinality(alive) <= 1
=============================================================================
