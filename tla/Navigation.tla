----------------------------- MODULE Navigation -----------------------------
(***************************************************************************)
(* Screen navigation of TuiApplication (src/subiquitycore/tui.py):         *)
(* move_screen / _move_screen / make_view_for_controller, wrapped by       *)
(* wait_with_progress / _wait_with_indication, driven by the background    *)
(* tasks that request_next_screen / request_prev_screen start.             *)
(*                                                                         *)
(* The asyncio loop is single threaded: a task runs until it reaches an    *)
(* await that suspends.  `running` is the task the loop is running; a step *)
(* that ends at a suspension point gives it back (NoTask), a step that     *)
(* continues synchronously keeps it, so no other task interleaves there.   *)
(* The MAX_BLOCK_TIME and MIN_SHOW_PROGRESS_TIME sleeps are untimed here:  *)
(* they may end at any suspension point (module IndicationTimer times     *)
(* them).                                                                  *)
(***************************************************************************)
EXTENDS Integers, FiniteSets

CONSTANTS
    N,         \* len(self.controllers.instances)
    Moves,     \* move tasks 1..K; task 1 is select_initial_screen
    Screens,   \* self.opts.screens: the stages allowed to show
    Overlap,   \* may a move be requested while another is in flight?
    ViewRaises \* may make_ui return a callable that raises when called?

ASSUME N \in Nat /\ N > 0 /\ Moves = 1 .. Cardinality(Moves)
ASSUME Screens \subseteq 0 .. N - 1 /\ Overlap \in BOOLEAN /\ ViewRaises \in BOOLEAN

Stages  == 0 .. N - 1
NoStage == -1         \* None, for cur_screen and for an empty body
NoTask  == 0

VARIABLES
    index,        \* self.controllers.index
    cur_screen,   \* self.cur_screen
    ended,        \* stages whose end_ui() ran after their last make_ui()
    body,         \* the stage whose view self.ui.set_body() installed last
    exits,        \* number of self.exit() calls
    block_input,  \* self.ui.block_input
    running,      \* the task the event loop is running
    mv            \* per move task: its control point and locals

vars == <<index, cur_screen, ended, body, exits, block_input, running, mv>>

PCs == {"idle",    \* not requested yet
        "ready",   \* scheduled by run_bg_task, not started
        "coro",    \* suspended at `await coro`
        "loop",    \* at the top of the while loop of _move_screen
        "make",    \* calling make_view_for_controller(new)
        "ui",      \* suspended at `await maybe_view`
        "finally", \* in the finally of _wait_with_indication
        "minshow", \* suspended at `await min_show_task`
        "done"}

MoveState == [pc: PCs, delta: {-1, 1}, coro: BOOLEAN, origin: Int,
              new: Stages \cup {NoStage}, result: {"none", "view", "error"},
              show: {"none", "pending", "fired", "cancelled"},
              minShow: {"none", "sleeping", "elapsed"}]

AtRest == \A r \in Moves : mv[r].pc \in {"idle", "done"}

(* What is on display once move_screen returns.  A view is passed to     *)
(* set_body; a callable make_ui returned is called first, and if that call *)
(* raises, set_body is skipped and move_screen raises with the index and   *)
(* cur_screen already on the new stage.                                    *)
ShownBodies(r) ==
    IF mv[r].result = "view"
    THEN {mv[r].new} \cup (IF ViewRaises THEN {body} ELSE {})
    ELSE {body}

-----------------------------------------------------------------------------
(* request_next_screen / request_prev_screen / select_initial_screen:      *)
(* run_bg_task schedules a task that will run next_screen(coro) or         *)
(* prev_screen().  Only next_screen takes a pretransition coroutine.       *)
Request(r, d, c) ==
    /\ mv[r].pc = "idle"
    /\ \A q \in Moves : q < r => mv[q].pc # "idle"
    /\ exits = 0
    /\ Overlap \/ AtRest
    /\ IF r = 1 THEN d = 1 /\ ~c ELSE c => d = 1
    /\ mv' = [mv EXCEPT ![r].pc = "ready", ![r].delta = d, ![r].coro = c]
    /\ UNCHANGED <<index, cur_screen, ended, body, exits, block_input, running>>

(* _move_screen after the pretransition: end the old screen and remember  *)
(* cur_index, then enter the loop without suspending.                      *)
LeaveScreen(r, m) ==
    /\ cur_screen' = NoStage
    /\ ended' = IF cur_screen = NoStage THEN ended ELSE ended \cup {cur_screen}
    /\ mv' = [m EXCEPT ![r].pc = "loop", ![r].origin = index]
    /\ running' = r

(* The task starts: _wait_with_indication blocks input, creates the show  *)
(* task and awaits _move_screen, which awaits the coroutine if there is   *)
(* one.                                                                    *)
Begin(r) ==
    /\ mv[r].pc = "ready" /\ running = NoTask
    /\ block_input' = TRUE
    /\ \/ /\ mv[r].coro
          /\ mv' = [mv EXCEPT ![r].pc = "coro", ![r].show = "pending"]
          /\ UNCHANGED <<cur_screen, ended, running>>
       \/ /\ ~mv[r].coro
          /\ LeaveScreen(r, [mv EXCEPT ![r].show = "pending"])
    /\ UNCHANGED <<index, body, exits>>

(* The pretransition coroutine returns, or raises before anything moved. *)
CoroDone(r) ==
    /\ mv[r].pc = "coro" /\ running = NoTask
    /\ \/ LeaveScreen(r, mv)
       \/ /\ mv' = [mv EXCEPT ![r].pc = "finally", ![r].result = "error"]
          /\ running' = r
          /\ UNCHANGED <<cur_screen, ended>>
    /\ UNCHANGED <<index, body, exits, block_input>>

(* Mutant of Step: the end check is off by one (index > len). *)
StepPastEnd(r) ==
    /\ mv[r].pc = "loop" /\ running = r
    /\ LET i == index + mv[r].delta IN
         \/ /\ i < 0
            /\ index' = mv[r].origin
            /\ exits' = exits
            /\ mv' = [mv EXCEPT ![r].pc = "finally", ![r].result = "none"]
         \/ /\ i > N
            /\ index' = i
            /\ exits' = exits + 1
            /\ mv' = [mv EXCEPT ![r].pc = "finally", ![r].result = "none"]
         \/ /\ 0 <= i /\ i <= N
            /\ index' = i
            /\ exits' = exits
            /\ mv' = [mv EXCEPT ![r].pc = "make", ![r].new = i]
    /\ UNCHANGED <<cur_screen, ended, body, block_input, running>>

(* One turn of the while loop: step the index, give up before the first  *)
(* stage (restoring it), exit past the last one.                           *)
Step(r) ==
    /\ mv[r].pc = "loop" /\ running = r
    /\ LET i == index + mv[r].delta IN
         \/ /\ i < 0
            /\ index' = mv[r].origin
            /\ exits' = exits
            /\ mv' = [mv EXCEPT ![r].pc = "finally", ![r].result = "none"]
         \/ /\ i >= N
            /\ index' = i
            /\ exits' = exits + 1
            /\ mv' = [mv EXCEPT ![r].pc = "finally", ![r].result = "none"]
         \/ /\ i \in Stages
            /\ index' = i
            /\ exits' = exits
            /\ mv' = [mv EXCEPT ![r].pc = "make", ![r].new = i]
    /\ UNCHANGED <<cur_screen, ended, body, block_input, running>>

(* Mutant of SkipStage: a Skip also restores cur_index. *)
SkipRestores(r) ==
    /\ index' = mv[r].origin
    /\ mv' = [mv EXCEPT ![r].pc = "loop"]
    /\ UNCHANGED <<cur_screen, ended>>

(* make_ui() produced a view: make_view_for_controller sets cur_screen. *)
Settle(r) ==
    /\ cur_screen' = mv[r].new
    /\ ended' = ended \ {mv[r].new}
    /\ mv' = [mv EXCEPT ![r].pc = "finally", ![r].result = "view"]
    /\ UNCHANGED index

(* except Skip: continue with the next stage. *)
SkipStage(r) ==
    /\ mv' = [mv EXCEPT ![r].pc = "loop"]
    /\ UNCHANGED <<index, cur_screen, ended>>

(* except Exception: restore cur_index and re-raise. *)
Fail(r) ==
    /\ index' = mv[r].origin
    /\ mv' = [mv EXCEPT ![r].pc = "finally", ![r].result = "error"]
    /\ UNCHANGED <<cur_screen, ended>>

Resolve(r) == Settle(r) \/ SkipStage(r) \/ Fail(r)

(* `not self.opts.screens or new.name in self.opts.screens` *)
Allowed(s) == Screens = {} \/ s \in Screens

(* make_view_for_controller: a stage left out of opts.screens raises Skip; *)
(* otherwise make_ui() answers at once or returns a coroutine to await.    *)
MakeView(r) ==
    /\ mv[r].pc = "make" /\ running = r
    /\ \/ /\ ~Allowed(mv[r].new)
          /\ SkipStage(r)
          /\ UNCHANGED running
       \/ /\ Allowed(mv[r].new)
          /\ Resolve(r)
          /\ UNCHANGED running
       \/ /\ Allowed(mv[r].new)
          /\ mv' = [mv EXCEPT ![r].pc = "ui"]
          /\ running' = NoTask
          /\ UNCHANGED <<index, cur_screen, ended>>
    /\ UNCHANGED <<body, exits, block_input>>

(* The awaited make_ui() coroutine finishes. *)
UiDone(r) ==
    /\ mv[r].pc = "ui" /\ running = NoTask
    /\ Resolve(r)
    /\ running' = r
    /\ UNCHANGED <<body, exits, block_input>>

(* Mutant of ShowFires: _show leaves block_input alone. *)
ShowKeepsBlock(r) ==
    /\ mv[r].show = "pending" /\ running = NoTask
    /\ mv' = [mv EXCEPT ![r].show = "fired", ![r].minShow = "sleeping"]
    /\ UNCHANGED <<index, cur_screen, ended, body, exits, block_input, running>>

(* _show: MAX_BLOCK_TIME has passed; unblock input, start min_show_task  *)
(* and show progress (show_progress and redraw_screen do not suspend).   *)
ShowFires(r) ==
    /\ mv[r].show = "pending" /\ running = NoTask
    /\ block_input' = FALSE
    /\ mv' = [mv EXCEPT ![r].show = "fired", ![r].minShow = "sleeping"]
    /\ UNCHANGED <<index, cur_screen, ended, body, exits, running>>

(* asyncio.sleep(MIN_SHOW_PROGRESS_TIME) completes. *)
MinShowElapsed(r) ==
    /\ mv[r].minShow = "sleeping" /\ running = NoTask
    /\ mv' = [mv EXCEPT ![r].minShow = "elapsed"]
    /\ UNCHANGED <<index, cur_screen, ended, body, exits, block_input, running>>

(* The finally of _wait_with_indication.  If progress was shown, wait for *)
(* min_show_task (wait_with_progress has no hide); otherwise unblock      *)
(* input and cancel the show task.  move_screen then sets the body.       *)
Finally(r) ==
    /\ mv[r].pc = "finally" /\ running = r
    /\ \/ /\ mv[r].show = "fired"
          /\ mv' = [mv EXCEPT ![r].pc = "minshow"]
          /\ UNCHANGED <<block_input, body>>
       \/ /\ mv[r].show # "fired"
          /\ block_input' = FALSE
          /\ mv' = [mv EXCEPT ![r].show = "cancelled", ![r].pc = "done"]
          /\ body' \in ShownBodies(r)
    /\ running' = NoTask
    /\ UNCHANGED <<index, cur_screen, ended, exits>>

(* min_show_task is done: return the result; move_screen sets the body. *)
Resume(r) ==
    /\ mv[r].pc = "minshow" /\ mv[r].minShow = "elapsed" /\ running = NoTask
    /\ mv' = [mv EXCEPT ![r].pc = "done"]
    /\ body' \in ShownBodies(r)
    /\ UNCHANGED <<index, cur_screen, ended, exits, block_input, running>>

(* The application has exited or used up its requests. *)
Terminating ==
    /\ AtRest
    /\ exits > 0 \/ \A r \in Moves : mv[r].pc = "done"
    /\ UNCHANGED vars

-----------------------------------------------------------------------------
Init ==
    /\ index = -1
    /\ cur_screen = NoStage
    /\ ended = {}
    /\ body = NoStage
    /\ exits = 0
    /\ block_input = FALSE
    /\ running = NoTask
    /\ mv = [r \in Moves |-> [pc |-> "idle", delta |-> 1, coro |-> FALSE,
                              origin |-> -1, new |-> NoStage, result |-> "none",
                              show |-> "none", minShow |-> "none"]]

TaskStep(r) ==
    \/ Begin(r) \/ CoroDone(r) \/ Step(r) \/ MakeView(r) \/ UiDone(r)
    \/ Finally(r) \/ Resume(r)

Next ==
    \/ \E r \in Moves, d \in {-1, 1}, c \in BOOLEAN : Request(r, d, c)
    \/ \E r \in Moves : TaskStep(r) \/ ShowFires(r) \/ MinShowElapsed(r)
    \/ Terminating

(* asyncio runs every ready task and ends every sleep; the awaited         *)
(* coroutines (the pretransition and make_ui) are assumed to return.       *)
Fairness == \A r \in Moves : WF_vars(TaskStep(r)) /\ WF_vars(MinShowElapsed(r))

Spec == Init /\ [][Next]_vars /\ Fairness

-----------------------------------------------------------------------------
TypeOK ==
    /\ index \in Int
    /\ cur_screen \in Stages \cup {NoStage}
    /\ ended \subseteq Stages
    /\ body \in Stages \cup {NoStage}
    /\ exits \in Nat
    /\ block_input \in BOOLEAN
    /\ running \in Moves \cup {NoTask}
    /\ mv \in [Moves -> MoveState]

(* Once every requested move has returned, the screen on display is the   *)
(* stage controllers.index points at: skipped stages are passed over, a   *)
(* failed construction or a move before the first stage puts the index    *)
(* back where the move found it (_move_screen, the except branches).      *)
DisplayMatchesIndex == AtRest /\ exits = 0 => body = index

(* No move leaves input blocked: block_input is cleared either by _show   *)
(* or by the finally of _wait_with_indication, whichever path is taken.   *)
InputUnblockedAtRest == AtRest => ~block_input

(* Every requested move returns: the skip loop of _move_screen ends.     *)
MoveReturns == \A r \in Moves : mv[r].pc = "ready" ~> mv[r].pc = "done"

(* The stage on display is still live: its end_ui() has not run since the *)
(* view was built (spec: failures are local to one navigation attempt).   *)
DisplayedStageLive ==
    AtRest /\ exits = 0 /\ body # NoStage => body \notin ended

=============================================================================
