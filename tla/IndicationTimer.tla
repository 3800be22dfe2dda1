--------------------------- MODULE IndicationTimer ---------------------------
(***************************************************************************)
(* TuiApplication._wait_with_indication (src/subiquitycore/tui.py) on a    *)
(* discrete clock, as used by wait_with_text_dialog: block input, show a   *)
(* LoadingDialog if the awaited work is not done after MAX_BLOCK_TIME,     *)
(* keep it at least MIN_SHOW_PROGRESS_TIME, then hide it.  The dialog may  *)
(* cancel the work (can_cancel); the waiting task itself may be cancelled  *)
(* by whoever awaits it.                                                   *)
(*                                                                         *)
(* Time only passes when no task is ready to run (asyncio runs every      *)
(* ready callback before it sleeps on the selector).                      *)
(***************************************************************************)
EXTENDS Integers

CONSTANTS
    MaxBlock,     \* MAX_BLOCK_TIME in ticks
    MinShow,      \* MIN_SHOW_PROGRESS_TIME in ticks
    Horizon,      \* the work ends by this tick
    HasHide,      \* a hide callback was given (wait_with_text_dialog)
    CanCancel,    \* can_cancel: the dialog can cancel the work
    OuterCancel   \* the task running the wait may be cancelled

ASSUME /\ MaxBlock \in Nat /\ MinShow \in Nat /\ Horizon \in Nat
       /\ HasHide \in BOOLEAN /\ CanCancel \in BOOLEAN /\ OuterCancel \in BOOLEAN

NoTime == -1

VARIABLES
    now,          \* loop.time() in ticks since the wait began
    pc,           \* the waiting task
    work,         \* the awaited work: running, or how it ended
    show,         \* the _show task
    block_input,  \* self.ui.block_input
    shownAt,      \* when show() ran
    minShowEnd,   \* when min_show_task's sleep ends
    hiddenAt,     \* when hide() ran
    finishedAt,   \* when the work ended
    returnedAt,   \* when the wait returned or raised
    cancels       \* cancellations delivered to the waiting task

vars == <<now, pc, work, show, block_input, shownAt, minShowEnd, hiddenAt,
          finishedAt, returnedAt, cancels>>

(* Returning from the finally: hide() if there is one; the result or the *)
(* exception of the work then propagates.                                *)
HideAndReturn ==
    /\ hiddenAt' = IF HasHide THEN now ELSE hiddenAt
    /\ returnedAt' = now
    /\ pc' = "done"

(* The awaited work ends. *)
WorkEnds(o) ==
    /\ work = "running"
    /\ work' = o
    /\ finishedAt' = now
    /\ UNCHANGED <<now, pc, show, block_input, shownAt, minShowEnd, hiddenAt,
                   returnedAt, cancels>>

(* The LoadingDialog's cancel cancels task_to_cancel. *)
DialogCancels ==
    /\ CanCancel /\ show = "fired" /\ work = "running"
    /\ work' = "cancelled"
    /\ finishedAt' = now
    /\ UNCHANGED <<now, pc, show, block_input, shownAt, minShowEnd, hiddenAt,
                   returnedAt, cancels>>

(* Mutant of ShowFires: _show does not unblock input. *)
ShowKeepsInputBlocked ==
    /\ show = "pending" /\ now >= MaxBlock
    /\ show' = "fired"
    /\ shownAt' = now
    /\ minShowEnd' = now + MinShow
    /\ UNCHANGED <<now, pc, work, block_input, hiddenAt, finishedAt, returnedAt,
                   cancels>>

(* _show: asyncio.sleep(MAX_BLOCK_TIME) ended; unblock input, start      *)
(* min_show_task, run show() (it does not suspend).                      *)
ShowFires ==
    /\ show = "pending" /\ now >= MaxBlock
    /\ show' = "fired"
    /\ block_input' = FALSE
    /\ shownAt' = now
    /\ minShowEnd' = now + MinShow
    /\ UNCHANGED <<now, pc, work, hiddenAt, finishedAt, returnedAt, cancels>>

(* Mutant of Finally: the shown branch does not await min_show_task. *)
FinallyNoMinShow ==
    /\ pc = "await" /\ work # "running"
    /\ \/ /\ show = "fired"
          /\ HideAndReturn
          /\ UNCHANGED <<show, block_input>>
       \/ /\ show # "fired"
          /\ block_input' = FALSE
          /\ show' = "cancelled"
          /\ returnedAt' = now
          /\ pc' = "done"
          /\ UNCHANGED hiddenAt
    /\ UNCHANGED <<now, work, shownAt, minShowEnd, finishedAt, cancels>>

(* Mutant of Finally: the show task is left running. *)
FinallyNoCancel ==
    /\ pc = "await" /\ work # "running"
    /\ \/ /\ show = "fired" /\ now >= minShowEnd
          /\ HideAndReturn
          /\ UNCHANGED block_input
       \/ /\ show = "fired" /\ now < minShowEnd
          /\ pc' = "minshow"
          /\ UNCHANGED <<block_input, hiddenAt, returnedAt>>
       \/ /\ show # "fired"
          /\ block_input' = FALSE
          /\ returnedAt' = now
          /\ pc' = "done"
          /\ UNCHANGED hiddenAt
    /\ UNCHANGED <<now, work, show, shownAt, minShowEnd, finishedAt, cancels>>

(* The finally after `await awaitable`: if the indication was shown,     *)
(* await min_show_task (no suspension if it is already done) and hide;   *)
(* otherwise unblock input and cancel the show task.                      *)
Finally ==
    /\ pc = "await" /\ work # "running"
    /\ \/ /\ show = "fired" /\ now >= minShowEnd
          /\ HideAndReturn
          /\ UNCHANGED <<show, block_input>>
       \/ /\ show = "fired" /\ now < minShowEnd
          /\ pc' = "minshow"
          /\ UNCHANGED <<show, block_input, hiddenAt, returnedAt>>
       \/ /\ show # "fired"
          /\ block_input' = FALSE
          /\ show' = "cancelled"
          /\ returnedAt' = now
          /\ pc' = "done"
          /\ UNCHANGED hiddenAt
    /\ UNCHANGED <<now, work, shownAt, minShowEnd, finishedAt, cancels>>

(* min_show_task finishes and the waiting task resumes. *)
MinShowWakes ==
    /\ pc = "minshow" /\ now >= minShowEnd
    /\ HideAndReturn
    /\ UNCHANGED <<now, work, show, block_input, shownAt, minShowEnd,
                   finishedAt, cancels>>

(* The waiting task is cancelled.  At `await awaitable` the cancellation *)
(* reaches the work, which ends cancelled and the finally runs; at       *)
(* `await min_show_task` CancelledError leaves the finally, skipping     *)
(* hide().                                                                *)
Cancelled ==
    /\ OuterCancel /\ cancels = 0
    /\ cancels' = 1
    /\ \/ /\ pc = "await" /\ work = "running"
          /\ work' = "cancelled"
          /\ finishedAt' = now
          /\ UNCHANGED <<pc, returnedAt>>
       \/ /\ pc = "minshow"
          /\ pc' = "aborted"
          /\ returnedAt' = now
          /\ UNCHANGED <<work, finishedAt>>
    /\ UNCHANGED <<now, show, block_input, shownAt, minShowEnd, hiddenAt>>

(* Something is ready to run, so the loop does not sleep. *)
Urgent ==
    \/ pc = "await" /\ work # "running"
    \/ show = "pending" /\ now >= MaxBlock
    \/ pc = "minshow" /\ now >= minShowEnd

Tick ==
    /\ now < Horizon \/ pc = "minshow"
    /\ ~Urgent
    /\ pc \in {"await", "minshow"} \/ show = "pending"
    /\ now' = now + 1
    /\ UNCHANGED <<pc, work, show, block_input, shownAt, minShowEnd, hiddenAt,
                   finishedAt, returnedAt, cancels>>

Returned == pc \in {"done", "aborted"} /\ show # "pending"

Terminating == Returned /\ UNCHANGED vars

(* The state right after _wait_with_indication blocked input, created    *)
(* the show task and started awaiting.                                    *)
Init ==
    /\ now = 0
    /\ pc = "await"
    /\ work = "running"
    /\ show = "pending"
    /\ block_input = TRUE
    /\ shownAt = NoTime
    /\ minShowEnd = NoTime
    /\ hiddenAt = NoTime
    /\ finishedAt = NoTime
    /\ returnedAt = NoTime
    /\ cancels = 0

Next ==
    \/ \E o \in {"ok", "error"} : WorkEnds(o)
    \/ DialogCancels \/ ShowFires \/ Finally \/ MinShowWakes \/ Cancelled
    \/ Tick \/ Terminating

Spec == Init /\ [][Next]_vars

-----------------------------------------------------------------------------
(* P5, first half: work that ends before MAX_BLOCK_TIME never shows the  *)
(* indication, even after the wait returned (the show task is cancelled). *)
NoIndicationForQuickWork ==
    shownAt # NoTime => finishedAt = NoTime \/ finishedAt >= MaxBlock

(* P5, second half: once shown, the indication stays at least            *)
(* MIN_SHOW_PROGRESS_TIME: neither hide() nor the return of the wait      *)
(* comes sooner, however early the work (or its cancellation) ended.      *)
MinShowRespected ==
    pc = "done" /\ shownAt # NoTime =>
        /\ returnedAt >= shownAt + MinShow
        /\ HasHide => hiddenAt >= shownAt + MinShow

(* Input is never blocked for longer than MAX_BLOCK_TIME. *)
InputBlockBounded == block_input => now <= MaxBlock

(* A dialog that was shown is hidden again once the wait is over (spec:  *)
(* a cancellation must still satisfy the show/hide bookkeeping).          *)
IndicatorHidden ==
    HasHide /\ pc \in {"done", "aborted"} /\ shownAt # NoTime =>
        hiddenAt # NoTime

(* Refinement: with the clock hidden, the timed wait is an Indication.  *)
(* The work has ended once it is no longer running, the indication is up *)
(* from show() until hide(), and the wait has returned once the waiting  *)
(* task left the finally (or was cancelled out of it).                    *)
AbsDialog == IF shownAt = NoTime THEN "none"
             ELSE IF hiddenAt = NoTime THEN "up" ELSE "down"

Abstract == INSTANCE Indication WITH
    work <- IF work = "running" THEN "running" ELSE "ended",
    blocked <- block_input,
    dialog <- AbsDialog,
    state <- IF pc \in {"done", "aborted"} THEN "returned" ELSE "waiting"

(* The wait keeps its untimed promises under every timing: the indication *)
(* is shown at most once and never after the wait returned (the show task *)
(* is cancelled), showing or returning unblocks input, and the wait       *)
(* returns only after the work ended.                                      *)
ImplementsIndication == Abstract!Spec

=============================================================================
