# TLA+ models of subiquity's navigation and task-coordination core

This directory holds TLA+ models of the screen-by-screen navigation of the
installer TUI (`src/subiquitycore/tui.py`), of the foreground-process
handoff and the persisted rich/basic display mode in the same file, of the
server controller logic that decides which screens are interactive and
which autoinstall section a controller loads
(`src/subiquity/server/controller.py`), and of the exclusive-call helper
whose tests are in `src/subiquitycore/tests/test_async_helpers.py`. Each
model is checked with TLC. `PROJECT.json` lists the components, the runs,
the mutants, the map from every definition to the source lines it models,
the findings and the hazards.

## 1. Inventory

### Components, their state and their operations

| Component | Source | State | Operations |
|---|---|---|---|
| NavigationEngine | `tui.py` `_move_screen`, `move_screen`, `make_view_for_controller`, `next_screen`, `prev_screen`, `request_*_screen`, `select_initial_screen` | `controllers.index`, `cur_screen`, the body view (`ui.set_body`), `exit()` | a move: optional pretransition coroutine, end the old screen, step the index, skip stages, build the view, restore the index on failure, exit past the end |
| IndicationTimer | `tui.py` `_wait_with_indication`, `wait_with_progress`, `wait_with_text_dialog` | `ui.block_input`, the `_show` task, `min_show_task` | block input, show progress after `MAX_BLOCK_TIME`, keep it `MIN_SHOW_PROGRESS_TIME`, hide, cancel the show task |
| ForegroundProcess | `tui.py` `run_command_in_foreground` | `fg_proc`, `screen.started` | stop the screen, start a child, wait for it, take the terminal back, restart the screen |
| SubiquityController | `controller.py` | `_active`, the `states/<name>` file, the `CONFIGURED` broadcast, `autoinstall_config` | `interactive()`, `_confirmed` (on `INSTALL_CONFIRMED`), `configured()`, `setup_autoinstall`, `load_state` |
| SingleInstanceTask (not modelled) | `subiquitycore/async_helpers.py` (not under `src/`; tests in `src/subiquitycore/tests/test_async_helpers.py`) | the current task | `start` (reject or cancel-and-restart), `wait`, `done`, `cancel` |
| ExclusiveGate | `async_helpers.exclusive` (not under `src/`) | the lock and its waiters | a wrapped call: acquire, run, release |
| RichMode | `tui.py` `set_rich`, `toggle_rich`, `get_initial_rich_mode` | `rich_mode`, the `rich-mode-*` state file | toggle, persist, reload at start |
| Terminal/rendering | `tui.py` `make_screen`, `start_urwid`, `unhandled_input`, `redraw_screen`, `extend_dec_special_charmap` | urwid objects | drawing, palettes, signals |

### How they interact

Everything runs on one asyncio loop: a task runs until an `await` suspends
it, so there are no data races, only interleavings at suspension points.
A UI action calls `request_next_screen`, which starts `next_screen` as a
background task (`run_bg_task`). `move_screen` wraps `_move_screen` in
`wait_with_progress`, which is `_wait_with_indication` with a show callback
and no hide. `_move_screen` calls each stage's `make_ui` through
`make_view_for_controller`. A stage answers with a view, with a callable
that `move_screen` calls to get the view, or raises `Skip`
(the client asks the server whether its controller is `interactive()`) or
another error. `run_command_in_foreground` stops the same urwid screen that
`redraw_screen` draws. On the server, `_confirmed` is a hub callback for
`INSTALL_CONFIRMED`, and `configured()` broadcasts `CONFIGURED`.

### What is hard

- Overlapping background moves. Nothing serialises `request_next_screen`
  calls. Two moves interleave at `await coro` and at `await make_ui`.
- State read before an await and written after it: `cur_index` in
  `_move_screen`, and the `fg_proc` guard in `run_command_in_foreground`.
- A show timer racing the completion of the awaited work, and a
  minimum-display sleep.
- Failure paths that leave half of a step done. The old screen is already
  ended when the new one fails to build. The screen stays stopped when the
  child fails to start. `configured()` can raise before `_active` is
  cleared.
- The skip loop must terminate at both ends of the stage list.

### What makes each component correct

- NavigationEngine: at rest the screen shown is the stage `index` points
  at. A failed or empty move restores the index. The skip loop ends. Exit
  happens once, past the end.
- IndicationTimer: no indication for quick work. An indication, once shown,
  stays for the minimum time. Input is never left blocked. No indication
  appears after the wait returned.
- ForegroundProcess: at most one child holds the terminal. `fg_proc` names a
  live child. The screen comes back.
- SubiquityController: `interactive()` follows its docstring. A controller
  is disabled only once its configuration is saved and announced.
- ExclusiveGate: FIFO mutual exclusion, release on every path.
- RichMode: a start comes up in the mode last chosen on that console kind.
  A damaged state file does not stop the installer.

## 2. Modules and how they correspond to the code

### `Navigation` (`MCNavigation`)

Constants: `N` stages, the move tasks `Moves` (task 1 is
`select_initial_screen`), `Screens` (`opts.screens`), `Overlap`
(whether a move may be requested while another is in flight) and
`ViewRaises` (whether the callable a `make_ui` returned may raise when
`move_screen` calls it).

Variables:

- `index` is `controllers.index` (it starts at -1).
- `cur_screen` is `self.cur_screen`.
- `ended` holds the stages whose `end_ui()` ran since their last view.
- `body` is the last `set_body`.
- `exits` counts the `exit()` calls.
- `block_input` is `ui.block_input`.
- `running` is the task the loop is running.
- `mv` holds each task's control point and locals: `delta`, `coro`,
  `origin` (= `cur_index`), `new`, `result`, and the `show` and `minShow`
  tasks.

A step that ends at a suspension hands `running` back (`NoTask`). A step
that continues synchronously keeps it, so nothing interleaves inside
synchronous code.

The actions follow the code's control points:

| Action | Code |
|---|---|
| `Request` | `request_*_screen`, `next_screen`, `prev_screen` |
| `Begin` | the start of `_wait_with_indication` and `_move_screen` |
| `CoroDone` | the pretransition coroutine returns or raises |
| `LeaveScreen` | `old.end_ui()`, `cur_index` |
| `Step` | the index step and the `< 0` / `>= len` checks |
| `MakeView` | `make_view_for_controller`, with the `opts.screens` Skip and a `make_ui` that is synchronous or returns a coroutine |
| `UiDone` | the awaited `make_ui` finishes |
| `Settle` / `SkipStage` / `Fail` | the three outcomes of building a view |
| `ShowFires` | `_show` after `MAX_BLOCK_TIME` |
| `MinShowElapsed` | the `MIN_SHOW_PROGRESS_TIME` sleep ends |
| `Finally` | the `finally` of `_wait_with_indication` |
| `Resume` | after `await min_show_task`; `move_screen` then calls `set_body` |

`Finally` and `Resume` end the whole `move_screen`, so they also apply
`ShownBodies`. A view is passed to `set_body`. A callable is called first.
When `ViewRaises` holds, that call may raise: `set_body` is skipped, and
`index` and `cur_screen` are already on the new stage.

The two sleeps are untimed in this module. They may end at any suspension
point, which contains every timing the real clock can produce.

### `IndicationTimer` (`MCIndicationTimer`)

This module models `_wait_with_indication` as `wait_with_text_dialog` uses
it, on a discrete clock. One tick is 0.1 s, so `MAX_BLOCK_TIME` is 1 tick
and `MIN_SHOW_PROGRESS_TIME` is 10. The work ends at any tick up to 1.5 s.

`Tick` advances time only when nothing is `Urgent`. asyncio runs every
ready callback before it sleeps on the selector, so the only same-instant
race the model allows is the real one: the work ends exactly when the show
timer fires.

The actions are:

- `WorkEnds`: the awaited work ends, with a result or an error.
- `DialogCancels`: `can_cancel`; the dialog cancels `task_to_cancel`.
- `ShowFires`: `_show`.
- `Finally`: the `finally` after `await awaitable`.
- `MinShowWakes`: `await min_show_task` returns, then `hide()` runs.
- `Cancelled`: the task running the wait is cancelled. At
  `await awaitable` the work ends cancelled. At `await min_show_task`
  `CancelledError` leaves the `finally`.

`Indication` is the untimed promise of such a wait. Its variables are the
work (running or ended), blocked input, the indication (none, up or down)
and the wait (waiting or returned). Its steps are `End`, `Show`,
`ReturnQuiet`, `ReturnHidden` and `Abort`, the last for a wait cancelled
with the indication up. `IndicationTimer` maps onto it:

- the work has ended once it is no longer running;
- `blocked` is `block_input`;
- the indication is up from `shownAt` until `hiddenAt`;
- the wait has returned at `pc` done or aborted.

`Tick`, and the step that suspends in `await min_show_task`, are
stuttering steps. `ImplementsIndication` checks `Indication!Spec` as a
property.

### `ForegroundProc` (`MCForegroundProc`)

Callers `Calls` (model values, symmetric). Variables: `fg_proc`,
`screen_started`, `child` (running children), and each call's control
point. The actions are:

- `Call`: the synchronous prefix. It is either `Refused` (the `fg_proc`
  guard raises) or `StopsScreen` (`screen.stop()`, `before_hook`, then
  into `_run`).
- `Spawned`: `astart_command` returns and `fg_proc` is set.
- `SpawnFailed`: `astart_command` raises.
- `Exited`: `communicate` returns; clear `fg_proc`, `tcsetpgrp`,
  `screen.start()`, `after_hook`.
- `Cancelled`: only in `CancelSpec`. The caller's task is cancelled at
  `await proc.communicate()`; the child keeps running.
- `OrphanExits`: only in `CancelSpec`. That child exits with nobody
  waiting for it.

### `Controller` (`MCController`)

Constants give each controller its `autoinstall_key`, its alias, its
`interactive_for_variants`, whether it has a model, and whether it is a
`NonInteractiveController`. `Init` enumerates every autoinstall config
shape and every variant:

- no config;
- `{}`, which is falsy like no config;
- a config whose `interactive-sections` is any subset of the keys and
  `"*"`.

`Interactive` is the if-chain of `interactive()`. `InteractiveDoc` states
the docstring's rules as a set formula. The actions are:

- `Confirm`: the `INSTALL_CONFIRMED` broadcast to the subscribers.
- `ConfirmedRuns`: `_confirmed`. `Save` is a completed `configured()`
  write. `SaveRaises` is a write that raises: either `open()` fails and
  the file is untouched, or `json.dump` fails after `open()` truncated
  it.
- `Announced`: `abroadcast` returns and `_active` is cleared.
- `SetupAutoinstall`: `setup_autoinstall` with `validate_autoinstall`.
  `AiData` is the `for`/`else` over `key_candidates`. Each section of the
  config is missing, null, valid or rejected by the schema. Controllers
  differ in whether they have a default and a schema.
- `Restart`: the server process stops between two task steps and starts
  again. `Reboot` rebuilds every controller: `_active` returns to the
  class attribute, and the hub subscriptions and autoinstall data are
  gone. It then runs `load_state` (`LoadState`) for each controller.
- `KilledInWrite`: the server is killed inside `configured()`, after
  `open(..., "w")` truncated the file and before `json.dump` finished. The
  next start reads the torn file.

The state files persist across restarts: `disk` holds, for each
controller, either no file (`Absent`), a torn file (`Torn`), or the boot
in which it was saved. `written` and `announced` belong to one server run. A raising
`load_state` leaves the server down (`Halted`).

### `ExclusiveGate` (`MCExclusiveGate`), refining `Mutex`

This module is modelled from spec 4.2 and `TestExclusive`. Variables:

- `holder` holds the lock.
- `waiters` is the FIFO queue.
- Each call has a control point.
- `arrived` and `entered` are history sequences.

The actions:

- `Call`: take a free lock that nobody waits for, or queue.
- `TakeOver`: a woken waiter leaves the queue and takes the lock.
- `Return`: `f` ends with "done" or is cancelled; the lock is released and
  the first waiter woken.
- `CancelWaiting`: a queued or woken call is cancelled; with the lock free,
  the wake-up passes to the next waiter.
- `Idle`: nothing is ready, and the loop waits.

`Mutex` is an atomic lock (`owner`). `ImplementsMutex` checks
`Mutex!Spec` under the mapping `owner <- holder`.

### `RichMode` (`MCRichMode`)

Variables:

- `disk` holds the three state files. Each is absent, `"true"`, `"false"`
  (what `json.dump` writes), or `"empty"` after an interrupted write.
- `serial` is `opts.run_on_serial` of the current run.
- `rich_mode` and `palette`.
- `pc`: down, up or failed.
- `starts`.
- `lastSet` is a history: the mode `set_rich` last applied on each console
  kind.

The actions:

- `Start`: `start_urwid` calls `set_rich(get_initial_rich_mode())` with
  `rich_mode` None, so it always saves the initial mode. If the file
  cannot be parsed, the start fails.
- `Toggle`: `unhandled_input`'s ctrl-t/F4 on serial calls `toggle_rich`.
- `Exit`: the process ends; the next one starts with `rich_mode` None.
- `CrashInWrite`: a `set_rich` write is cut short after `open(..., "w")`
  truncated the file.

`Init` allows any combination of the three files an earlier release may
have left.



## 3. Runs

| Run | Expect | What it shows |
|---|---|---|
| `nav_seq` (`MCNavigation.cfg`) | pass | Moves are requested one at a time, as the callers are meant to, and view callables may raise. Under every skip/error/sync/async outcome and every show-timer timing: the index stays in bounds (`TypeOK`); no move leaves input blocked (`InputUnblockedAtRest`); and every move returns (`MoveReturns`). 1,272,281 distinct states, about 2 minutes. |
| `nav_overlap` | violation | `DisplayMatchesIndex` with `Overlap = TRUE` and `ViewRaises = FALSE`. The second move steps past the first one's uncommitted stage, and the screen shown and the index end up different. |
| `nav_live` | violation | `DisplayedStageLive`. A `prev_screen` from the first shown stage (or a failing `make_ui`) ends that stage's UI and clears `cur_screen` while the stage stays on display. |
| `nav_callable` | violation | `DisplayMatchesIndex` with moves one at a time and `ViewRaises = TRUE`. The first move's view callable raises. `index` is 0 and `cur_screen` is stage 0, but nothing is on display. |
| `ind` (`MCIndicationTimer.cfg`) | pass | The work may end with a result or an error, be cancelled by the dialog, or be cancelled with the waiting task. In every case, `NoIndicationForQuickWork`, `MinShowRespected` and `InputBlockBounded` (P5) hold. `ImplementsIndication`: with the clock hidden, the wait is an `Indication`. It never shows after returning, because the show task is cancelled, and it returns only after the work ended. |
| `ind_hide` | violation | `IndicatorHidden`. A cancellation at `await min_show_task` skips `hide()`, and the dialog stays up. |
| `fg_two` | violation | `OneForegroundChild`. Two calls pass the guard before either sets `fg_proc`. |
| `fg_screen` | violation | `ScreenStoppedOnlyForFgProc` under `CancelSpec`. A failing `astart_command` leaves the screen stopped with no child. Without that path, a call cancelled at `communicate` whose child then exits does the same. |
| `ctrl` | pass | `InteractiveMatchesDoc` for every config. `DisabledOnlyWhenConfigured`, with `configured()` succeeding or failing. `LoadsDocumentedSection`: `setup_autoinstall` loads the key's section, else the alias's, else the default, never data the schema rejects, for every shape of data under each key. `NotApplicableConfigured`: once the install is confirmed, every controller not applicable to the variant is eventually saved, announced and disabled, unless `configured()` raised or the server restarted first. This is checked in each of up to three server starts, with kills inside `configured()`. |
| `gate` | pass | With cancellation at every suspension point: `ImplementsMutex` (P4, no overlap), `FifoEntry` (no call overtakes an earlier waiter) and `NoWaiterStarves` (every waiter runs or is cancelled). |
| `rich` | pass | `ModePersistsPerConsole`: after any mix of serial and tty starts, toggles and interrupted writes, from any leftover files, a start comes up in the mode last applied on its console kind. |
| `rich_crash` | violation | `EveryStartComesUp`. After a `set_rich` write is cut short, every later start on that console kind fails. |

Bounds:

- **Navigation:** 4 stages, one of them (1) outside `opts.screens`, and 4
  moves. This reaches skipping at the start, in the middle and at the end,
  moving before the first stage, exit, failure after a skip, and the show
  timer firing at each suspension point. A fifth move adds no new control
  path. `nav_seq` keeps `Overlap = FALSE`, because with overlapping
  requests `MoveReturns` fails (see the findings). The overlapping cases
  are left to `nav_overlap`.
- **IndicationTimer:** the real ratio of the two thresholds (1:10). The
  work ends anywhere from before the show timer to after the minimum show
  time, so every order of work end, show, min-show end and cancellation
  occurs.
- **ForegroundProc:** 4 callers under symmetry, enough for two overlapping
  starts plus a rejected call.
- **Controller:** 3 controllers. They cover a key with an alias, a
  variant-restricted controller with a model, and a
  `NonInteractiveController` without a model. Between them, the key of one
  controller is the alias of another, and the default and the schema are
  each present and absent. Each of the 2 keys takes all 4 data shapes.
  There are 3 server starts. That is enough for a save, then a second
  `configured()` of the same controller cut short, then the start that
  reads the torn file.
- **ExclusiveGate:** 4 calls. With them a woken waiter is cancelled while
  two others still wait, and a newcomer arrives while a wake-up is pending.
- **RichMode:** 4 starts. They cover serial, then tty, then serial again
  after a toggle, and one more start after an interrupted write.

Fairness: `Navigation` assumes weak fairness of every task step and of the
min-show sleep. asyncio runs every ready task. The awaited pretransition
and `make_ui` coroutines are assumed to return. Requests are not fair: the
user may stop. `ExclusiveGate` assumes weak fairness of `TakeOver` (asyncio
runs a woken task) and of `f` returning. Cancellation is not fair.
`Controller` assumes weak fairness of `ConfirmedRuns` and `Announced`: the
hub runs every callback it dispatched, and `abroadcast` returns once they
have run. The user confirming the install is not assumed, and neither is
a restart. `NotApplicableConfigured` therefore promises its outcome only
within the server run in which the install was confirmed. The other
modules check only safety.

## 4. Findings

See `PROJECT.json` "findings":

- Overlapping move requests corrupt navigation state. The spec leaves this
  open.
- A failed or empty move leaves the displayed stage ended, although the
  spec says failures leave no persistent corruption.
- A cancellation of the task running `_wait_with_indication` during its
  min-show wait leaves the dialog shown. The spec requires the show/hide
  bookkeeping on cancellation.
- The `fg_proc` guard of `run_command_in_foreground` does not cover the
  window while the child is starting.
- `run_command_in_foreground` has no `try`/`finally`. A child that fails
  to start leaves the screen stopped. So does a cancelled call, which also
  leaves `fg_proc` naming a dead child, so every later call is refused.
- `set_rich` truncates the state file before writing it, and
  `get_initial_rich_mode` cannot read an empty file, so an interrupted
  write stops every later start on that console kind.
- `configured()` has the same truncate-then-write shape. In `ctrl`, a
  kill or a `json.dump` failure inside it reaches `Halted`: the next
  server start raises in `load_state`. The run
  cap leaves no violation run for "the server comes up after such a
  kill", so this is recorded here and in the hazard at
  `controller.py:163`, not in "findings".
- A `make_ui` callable that raises in `move_screen` leaves `index` and
  `cur_screen` on a stage that is not on display. Spec 4.4 says a failed
  view build restores the cursor.
- With overlapping requests, two moves can go in opposite directions while
  their `make_ui` raises `Skip`. They then keep stepping the index back and
  forth over the same two stages, and neither returns. TLC finds this cycle
  when `MoveReturns` is checked with `Overlap = TRUE`. Overlapping requests
  are a documented caller precondition, so this is recorded as a hazard at
  `tui.py:238`, not as a run.

## 5. Plan

Done:

- `Navigation`, with raising view callables.
- `IndicationTimer`, refining `Indication`.
- `ForegroundProc`, with cancellation.
- `Controller`, with `setup_autoinstall`, the liveness of `_confirmed`,
  and server restarts with `load_state` and torn state files.
- `ExclusiveGate`, refining `Mutex`.
- `RichMode`.

What is left:

1. A run for the torn `configured()` state file, if a run slot frees up.
2. `InputUnblockedAtRest` under overlapping requests. This needs the
   overlap livelock excluded first.

## 6. Not modelled

- Rendering, palettes and the DEC charmap, which are pure output.
- jsonschema validation and JSON (de)serialisation, which are data
  formats.
- `add_routes`, which is HTTP binding.
- What `deserialize` restores. It does nothing in this class, so a
  restored state is only the boot that saved it. The server start-up that
  calls `load_state` is not under `src/`. `Reboot` follows what the class
  requires of it: fresh instances, then `load_state` for each.
- The no-op hooks `load_autoinstall_data`, `apply_autoinstall_config` and
  `make_autoinstall`.
- `SingleInstanceTask`. It is not under `src/`, and nothing under `src/`
  uses it. Spec 4.1 requires `start()` to check and launch without
  suspending, and that assumption alone gives single flight. A model of it
  would restate the assumption rather than check code. Its `done()` is also
  in dispute: the test and spec 4.1 disagree about its value before any
  start.
- Dynamic change of the stage list's length. Its owner (`ControllerSet`)
  is not in `src/`.
