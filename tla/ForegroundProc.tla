--------------------------- MODULE ForegroundProc ---------------------------
(***************************************************************************)
(* TuiApplication.run_command_in_foreground (src/subiquitycore/tui.py):    *)
(* stop the urwid screen, start a child process on the terminal, wait for  *)
(* it, then take the terminal back and restart the screen.  Each call is   *)
(* an asyncio task; it suspends in astart_command and in communicate.      *)
(***************************************************************************)
EXTENDS Naturals, FiniteSets

CONSTANTS
    Calls,     \* concurrent callers of run_command_in_foreground
    None       \* self.fg_proc is None

ASSUME None \notin Calls

VARIABLES
    fg_proc,         \* self.fg_proc: the call whose child it records
    screen_started,  \* self.urwid_loop.screen.started
    child,           \* calls whose child process is running
    pc               \* control point of each call

vars == <<fg_proc, screen_started, child, pc>>

(* The guard: a call made while fg_proc is set raises at once. *)
Refused(c) ==
    /\ pc[c] = "idle" /\ fg_proc # None
    /\ pc' = [pc EXCEPT ![c] = "rejected"]
    /\ UNCHANGED <<fg_proc, child, screen_started>>

(* Otherwise stop the screen, run before_hook and enter _run, which       *)
(* suspends in astart_command.                                            *)
StopsScreen(c) ==
    /\ pc[c] = "idle" /\ fg_proc = None
    /\ screen_started' = FALSE
    /\ pc' = [pc EXCEPT ![c] = "starting"]
    /\ UNCHANGED <<fg_proc, child>>

(* The synchronous prefix of run_command_in_foreground, up to its first   *)
(* suspension.                                                            *)
Call(c) == Refused(c) \/ StopsScreen(c)

(* astart_command returns: fg_proc is recorded, then communicate waits. *)
Spawned(c) ==
    /\ pc[c] = "starting"
    /\ fg_proc' = c
    /\ child' = child \cup {c}
    /\ pc' = [pc EXCEPT ![c] = "running"]
    /\ UNCHANGED screen_started

(* astart_command raises (e.g. no such program): the exception leaves   *)
(* _run with the screen still stopped.                                   *)
SpawnFailed(c) ==
    /\ pc[c] = "starting"
    /\ pc' = [pc EXCEPT ![c] = "failed"]
    /\ UNCHANGED <<fg_proc, screen_started, child>>

(* communicate returns: clear fg_proc, tcsetpgrp, screen.start(),       *)
(* after_hook, all without suspending.                                   *)
Exited(c) ==
    /\ pc[c] = "running" /\ c \in child
    /\ fg_proc' = None
    /\ child' = child \ {c}
    /\ screen_started' = TRUE
    /\ pc' = [pc EXCEPT ![c] = "done"]

(* The task of call c is cancelled at `await proc.communicate()`: the    *)
(* CancelledError leaves _run with fg_proc still set and the screen      *)
(* stopped; the child process is not killed and keeps the terminal.      *)
Cancelled(c) ==
    /\ pc[c] = "running"
    /\ pc' = [pc EXCEPT ![c] = "cancelled"]
    /\ UNCHANGED <<fg_proc, screen_started, child>>

(* The child of a cancelled call exits; nobody is waiting for it. *)
OrphanExits(c) ==
    /\ pc[c] = "cancelled" /\ c \in child
    /\ child' = child \ {c}
    /\ UNCHANGED <<fg_proc, screen_started, pc>>

(* Every caller has had its answer. *)
Finished ==
    /\ \A c \in Calls : pc[c] \in {"done", "rejected", "failed", "cancelled"}
    /\ \A c \in child : pc[c] # "cancelled"

Terminating == Finished /\ UNCHANGED vars

Init ==
    /\ fg_proc = None
    /\ screen_started = TRUE
    /\ child = {}
    /\ pc = [c \in Calls |-> "idle"]

Next ==
    \/ \E c \in Calls : Call(c) \/ Spawned(c) \/ SpawnFailed(c) \/ Exited(c)
    \/ Terminating

Spec == Init /\ [][Next]_vars

(* Next with the callers' tasks cancellable while they wait for a child. *)
CancelNext == Next \/ \E c \in Calls : Cancelled(c) \/ OrphanExits(c)

CancelSpec == Init /\ [][CancelNext]_vars

-----------------------------------------------------------------------------
(* "cannot run two fg processes at once": at most one child process     *)
(* holds the terminal.                                                    *)
OneForegroundChild == Cardinality(child) <= 1

(* redraw_screen: "screen.started is False ... if a foreground process    *)
(* (e.g., bash debug shell) is running or if the installer is shutting    *)
(* down": the screen is left stopped only while a child process runs or a *)
(* call is starting one.                                                  *)
ScreenStoppedOnlyForFgProc ==
    ~screen_started => child # {} \/ \E c \in Calls : pc[c] = "starting"

=============================================================================
