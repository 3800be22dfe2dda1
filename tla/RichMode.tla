------------------------------ MODULE RichMode ------------------------------
(***************************************************************************)
(* Rich (colour, UTF-8) versus basic (mono, ASCII) mode of TuiApplication  *)
(* (src/subiquitycore/tui.py): chosen at start by get_initial_rich_mode,   *)
(* applied and saved by set_rich, toggled by ctrl-t / F4 on a serial       *)
(* console, and kept across restarts of the installer in a state file per  *)
(* console kind ("rich-mode-serial", "rich-mode-tty"), with the single     *)
(* pre-23.10 "rich-mode" file as a fallback.                               *)
(***************************************************************************)
EXTENDS Naturals

CONSTANT MaxStarts   \* bound on the starts of the installer

None == "none"

(* Modes and file contents as JSON text: json.dump writes a boolean as   *)
(* "true" or "false", json.load reads it back.                            *)
Json(b) == IF b THEN "true" ELSE "false"

(* `not x`, also for x = None *)
Not(m) == IF m = "true" THEN "false" ELSE "true"
Files == {"rich-mode-serial", "rich-mode-tty", "rich-mode"}

VARIABLES
    disk,       \* disk[f]: state file f is "absent", holds a JSON boolean,
                \* or is "empty" (truncated by open(..., "w"), never written)
    serial,     \* self.opts.run_on_serial of the current run
    rich_mode,  \* self.rich_mode
    palette,    \* the palette last registered with the screen
    pc,         \* "down", "up" (urwid loop running) or "failed"
    starts,     \* starts so far
    lastSet     \* history: lastSet[s], the mode set_rich last applied
                \* while run_on_serial = s, or None

vars == <<disk, serial, rich_mode, palette, pc, starts, lastSet>>

RichModeFile(s) == IF s THEN "rich-mode-serial" ELSE "rich-mode-tty"

(* Mutant of SetRich: one state file for both console kinds. *)
SetRichSharedFile(rich) ==
    IF rich = rich_mode THEN UNCHANGED <<disk, rich_mode, palette, lastSet>>
    ELSE /\ rich_mode' = rich
         /\ palette' = IF rich = "true" THEN "color" ELSE "mono"
         /\ disk' = [disk EXCEPT !["rich-mode"] = rich]
         /\ lastSet' = [lastSet EXCEPT ![serial'] = rich]

(* set_rich: nothing if the mode is unchanged; otherwise set the encoding *)
(* and rich_mode, save rich_mode to this console kind's state file, and    *)
(* register the matching palette.                                          *)
SetRich(rich) ==
    IF rich = rich_mode THEN UNCHANGED <<disk, rich_mode, palette, lastSet>>
    ELSE /\ rich_mode' = rich
         /\ palette' = IF rich = "true" THEN "color" ELSE "mono"
         /\ disk' = [disk EXCEPT ![RichModeFile(serial')] = rich]
         /\ lastSet' = [lastSet EXCEPT ![serial'] = rich]

(* Mutant of GetInitialRichMode: the pre-23.10 file is read first. *)
GetInitialLegacyFirst(s) ==
    IF disk["rich-mode"] # "absent" THEN disk["rich-mode"]
    ELSE IF disk[RichModeFile(s)] # "absent" THEN disk[RichModeFile(s)]
    ELSE Json(~s)

(* get_initial_rich_mode: the console kind's file, else the pre-23.10    *)
(* file, else basic on serial and rich otherwise.  Only                  *)
(* FileNotFoundError is caught: an empty file makes json.load raise      *)
(* ("empty" is returned and start_urwid fails).                          *)
GetInitialRichMode(s) ==
    IF disk[RichModeFile(s)] # "absent" THEN disk[RichModeFile(s)]
    ELSE IF disk["rich-mode"] # "absent" THEN disk["rich-mode"]
    ELSE Json(~s)

(* A start of the installer, on a serial console or not: __init__ has    *)
(* set rich_mode to None, so start_urwid's                                *)
(* set_rich(get_initial_rich_mode()) applies and saves the initial mode;  *)
(* then the loop starts.                                                   *)
Start(s) ==
    /\ pc = "down" /\ starts < MaxStarts
    /\ starts' = starts + 1
    /\ serial' = s
    /\ IF GetInitialRichMode(s) = "empty"
       THEN /\ pc' = "failed"
            /\ UNCHANGED <<disk, rich_mode, palette, lastSet>>
       ELSE /\ pc' = "up"
            /\ SetRich(GetInitialRichMode(s))

(* unhandled_input: ctrl-t or F4 on a serial console calls toggle_rich. *)
Toggle ==
    /\ pc = "up" /\ serial
    /\ serial' = serial
    /\ SetRich(Not(rich_mode))
    /\ UNCHANGED <<pc, starts>>

(* The installer exits (run's finally stops the loop); the next process  *)
(* starts with rich_mode None and PALETTE_COLOR registered.               *)
Exit ==
    /\ pc = "up"
    /\ pc' = "down"
    /\ rich_mode' = None /\ palette' = "color"
    /\ UNCHANGED <<disk, serial, starts, lastSet>>

(* A set_rich write (at start or on a toggle) is interrupted between     *)
(* open(..., "w"), which truncated the file, and json.dump: power loss or *)
(* a kill of the process.                                                 *)
CrashInWrite ==
    /\ pc = "up"
    /\ disk' = [disk EXCEPT ![RichModeFile(serial)] = "empty"]
    /\ pc' = "down"
    /\ rich_mode' = None /\ palette' = "color"
    /\ UNCHANGED <<serial, starts, lastSet>>

Terminating ==
    /\ \/ starts = MaxStarts /\ pc # "up"
       \/ pc = "failed"
    /\ UNCHANGED vars

(* Any state files an earlier release or run may have left. *)
Init ==
    /\ disk \in [Files -> {"absent", "true", "false"}]
    /\ serial = FALSE
    /\ rich_mode = None
    /\ palette = "color"
    /\ pc = "down"
    /\ starts = 0
    /\ lastSet = [s \in BOOLEAN |-> None]

Next ==
    \/ \E s \in BOOLEAN : Start(s)
    \/ Toggle \/ Exit \/ CrashInWrite \/ Terminating

Spec == Init /\ [][Next]_vars

-----------------------------------------------------------------------------
(* Once a mode has been applied on a console kind, every later start on   *)
(* that kind comes up in the mode last applied there, whatever was done   *)
(* on the other kind in between or left in the pre-23.10 file.            *)
ModePersistsPerConsole ==
    [][pc = "down" /\ pc' = "up" /\ lastSet[serial'] # None =>
         rich_mode' = lastSet[serial']]_vars

(* get_initial_rich_mode's docstring: the initial mode is "either loaded *)
(* from an exising state file or automatically determined", so every     *)
(* start gets a mode and brings the UI up.                               *)
EveryStartComesUp == pc # "failed"

=============================================================================
