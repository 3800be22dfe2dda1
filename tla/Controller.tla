----------------------------- MODULE Controller -----------------------------
(***************************************************************************)
(* SubiquityController (src/subiquity/server/controller.py): whether the   *)
(* installer asks the user about a controller (interactive), and how a     *)
(* controller that does not apply to the chosen variant is marked          *)
(* configured and disabled when the install is confirmed (_confirmed,      *)
(* configured).                                                            *)
(***************************************************************************)
EXTENDS Integers, FiniteSets, Sequences

CONSTANTS
    Ctrls,           \* controller instances
    Keys,            \* autoinstall section names
    Variants,        \* source variants
    None,
    Key,             \* Key[c]: autoinstall_key
    Alias,           \* Alias[c]: autoinstall_key_alias
    ForVariants,     \* ForVariants[c]: interactive_for_variants (or None)
    HasModel,        \* HasModel[c]: model_name is not None
    HasDefault,      \* HasDefault[c]: autoinstall_default is not None
    HasSchema,       \* HasSchema[c]: autoinstall_schema is not None
    NonInteractive,  \* instances of NonInteractiveController
    MaxBoots         \* bound on the starts of the server process

ASSUME /\ Key \in [Ctrls -> Keys \cup {None}]
       /\ Alias \in [Ctrls -> Keys \cup {None}]
       /\ ForVariants \in [Ctrls -> SUBSET Variants \cup {None}]
       /\ HasModel \in [Ctrls -> BOOLEAN]
       /\ HasDefault \in [Ctrls -> BOOLEAN] /\ HasSchema \in [Ctrls -> BOOLEAN]
       /\ NonInteractive \subseteq Ctrls /\ MaxBoots \in Nat \ {0}

Boots == 1 .. MaxBoots

(* A state file, or what load_state made of it, is a boot number; these  *)
(* stand for no file / nothing restored, and a torn file / a raise.      *)
Absent == 0
Torn == -1

(* self.app.autoinstall_config: absent, the empty dict (falsy like None), *)
(* or a config whose interactive-sections list is `sections` and whose    *)
(* section under key k is data[k]: missing, null, or data the schema      *)
(* accepts or rejects.                                                     *)
NoConfig == [kind |-> "none"]
EmptyConfig == [kind |-> "empty"]
Configs == {NoConfig, EmptyConfig} \cup
           [kind: {"sections"}, sections: SUBSET (Keys \cup {"*"}),
            data: [Keys -> {"absent", "null", "valid", "invalid"}]]

VARIABLES
    config,      \* self.app.autoinstall_config
    variant,     \* self.app.base_model.source.current.variant
    active,      \* active[c]: c._active
    written,     \* written[c]: configured() saved c in this server run
    announced,   \* announced[c]: (CONFIGURED, model_name) was broadcast
                 \* in this server run
    confirmed,   \* INSTALL_CONFIRMED has been broadcast
    pc,          \* pc[c]: where c's _confirmed callback is
    ai,          \* ai[c]: what setup_autoinstall did (see AiOutcomes)
    boot,        \* the server process now running is the boot-th start
    disk,        \* disk[c]: the states/<name> file: Absent, Torn (open
                 \* truncated it, json.dump did not finish), or the boot in
                 \* which configured() saved it
    loaded       \* loaded[c]: what load_state restored at this boot:
                 \* Absent (nothing), a saved boot, or Torn (it raised)

persist == <<boot, disk, loaded>>
vars == <<config, variant, active, written, announced, confirmed, pc, ai,
          boot, disk, loaded>>

(* "pending" before setup_autoinstall ran, "skipped" for its early return, *)
(* "raised" for an AutoinstallValidationError, else the argument of       *)
(* load_autoinstall_data: None ("null"), the default, or the section      *)
(* found under key k (k).                                                  *)
AiOutcomes == {"pending", "skipped", "raised", "null", "default"} \cup Keys

Subscribed == {c \in Ctrls : ForVariants[c] # None}

(* A load_state raised: the server did not come up. *)
Halted == \E c \in Ctrls : loaded[c] = Torn

(* interactive-sections, [] when the key is missing. *)
ISections == IF config.kind = "sections" THEN config.sections ELSE {}

(* Mutant of Interactive: autoinstall_key_alias is not consulted. *)
InteractiveNoAlias(c) ==
    IF c \in NonInteractive THEN FALSE
    ELSE IF config.kind # "sections" THEN active[c]
    ELSE IF "*" \in ISections THEN active[c]
    ELSE IF Key[c] \in ISections THEN active[c]
    ELSE FALSE

(* SubiquityController.interactive, the chain of early returns, and      *)
(* NonInteractiveController.interactive.                                  *)
Interactive(c) ==
    IF c \in NonInteractive THEN FALSE
    ELSE IF config.kind # "sections" THEN active[c]
    ELSE IF "*" \in ISections THEN active[c]
    ELSE IF Key[c] \in ISections THEN active[c]
    ELSE IF Alias[c] # None /\ Alias[c] \in ISections THEN active[c]
    ELSE FALSE

(* The rules of the interactive() docstring: without autoinstall an      *)
(* active controller is interactive; when autoinstalling only the        *)
(* sections listed (by key or alias, or "*") are.                         *)
InteractiveDoc(c) ==
    /\ c \notin NonInteractive
    /\ active[c]
    /\ config.kind = "sections" =>
          ISections \cap ({"*", Key[c], Alias[c]} \ {None}) # {}

-----------------------------------------------------------------------------
(* The hub broadcasts INSTALL_CONFIRMED to the controllers that          *)
(* subscribed in __init__ (interactive_for_variants is not None).        *)
Confirm ==
    /\ ~confirmed /\ ~Halted
    /\ confirmed' = TRUE
    /\ pc' = [c \in Ctrls |-> IF c \in Subscribed THEN "ready" ELSE pc[c]]
    /\ UNCHANGED <<config, variant, active, written, announced, ai>> /\ UNCHANGED persist

(* configured()'s `with open(state_path, "w")` and json.dump completing: *)
(* the file holds c's state of this boot.                                  *)
Save(c) ==
    /\ written' = [written EXCEPT ![c] = TRUE]
    /\ disk' = [disk EXCEPT ![c] = boot]

(* configured() raises in the write: open() fails and the file is as it *)
(* was, or json.dump fails after open() truncated it.                    *)
SaveRaises(c) ==
    /\ \E d \in {disk[c], Torn} : disk' = [disk EXCEPT ![c] = d]
    /\ UNCHANGED written

(* Mutant of ConfirmedRuns: _active is cleared before configured(). *)
DisableFirst(c) ==
    /\ pc[c] = "ready"
    /\ \/ /\ variant \in ForVariants[c]
          /\ pc' = [pc EXCEPT ![c] = "done"]
          /\ UNCHANGED <<active, written, disk>>
       \/ /\ variant \notin ForVariants[c]
          /\ active' = [active EXCEPT ![c] = FALSE]
          /\ \/ /\ pc' = [pc EXCEPT ![c] = "failed"]
                /\ SaveRaises(c)
             \/ /\ Save(c)
                /\ pc' = [pc EXCEPT ![c] = IF HasModel[c] THEN "broadcast"
                                                          ELSE "done"]
    /\ UNCHANGED <<config, variant, announced, confirmed, ai, boot, loaded>>

(* _confirmed: nothing to do if the variant is one c is interactive for; *)
(* otherwise configured() writes the state file (which may raise, and    *)
(* the exception leaves _active as it was) and, with a model, suspends   *)
(* in abroadcast; without one it returns and _active is cleared.          *)
ConfirmedRuns(c) ==
    /\ pc[c] = "ready"
    /\ \/ /\ variant \in ForVariants[c]
          /\ pc' = [pc EXCEPT ![c] = "done"]
          /\ UNCHANGED <<active, written, disk>>
       \/ /\ variant \notin ForVariants[c]
          /\ \/ /\ pc' = [pc EXCEPT ![c] = "failed"]
                /\ SaveRaises(c)
                /\ UNCHANGED active
             \/ /\ Save(c)
                /\ HasModel[c]
                /\ pc' = [pc EXCEPT ![c] = "broadcast"]
                /\ UNCHANGED active
             \/ /\ Save(c)
                /\ ~HasModel[c]
                /\ active' = [active EXCEPT ![c] = FALSE]
                /\ pc' = [pc EXCEPT ![c] = "done"]
    /\ UNCHANGED <<config, variant, announced, confirmed, ai, boot, loaded>>

(* Mutant of Announced: _active is left set after the broadcast. *)
AnnouncedKeepsActive(c) ==
    /\ pc[c] = "broadcast"
    /\ announced' = [announced EXCEPT ![c] = TRUE]
    /\ pc' = [pc EXCEPT ![c] = "done"]
    /\ UNCHANGED <<config, variant, active, written, confirmed, ai>> /\ UNCHANGED persist

(* abroadcast((CONFIGURED, model_name)) returns; _active is cleared. *)
Announced(c) ==
    /\ pc[c] = "broadcast"
    /\ announced' = [announced EXCEPT ![c] = TRUE]
    /\ active' = [active EXCEPT ![c] = FALSE]
    /\ pc' = [pc EXCEPT ![c] = "done"]
    /\ UNCHANGED <<config, variant, written, confirmed, ai>> /\ UNCHANGED persist

(* Mutant of AiData: the deprecated alias is tried before the key. *)
AiDataAliasFirst(c) ==
    LET cands == IF Alias[c] = None THEN <<Key[c]>> ELSE <<Alias[c], Key[c]>>
        found == SelectSeq(cands, LAMBDA k : k \in Keys /\ config.data[k] # "absent")
    IN  IF found = <<>>
        THEN IF HasDefault[c] THEN "default" ELSE "null"
        ELSE IF config.data[Head(found)] = "null" THEN "null" ELSE Head(found)

(* ai_data of setup_autoinstall: the first of key_candidates (the key,   *)
(* then the alias) that autoinstall_config[key] does not raise KeyError  *)
(* for, else autoinstall_default.  A key of None is never in the config. *)
AiData(c) ==
    LET cands == IF Alias[c] = None THEN <<Key[c]>> ELSE <<Key[c], Alias[c]>>
        found == SelectSeq(cands, LAMBDA k : k \in Keys /\ config.data[k] # "absent")
    IN  IF found = <<>>
        THEN IF HasDefault[c] THEN "default" ELSE "null"
        ELSE IF config.data[Head(found)] = "null" THEN "null" ELSE Head(found)

(* setup_autoinstall: nothing without a (non-empty) config; otherwise     *)
(* validate ai_data when both it and the schema are not None (raising     *)
(* AutoinstallValidationError) and pass it to load_autoinstall_data.      *)
SetupAutoinstall(c) ==
    /\ ai[c] = "pending" /\ ~Halted
    /\ ai' = [ai EXCEPT ![c] =
           IF config.kind # "sections" THEN "skipped"
           ELSE IF AiData(c) \in Keys /\ HasSchema[c]
                   /\ config.data[AiData(c)] = "invalid" THEN "raised"
           ELSE AiData(c)]
    /\ UNCHANGED <<config, variant, active, written, announced, confirmed, pc>>
    /\ UNCHANGED persist

(* load_state: return if states/<name> does not exist (nothing is       *)
(* restored); otherwise deserialize(json.load(fp)), which restores the    *)
(* saved state, except that json.load raises on a torn file.               *)
LoadState(c, d) ==
    CASE d[c] = Absent -> Absent
      [] d[c] = Torn   -> Torn
      [] OTHER         -> d[c]

(* The server process starts again with the state files d on disk: every *)
(* controller is built anew (_active back to the class attribute, hub    *)
(* subscriptions and autoinstall data gone) and load_state runs for      *)
(* each.                                                                  *)
Reboot(d) ==
    /\ boot < MaxBoots
    /\ boot' = boot + 1
    /\ disk' = d
    /\ loaded' = [c \in Ctrls |-> LoadState(c, d)]
    /\ active' = [c \in Ctrls |-> TRUE]
    /\ written' = [c \in Ctrls |-> FALSE]
    /\ announced' = [c \in Ctrls |-> FALSE]
    /\ confirmed' = FALSE
    /\ pc' = [c \in Ctrls |-> "idle"]
    /\ ai' = [c \in Ctrls |-> "pending"]
    /\ UNCHANGED <<config, variant>>

(* The server is stopped or crashes between two steps of its tasks. *)
Restart == ~Halted /\ Reboot(disk)

(* The server is killed inside configured(), after open(..., "w")        *)
(* truncated states/<name> and before json.dump finished.                 *)
KilledInWrite(c) ==
    /\ pc[c] = "ready" /\ variant \notin ForVariants[c]
    /\ Reboot([disk EXCEPT ![c] = Torn])

Settled ==
    /\ \/ Halted
       \/ /\ \A c \in Ctrls : ai[c] # "pending"
          /\ confirmed
          /\ \A c \in Ctrls : pc[c] \in {"idle", "done", "failed"}
    /\ UNCHANGED vars

Init ==
    /\ config \in Configs
    /\ variant \in Variants
    /\ active = [c \in Ctrls |-> TRUE]
    /\ written = [c \in Ctrls |-> FALSE]
    /\ announced = [c \in Ctrls |-> FALSE]
    /\ confirmed = FALSE
    /\ pc = [c \in Ctrls |-> "idle"]
    /\ ai = [c \in Ctrls |-> "pending"]
    /\ boot = 1
    /\ disk = [c \in Ctrls |-> Absent]
    /\ loaded = [c \in Ctrls |-> Absent]

Next ==
    \/ \E c \in Ctrls : SetupAutoinstall(c)
    \/ Confirm
    \/ \E c \in Ctrls : ConfirmedRuns(c) \/ Announced(c) \/ KilledInWrite(c)
    \/ Restart
    \/ Settled

(* The hub runs every subscribed callback it was given, and abroadcast   *)
(* returns once they have run.  Neither the user confirming the install *)
(* nor setup_autoinstall is assumed to happen.                          *)
Fairness == \A c \in Ctrls : WF_vars(ConfirmedRuns(c)) /\ WF_vars(Announced(c))

Spec == Init /\ [][Next]_vars /\ Fairness

-----------------------------------------------------------------------------
(* interactive() answers what its docstring promises, for every config,  *)
(* key, alias and _active the controllers can have.                       *)
InteractiveMatchesDoc == \A c \in Ctrls : Interactive(c) = InteractiveDoc(c)

(* A controller stops being asked about only once its configuration has *)
(* been saved and announced: _confirmed clears _active after configured() *)
(* returned, so a failing configured() cannot leave a controller that is  *)
(* neither interactive nor configured (the install would wait for it).    *)
DisabledOnlyWhenConfigured ==
    \A c \in Ctrls :
        ~active[c] => written[c] /\ (HasModel[c] => announced[c])

(* The interactive() docstring: "Controllers not applicable for a variant *)
(* are marked configured when the install is confirmed": once confirmed,  *)
(* such a controller is eventually saved, announced and no longer         *)
(* interactive, unless configured() raised or the server restarted first. *)
NotApplicableConfigured ==
    \A c \in Subscribed, b \in Boots :
        confirmed /\ variant \notin ForVariants[c] /\ boot = b ~>
            \/ written[c] /\ (HasModel[c] => announced[c]) /\ ~active[c]
            \/ pc[c] = "failed"
            \/ boot # b

(* The section a controller loads follows the rule in the comment on      *)
(* autoinstall_key_alias: the current key wins, the old (alias) name is   *)
(* honoured only when the key is missing, the default only when both are; *)
(* data the schema rejects is never loaded, and nothing is loaded without *)
(* an autoinstall config.                                                 *)
AiExpected(c) ==
    LET named == {k \in {Key[c], Alias[c]} \cap Keys : config.data[k] # "absent"}
        from == IF Key[c] \in named THEN Key[c] ELSE Alias[c]
    IN  CASE config.kind # "sections" -> "skipped"
          [] named = {} -> IF HasDefault[c] THEN "default" ELSE "null"
          [] config.data[from] = "null" -> "null"
          [] config.data[from] = "invalid" /\ HasSchema[c] -> "raised"
          [] OTHER -> from

LoadsDocumentedSection ==
    \A c \in Ctrls : ai[c] # "pending" => ai[c] = AiExpected(c)

=============================================================================
