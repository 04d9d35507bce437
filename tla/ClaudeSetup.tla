----------------------------- MODULE ClaudeSetup -----------------------------
(***************************************************************************)
(* `kagura setup claude`: where the MCP entry goes and what it would lose  *)
(* to, the context, .kagura.json, the entry (a file of the project's, or   *)
(* of Claude Code's, which only the claude program writes), the hooks and  *)
(* the command files.  Each step may fail after the earlier ones took      *)
(* effect, and a write that fails may leave its file emptied; the command  *)
(* is run again until it is done.                                          *)
(***************************************************************************)
EXTENDS Naturals

CONSTANTS Asks,       \* the flags a command is given
          Entries0,   \* what the scopes may define before the first command
          MaxSetups   \* bound on the number of commands

Scopes == {"local", "project", "user"}
Places == Scopes \cup {"parent"}    \* "parent": the .mcp.json of a directory above
Hooks == {"session", "sync"}
Skills == {"recall", "remember"}

(* The entry an ask writes: the proxy, an http entry with the key in it,   *)
(* or one that names the variable the key is read from.                    *)
Wanted(ask) ==
  IF ask.oauth THEN "stdio" ELSE IF ask.scope = "project" THEN "keyed" ELSE "reference"

ASSUME SetupAssumption ==
  /\ Asks # {}
  /\ Asks \subseteq
       [scope : {"project", "user"}, oauth : BOOLEAN, yes : BOOLEAN, context : {"none", "mine"},
        session : {"unset", "on", "off"}, sync : BOOLEAN, commands : {"unset", "on", "off"}]
  /\ Entries0 \subseteq [Places -> {"none", "other", "keyed", "reference", "stdio"}]
  /\ MaxSetups \in Nat

VARIABLES
  entries,    \* the kagura-memory entry of every place
  installed,  \* context in .kagura.json, and the context each hook and command file is written with
  setting,    \* the command: its flags, control state, plan, choices and how it ended
  before,     \* history: `entries` and `installed` when the command began
  machine,    \* whether the claude program is there, and the plugin
  setups      \* commands so far

setupVars == <<entries, installed, setting, before, machine, setups>>

Parts == {"config"} \cup Hooks \cup Skills
Contexts == {"mine", "picked", "created"}
Absent == "none"

SetupTypeOK ==
  /\ entries \in [Places -> {"none", "other", "keyed", "reference", "stdio"}]
  /\ installed \in [Parts -> Contexts \cup {Absent, "users"}]
  /\ setting.ask \in Asks
  /\ machine \in [claude : BOOLEAN, plugin : BOOLEAN]

Idle(ask) == [ask |-> ask, pc |-> "idle", hideOk |-> FALSE, replaces |-> Absent, unchanged |-> FALSE,
              context |-> Absent, on |-> {}, kept |-> {}, said |-> "", cut |-> FALSE]

SetupInit ==
  /\ entries \in Entries0
  /\ installed = [p \in Parts |-> IF p = "recall" THEN "users" ELSE Absent]
  /\ setting = Idle(CHOOSE ask \in Asks : TRUE)
  /\ before = [entries |-> entries, installed |-> installed]
  /\ machine \in [claude : BOOLEAN, plugin : BOOLEAN]
  /\ setups = 0

Reached(pc) == setting.pc = pc
Files == <<entries, installed, before, machine, setups>>
Given == setting.ask

(* click ends the command: what it says of the files is `said`.            *)
Stop(said) == setting' = [setting EXCEPT !.pc = "failed", !.said = said]
(* It ends in the middle of its step on the entry, with that step's error. *)
CutOff == setting' = [setting EXCEPT !.pc = "failed", !.cut = TRUE]

begin ==
  /\ setting.pc \in {"idle", "complete", "failed"}
  /\ setups < MaxSetups
  /\ setups' = setups + 1
  /\ before' = [entries |-> entries, installed |-> installed]
  /\ \E ask \in Asks : setting' = [Idle(ask) EXCEPT !.pc = "plan"]
  /\ UNCHANGED <<entries, installed, machine>>

---------------------------------------------------------------------------
(* The plan: read before anything is written.                              *)

_closest_mcp_json(at) == IF at["project"] # Absent THEN "project" ELSE "parent"

(* The place that speaks for a scope, if any does.                         *)
Speaks(at, scope) == IF scope = "project" THEN _closest_mcp_json(at) ELSE scope
find_kagura_mcp_entries(at) == {scope \in Scopes : at[Speaks(at, scope)] # Absent}

Stronger(scope) ==
  CASE scope = "local" -> {} [] scope = "project" -> {"local"} [] scope = "user" -> {"local", "project"}

(* Claude Code uses the entry of the strongest scope.                      *)
InForce(at) ==
  LET found == find_kagura_mcp_entries(at) IN
  IF found = {} THEN Absent
  ELSE at[Speaks(at, CHOOSE s \in found : found \cap Stronger(s) = {})]

Hiding(scope) == find_kagura_mcp_entries(entries) \cap Stronger(scope)

_plan_mcp_entry ==
  /\ Reached("plan")
  /\ \/ /\ Hiding(Given.scope) # {}
        /\ Stop("nothing")                            \* -y, or not confirmed
     \/ /\ Hiding(Given.scope) # {} => ~ Given.yes        \* asked and confirmed
        /\ LET current == entries[Given.scope]
               plan == [setting EXCEPT !.pc = "verify", !.hideOk = Hiding(Given.scope) # {}] IN
           \/ Given.scope = "project" /\ setting' = plan
           \/ /\ Given.scope = "user"
              /\ \/ current = Wanted(Given) /\ setting' = [plan EXCEPT !.unchanged = TRUE]
                 \/ /\ current # Wanted(Given)
                    /\ \/ ~ machine.claude /\ Stop("nothing")
                       \/ /\ machine.claude
                          /\ \/ setting' = [plan EXCEPT !.replaces = current]
                             \/ current # Absent /\ ~ Given.yes /\ Stop("nothing")   \* declined
  /\ UNCHANGED Files

_test_connection ==
  /\ Reached("verify")
  /\ \/ setting' = [setting EXCEPT !.pc = "context"]
     \/ Stop("")
  /\ UNCHANGED Files

(* A name or id given is used, also when no context has it; an API-key     *)
(* setup takes the one of .kagura.json too.  Without either, -y creates    *)
(* one, and a person picks one or has one created.                         *)
_select_or_create_context ==
  /\ Reached("context")
  /\ LET given == IF Given.context # Absent THEN Given.context
                  ELSE IF Given.oauth THEN Absent ELSE installed["config"] IN
     \/ \E context \in Contexts :
          /\ IF given # Absent THEN context = given
             ELSE context \in (IF Given.yes THEN {"created"} ELSE {"picked", "created"})
          /\ setting' = [setting EXCEPT !.pc = "extras", !.context = context]
     \/ Stop("")     \* refused, unreachable, or an id with other characters
  /\ UNCHANGED Files

(* The plugin brings command files of its own: only a person is asked      *)
(* whether to skip the SDK's, and only about what no flag decides.         *)
_resolve_extras ==
  /\ Reached("extras")
  /\ \E session, commands \in BOOLEAN :
       /\ LET asks == machine.claude /\ machine.plugin /\ ~ Given.yes IN
          /\ session = (Given.session # "off") \/ (asks /\ Given.session = "unset")
          /\ commands = (Given.commands # "off") \/ (asks /\ Given.commands = "unset")
       /\ setting' = [setting EXCEPT !.pc = "config",
            !.on = (IF session THEN {"session"} ELSE {}) \cup (IF Given.sync THEN {"sync"} ELSE {})
                   \cup (IF commands THEN Skills ELSE {})]
  /\ UNCHANGED Files

---------------------------------------------------------------------------
(* The writes: a file that is there is emptied, and then written, so a     *)
(* write that fails leaves it as it was, without its parts (what does not  *)
(* parse is read as nothing), or complete.                                 *)

With(parts) == [p \in Parts |-> IF p \in parts THEN setting.context ELSE installed[p]]
Without(parts, held) == [p \in Parts |-> IF p \in parts THEN Absent ELSE held[p]]
Install(parts) == installed' = With(parts)
_write_json(parts, held, whole) ==
  /\ installed' \in {held, Without(parts, held), whole}
  /\ Stop("")

_write_kagura_config ==
  /\ Reached("config")
  /\ \/ Install({"config"}) /\ setting' = [setting EXCEPT !.pc = "entry"]
     \/ _write_json({"config"}, installed, With({"config"}))
  /\ UNCHANGED <<entries, before, machine, setups>>

Enter(place, entry) == entries' = [entries EXCEPT ![place] = entry]

_write_project_mcp_entry ==
  /\ Reached("entry") /\ Given.scope = "project"
  /\ \/ Enter("project", Wanted(Given)) /\ setting' = [setting EXCEPT !.pc = "hooks"]
     \/ Stop("") /\ UNCHANGED entries                     \* .mcp.json was not opened
     \/ CutOff /\ \E left \in {Absent, Wanted(Given)} : Enter("project", left)
  /\ UNCHANGED <<installed, before, machine, setups>>

(* One call of the claude program: it changes the entry or not, and setup  *)
(* hears of it or gives up after its time-out, in which case either may    *)
(* be.  add-json refuses when there is an entry.                           *)
run_claude(can, entry, heard) ==
  \/ can /\ Enter("user", entry) /\ heard = "ok"
  \/ can /\ Enter("user", entry) /\ heard = "cut"
  \/ UNCHANGED entries /\ heard \in {"failed", "cut"}
Heard == {"ok", "failed", "cut"}

(* An entry with a key in it is never put on a command line.               *)
_add_user_entry(entry, heard) ==
  IF entry = "keyed" THEN UNCHANGED entries /\ heard = "failed"
  ELSE run_claude(entries["user"] = Absent, entry, heard)

(* The user's entry goes first, since add-json does not overwrite; when    *)
(* that call fails, nothing is put back.                                   *)
_write_mcp_entry ==
  /\ Reached("entry") /\ Given.scope = "user"
  /\ \/ setting.unchanged /\ setting' = [setting EXCEPT !.pc = "hooks"] /\ UNCHANGED entries
     \/ ~ setting.unchanged /\ setting.replaces = Absent
        /\ setting' = [setting EXCEPT !.pc = "add"] /\ UNCHANGED entries
     \/ /\ ~ setting.unchanged /\ setting.replaces # Absent
        /\ \E heard \in Heard :
             /\ run_claude(TRUE, Absent, heard)
             /\ CASE heard = "ok" -> setting' = [setting EXCEPT !.pc = "add"]
                  [] heard = "failed" -> Stop("")
                  [] heard = "cut" -> CutOff
  /\ UNCHANGED <<installed, before, machine, setups>>

Add ==
  /\ Reached("add")
  /\ \E heard \in Heard :
       /\ _add_user_entry(Wanted(Given), heard)
       /\ IF heard = "ok" THEN setting' = [setting EXCEPT !.pc = "hooks"]
          ELSE IF setting.replaces = Absent THEN Stop("")
          ELSE setting' = [setting EXCEPT !.pc = "restore"]
  /\ UNCHANGED <<installed, before, machine, setups>>

(* Mutant: a restore that fails is not mentioned.                          *)
RestoreSilently ==
  /\ Reached("restore")
  /\ \E heard \in Heard : _add_user_entry(setting.replaces, heard) /\ Stop("")
  /\ UNCHANGED <<installed, before, machine, setups>>
(* The old entry is put back; when that fails too, the user is told that   *)
(* it is gone and how to add it.                                           *)
_restore_user_entry ==
  /\ Reached("restore")
  /\ \E heard \in Heard :
       _add_user_entry(setting.replaces, heard) /\ Stop(IF heard = "ok" THEN "" ELSE "gone")
  /\ UNCHANGED <<installed, before, machine, setups>>

(* settings.json is written once with the hooks that are on.               *)
_install_hooks ==
  /\ Reached("hooks")
  /\ \/ /\ Install(setting.on \cap Hooks)
        /\ setting' = [setting EXCEPT !.pc = "removeHooks"]
     \/ setting.on \cap Hooks # {} /\ _write_json(Hooks, installed, With(setting.on \cap Hooks))
  /\ UNCHANGED <<entries, before, machine, setups>>

(* What the SDK wrote among the parts that are off: removed, or kept when  *)
(* a person says so.                                                       *)
Off(parts) == {p \in parts \ setting.on : installed[p] \in Contexts}
Remove(parts, next) ==
  \/ /\ installed' = Without(Off(parts), installed)
     /\ setting' = [setting EXCEPT !.pc = next]
  \/ /\ Off(parts) # {} /\ ~ Given.yes
     /\ setting' = [setting EXCEPT !.pc = next, !.kept = setting.kept \cup Off(parts)]
     /\ UNCHANGED installed

_remove_disabled_hooks ==
  /\ Reached("removeHooks")
  /\ \/ Remove(Hooks, "skills")
     \/ Off(Hooks) # {} /\ _write_json(Hooks, installed, Without(Off(Hooks), installed))
  /\ UNCHANGED <<entries, before, machine, setups>>

(* Two files, one after the other.                                         *)
_install_skills ==
  /\ Reached("skills") /\ Skills \subseteq setting.on
  /\ \/ Install(Skills) /\ setting' = [setting EXCEPT !.pc = "complete"]
     \/ _write_json({"recall"}, installed, With({"recall"}))
     \/ _write_json({"remember"}, With({"recall"}), With(Skills))
  /\ UNCHANGED <<entries, before, machine, setups>>

_remove_sdk_skills ==
  /\ Reached("skills") /\ ~ (Skills \subseteq setting.on)
  /\ \/ Remove(Skills, "complete")
     \/ \E s \in Skills :    \* a file that cannot be removed
          /\ installed[s] \in Contexts
          /\ \/ UNCHANGED installed
             \/ s = "remember" /\ installed' = [installed EXCEPT !["recall"] = IF @ \in Contexts THEN Absent ELSE @]
          /\ Stop("")
  /\ UNCHANGED <<entries, before, machine, setups>>

SetupEnded == setting.pc \in {"idle", "complete", "failed"} /\ setups = MaxSetups /\ UNCHANGED setupVars

SetupNext ==
  \/ begin \/ _plan_mcp_entry \/ _test_connection \/ _select_or_create_context \/ _resolve_extras
  \/ _write_kagura_config \/ _write_project_mcp_entry \/ _write_mcp_entry \/ Add \/ _restore_user_entry
  \/ _install_hooks \/ _remove_disabled_hooks \/ _install_skills \/ _remove_sdk_skills
  \/ SetupEnded
SetupSpec == SetupInit /\ [][SetupNext]_setupVars

---------------------------------------------------------------------------
(* "Setup complete" is true: Claude Code uses the entry in this project    *)
(* (unless a person chose to have it hidden), the config, hooks and        *)
(* commands go to one context, and what the flags turn off is gone, the    *)
(* user's own files and what the summary lists as kept excepted.           *)
CompleteIsTrue ==
  Reached("complete") =>
    /\ setting.hideOk \/ InForce(entries) = Wanted(Given)
    /\ entries[Given.scope] = Wanted(Given)
    /\ \A p \in setting.on \cup {"config"} : installed[p] = setting.context
    /\ \A p \in (Hooks \cup Skills) \ setting.on : installed[p] \in Contexts <=> p \in setting.kept

(* A failed setup loses no entry without a word: every place but the asked *)
(* one is as it was, and that one holds what it held or what was asked     *)
(* for, or it is reported gone.  Two failures are their own word, since    *)
(* setup does not look what became of the entry: the removal of the user's *)
(* entry runs out of time, or the write of .mcp.json breaks off.  "Nothing *)
(* was written" is meant literally.                                        *)
OldEntryAccounted ==
  Reached("failed") =>
    /\ \A place \in Places \ {Given.scope} : entries[place] = before.entries[place]
    /\ \/ entries[Given.scope] \in {before.entries[Given.scope], Wanted(Given)}
       \/ entries[Given.scope] = Absent /\ (setting.said = "gone" \/ setting.cut)
    /\ setting.said = "nothing" => entries = before.entries /\ installed = before.installed

(* What setup says at its end is true of the files (_write_mcp_entry,      *)
(* _restore_user_entry, _apply_extras).                                    *)
SetupTellsTruth == CompleteIsTrue /\ OldEntryAccounted
==============================================================================
