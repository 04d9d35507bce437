----------------------------- MODULE MCCommands -----------------------------
(* The commands of the program.  The course of one call, for every command *)
(* and every method; the choice of its credential; and the two setups,     *)
(* which write other programs' files: systems that do not touch each       *)
(* other, checked one at a time.                                           *)
EXTENDS Calls, AuthResolution, ClaudeSetup, HarnessSetup

ClientCalls == {
  remember, remember_batch, update_memory, forget, feedback, record_measurement,
  set_state, rollback_session, recall, recall_upcoming, recall_nearby, recall_series,
  load_pinned, load_guardrails, get_state, explore, reference, bootstrap, changes_since,
  list_matching, list_revisions, describe_tools, guide, list_memories, get_memory_stats,
  find_duplicates, list_contexts, create_context, delete_context, update_context,
  merge_contexts, get_context_info, update_search_config, list_tags, list_tags_via_rest,
  list_edges, create_edge, update_edge, delete_edge, get_agent_bootstrap,
  register_agent, list_agents, get_agent, update_agent, delete_agent,
  bind_agent_context, list_agent_bindings, update_agent_binding, unbind_agent_context,
  get_sleep_history, get_sleep_report, rollback_sleep_run, get_usage,
  get_tool_definitions, check_server_version, get_server_info, get_embedding_status,
  list_embedding_models, setup_resource}

RestCalls == {
  create_token, list_tokens, update_token, revoke_token, get_resource_impact,
  list_resources, get_indexer_status, get_resource_schema, list_resource_events,
  ingest_event, ingest_events, resource_client_setup, register_pubkey, list_pubkeys,
  list_my_pubkeys, approve_pubkey, revoke_pubkey, put_secret, list_secrets,
  fetch_secret, revoke_grant, delete_secret, verify_audit, file_download_url,
  file_delete, file_list, list_members, add_member, get_member_context_access,
  set_member_context_access, update_member_role, remove_member, add_context_member,
  create_invitation, list_invitations, revoke_invitation, mint_member_key,
  list_member_keys, revoke_member_key, agents_bootstrap, agents_register, agents_list,
  agents_get, agents_update, agents_delete, agents_bind, agents_bindings, agents_rebind,
  agents_unbind, rest_guardrails, get_guardrail_digest}

CommandCalls == {
  remember_command, recall_command, explore_command, reference_command,
  bootstrap_command, changes_command, list_command, update_memory_command,
  forget_command, context_list_command, contexts_command, context_create_command,
  context_delete_command, context_update_command, context_search_config_command,
  edge_list_command, edge_create_command, edge_update_command, edge_delete_command,
  sleep_history_command, sleep_report_command, sleep_rollback_command,
  measure_record_command, measure_series_command, guardrails_load_command,
  guardrails_digest_command, tokens_list_command, tokens_create_command,
  tokens_update_command, tokens_revoke_command, ingest_command, ingest_batch_command,
  resource_stats_command, resource_list_command, resource_indexer_status_command,
  resource_schema_command, resource_events_command, resource_setup_command,
  files_download_url_command, files_delete_command, files_list_command,
  member_list_command, member_add_command, member_get_context_access_command,
  member_set_context_access_command, member_set_role_command, member_remove_command,
  context_add_member_command, invite_create_command, invite_list_command,
  invite_revoke_command, auth_create_key_command, auth_list_keys_command,
  auth_revoke_key_command}

AllRows == {Direct(m) : m \in ClientCalls \cup RestCalls} \cup CommandCalls

(* Every way to place the entry with the extras on, and every choice of    *)
(* extras with the entry in the project.                                   *)
EntryAsks == {a \in [scope : {"project", "user"}, oauth : BOOLEAN, yes : BOOLEAN, context : {"none", "mine"},
                     session : {"unset"}, sync : {TRUE}, commands : {"on"}] : a.oauth <=> a.context = "mine"}
ExtraAsks == [scope : {"project"}, oauth : {TRUE}, yes : BOOLEAN, context : {"none"},
              session : {"unset", "off"}, sync : BOOLEAN, commands : {"unset", "off"}]
AllAsks == EntryAsks \cup ExtraAsks
SomeEntries == {e \in [Places -> {"none", "other", "keyed"}] :
  e["project"] = "none" /\ <<e["local"], e["parent"]>> \in
    {<<"none", "none">>, <<"other", "none">>, <<"none", "other">>}}

AllOrders ==
  [form : Forms, profile : {TRUE}, force : BOOLEAN, terminal : BOOLEAN, dry : {FALSE},
   export : {"unset", "default"}, context : {TRUE}]
  \cup [form : {"stdio", "key"}, profile : BOOLEAN, force : {TRUE}, terminal : {TRUE}, dry : BOOLEAN,
        export : {"unset", "named"}, context : BOOLEAN]

VARIABLE part
MCVars == <<part, callVars, authVars, setupVars, harnessVars>>

(* While one is checked, the others have nothing to do.                    *)
NoCall == /\ cmd = Direct(get_usage) /\ given = [o \in {} |-> "unset"] /\ phase = "end" /\ dropped = {}
          /\ wire = {} /\ applied = 0 /\ reply = "none" /\ raised = "none"
NoTask == /\ env = [key |-> FALSE, url |-> None, profile |-> None, strict |-> FALSE]
          /\ dotfile = [there |-> FALSE, key |-> FALSE, url |-> None, context |-> FALSE]
          /\ creds = [profiles |-> {}, default |-> None] /\ bound = {}
          /\ task = [lane |-> "rest", profile |-> None, target |-> FALSE]
          /\ pc = "failed" /\ state = None /\ used = <<>> /\ place = None /\ warned = {} /\ edits = 0
NoSetup == /\ entries = [p \in Places |-> "none"] /\ installed = [p \in Parts |-> "none"]
           /\ setting = Idle(CHOOSE ask \in Asks : TRUE) /\ before = [entries |-> entries, installed |-> installed]
           /\ machine = [claude |-> FALSE, plugin |-> FALSE] /\ setups = 0
NoHarness == /\ host = [kind |-> "codex", cli |-> FALSE, reads |-> TRUE, hooks |-> FALSE] /\ held = NoEntry
             /\ doc = "absent" /\ order = Fresh(CHOOSE flags \in Orders : TRUE)
             /\ prior = [held |-> held, doc |-> doc] /\ runs = 0
MCInit == \/ part = "call" /\ CallInit /\ NoTask /\ NoSetup /\ NoHarness
          \/ part = "auth" /\ AuthInit /\ NoCall /\ NoSetup /\ NoHarness
          \/ part = "claude" /\ SetupInit /\ NoCall /\ NoTask /\ NoHarness
          \/ part = "harness" /\ HarnessInit /\ NoCall /\ NoTask /\ NoSetup
MCNext ==
  /\ UNCHANGED part
  /\ \/ part = "call" /\ CallNext /\ UNCHANGED <<authVars, setupVars, harnessVars>>
     \/ part = "auth" /\ AuthNext /\ UNCHANGED <<callVars, setupVars, harnessVars>>
     \/ part = "claude" /\ SetupNext /\ UNCHANGED <<callVars, authVars, harnessVars>>
     \/ part = "harness" /\ HarnessNext /\ UNCHANGED <<callVars, authVars, setupVars>>
MCSpec == MCInit /\ [][MCNext]_MCVars
=============================================================================
