------------------------------ MODULE Commands ------------------------------
(***************************************************************************)
(* The commands of the kagura program as calls of client methods: which    *)
(* option feeds which argument, and through which conversion.              *)
(*   "as"     the value as the parser left it: an option not given is None *)
(*   "parsed" _parse_tags, _parse_json_object, _blank_to_none: blank is    *)
(*            None                                                         *)
(*   "text"   passed on as it is, but a blank one does not count as given  *)
(*   "flag"   an option without a value: not given is False                *)
(*   "switch" an option without a value: not given is None                 *)
(*   "empty"  an option without a value: given is an empty list            *)
(***************************************************************************)
EXTENDS RestMethods, TLC

As(opts) == [o \in opts |-> <<o, "as">>]
Parsed(opts) == [o \in opts |-> <<o, "parsed">>]
Text(opts) == [o \in opts |-> <<o, "text">>]
Flag(opts) == [o \in opts |-> <<o, "flag">>]
Renamed(opt, arg, how) == opt :> <<arg, how>>

(* A command that makes one method call.  `need` are the options the       *)
(* parser insists on; `context` says where the context comes from: the     *)
(* option or .kagura.json ("config"), the command line ("given"), nowhere. *)
Command(method, context, need, opts) ==
  [method |-> method, context |-> context, need |-> need, opts |-> opts,
   confirm |-> "never", \* "never", or when it asks, unless --yes: "first",
                        \* when it is "resolved", or after it has "read"
   atLeast |-> {},      \* options of which one must be given
   apart |-> {},        \* pairs of option sets that exclude each other
   nonblank |-> {},     \* options refused when blank
   retries |-> {}]      \* options a second call may leave out, with a note

---------------------------------------------------------------------------
(* Memories.                                                               *)

remember_command == Command(remember, "config", {"summary", "content"},
  As({"summary", "content", "type", "importance", "source_uri", "source_type", "dedupe"})
    @@ Parsed({"tags", "linked_memory_ids", "linked_source_uris", "observed_at", "details"})
    @@ Renamed("location", "details", "parsed") @@ Flag({"tags_normalize"}))

(* --verbosity, --full and --max-chars are newer than the oldest server:   *)
(* refused by it, they are left out of a second call and named in a note.  *)
recall_command == [Command(recall, "config", {"query"},
  As({"query", "k", "use_rerank", "verbosity", "full", "max_chars"})
    @@ Renamed("trusted_only", "filters", "switch"))
  EXCEPT !.retries = {"verbosity", "full", "max_chars"}]

explore_command == Command(explore, "config", {"memory_id"}, As({"memory_id", "depth", "min_weight"}))
reference_command == Command(reference, "config", {"memory_id"}, As({"memory_id"}))
bootstrap_command == Command(bootstrap, "config", {},
  As({"since", "max_chars", "format"}) @@ Parsed({"include"}))
changes_command == Command(changes_since, "config", {"since"},
  As({"since", "until", "cursor", "limit", "session_id", "max_chars"}) @@ Parsed({"kinds"})
    @@ Renamed("by_me", "by_me", "switch"))
list_command == Command(list_matching, "config", {},
  As({"order_by", "direction", "cursor", "limit", "max_chars"}) @@ Parsed({"filters"})
    @@ Flag({"include_details"}))

(* The ways of editing one memory; the one-call patch and its fallback are *)
(* modelled in MemoryEdits.                                                *)
update_memory_command == [Command(update_memory, "config", {},
  Text({"memory_id", "external_id"})
    @@ As({"summary", "content", "type", "importance", "expected_version"})
    @@ Parsed({"tags", "add_tags", "remove_tags", "observed_at", "details", "details_patch"})
    @@ Renamed("location", "details", "parsed")
    @@ Flag({"dismiss_supersede_candidate", "accept_supersede_candidate"}))
  EXCEPT !.atLeast = {"memory_id", "external_id"},
         !.apart = {<<{"memory_id"}, {"external_id"}>>,
                    <<{"external_id"}, {"dismiss_supersede_candidate", "accept_supersede_candidate",
                        "details_patch", "add_tags", "remove_tags", "expected_version"}>>,
                    <<{"tags"}, {"add_tags", "remove_tags"}>>,
                    <<{"details_patch"}, {"details", "location"}>>}]

forget_command == [Command(forget, "config", {},
  Text({"memory_id", "query"}) @@ As({"k"}) @@ Parsed({"memory_ids"}))
  EXCEPT !.nonblank = {"memory_ids"}, !.atLeast = {"memory_id", "query", "memory_ids"},
         !.apart = {<<{"memory_ids"}, {"memory_id", "query", "k"}>>}]

---------------------------------------------------------------------------
(* Contexts.                                                               *)

context_list_command == Command(list_contexts, "none", {},
  As({"name_contains", "limit"}) @@ Parsed({"cursor"})
    @@ Flag({"include_summary", "include_details", "include_stats"}))
contexts_command == Command(list_contexts, "none", {}, As({}))
context_create_command == Command(create_context, "none", {"name"},
  As({"name", "display_name", "description", "summary", "usage_guide"})
    @@ Renamed("public", "is_private", "flag"))
context_delete_command == [Command(delete_context, "given", {}, As({})) EXCEPT !.confirm = "first"]

ContextEdits == {"display_name", "description", "summary", "usage_guide", "is_locked"}
context_update_command == [Command(update_context, "given", {}, As(ContextEdits))
  EXCEPT !.atLeast = ContextEdits]

SearchOptions == {"semantic_weight", "bm25_weight", "fetch_factor", "use_rerank",
                  "reranker_provider", "reranker_model", "content_chunks_enabled", "llm_selector_enabled"}
context_search_config_command == [Command(update_search_config, "given", {}, As(SearchOptions))
  EXCEPT !.atLeast = SearchOptions]

---------------------------------------------------------------------------
(* Edges, Sleep runs, measurements, guardrails.                            *)

edge_list_command == Command(list_edges, "given", {"memory_id"},
  As({"memory_id", "min_weight", "limit"}) @@ Parsed({"edge_types"}))
edge_create_command == Command(create_edge, "given", {"source_id", "target_id"},
  As({"source_id", "target_id", "edge_type", "weight", "confidence"}))
edge_update_command == [Command(update_edge, "given", {"source_id", "target_id"},
  As({"source_id", "target_id", "weight", "edge_type"}))
  EXCEPT !.atLeast = {"weight", "edge_type"}]
edge_delete_command == [Command(delete_edge, "given", {"source_id", "target_id"},
  As({"source_id", "target_id"})) EXCEPT !.confirm = "first"]

sleep_history_command == Command(get_sleep_history, "given", {}, As({"limit", "source"}))
sleep_report_command == Command(get_sleep_report, "given", {"report_id"},
  As({"report_id", "actions_cursor", "actions_limit"}))

(* Unless --yes, the report is read first: the question names its date and *)
(* its number of actions.                                                  *)
sleep_rollback_command == [Command(rollback_sleep_run, "given", {"report_id"}, As({"report_id"}))
  EXCEPT !.confirm = "read"]

measure_record_command == Command(record_measurement, "given", {"metric", "value"},
  As({"metric", "value", "unit", "measured_at"}))
measure_series_command == Command(recall_series, "given", {"metric"},
  As({"metric", "period", "agg", "start", "end"}))
guardrails_load_command == Command(load_guardrails, "config", {}, As({"cap"}))

(* --profile, --tools and --add-tools need --target instructions, and --out *)
(* the export block: the model gives --target what the others need.        *)
guardrails_digest_command == [Command(get_guardrail_digest, "config", {},
  As({"target", "profile", "tools", "add_tools"}))
  EXCEPT !.nonblank = {"add_tools"}]

---------------------------------------------------------------------------
(* Resources: no context, errors after the parser's as elsewhere.          *)

Resource(method, need, opts) == Command(method, "none", need, opts)

tokens_list_command == Resource(list_tokens, {}, As({"resource_id", "limit"}))
tokens_create_command == Resource(create_token, {"resource_id"},
  As({"resource_id", "description"}) @@ Renamed("quota", "quota_events_per_hour", "as"))
tokens_update_command == [Resource(update_token, {"token_id"},
  As({"token_id", "description"}) @@ Renamed("quota", "quota_events_per_hour", "as"))
  EXCEPT !.atLeast = {"description", "quota"}]
tokens_revoke_command == Resource(revoke_token, {"token_id"}, As({"token_id"}))

ingest_command == Resource(ingest_event, {"resource_id", "api_key", "doc_id"},
  As({"resource_id", "doc_id", "op", "version", "importance"})
    @@ Renamed("api_key", "resource_api_key", "as") @@ Parsed({"payload"}))
ingest_batch_command == Resource(ingest_events, {"resource_id", "api_key", "file"},
  As({"resource_id"}) @@ Renamed("api_key", "resource_api_key", "as") @@ Renamed("file", "events", "as"))

resource_stats_command == Resource(get_resource_impact, {"resource_id"}, As({"resource_id"}))
resource_list_command == Resource(list_resources, {}, As({}))
resource_indexer_status_command == Resource(get_indexer_status, {"resource_id"}, As({"resource_id"}))
resource_schema_command == Resource(get_resource_schema, {"resource_id"}, As({"resource_id", "schema_version"}))
resource_events_command == Resource(list_resource_events, {"resource_id"},
  As({"resource_id", "limit", "cursor", "op", "doc_id", "version", "since"}))
resource_setup_command == Resource(resource_client_setup, {"resource_id"},
  As({"resource_id", "summary", "description"}) @@ Renamed("name", "context_name", "as")
    @@ Renamed("quota", "quota_events_per_hour", "as"))

---------------------------------------------------------------------------
(* Files: --context-id or the workspace of the credential's own source.    *)

files_download_url_command == Command(file_download_url, "source", {"file_id"}, As({"file_id"}))
files_delete_command == Command(file_delete, "source", {"file_id"}, As({"file_id"}))
files_list_command == Command(file_list, "source", {}, As({"limit", "cursor"}))

---------------------------------------------------------------------------
(* The workspace's members, invitations and their keys: --workspace or the *)
(* workspace of the credential's source, as for files.                     *)

Workspace(method, need, opts) == Command(method, "workspace", need, opts)

member_list_command == Workspace(list_members, {}, As({}))
member_add_command == [Workspace(add_member, {"user_id", "role"},
  As({"user_id", "role"}) @@ Renamed("context", "allowed_context_ids", "parsed")
    @@ Renamed("no_contexts", "allowed_context_ids", "empty"))
  EXCEPT !.apart = {<<{"context"}, {"no_contexts"}>>}]
member_get_context_access_command == Workspace(get_member_context_access, {"user_id"}, As({"user_id"}))

(* Exactly one of the three; --role-default sends null.                    *)
member_set_context_access_command == [Workspace(set_member_context_access, {"user_id"},
  As({"user_id"}) @@ Renamed("context", "allowed_context_ids", "parsed")
    @@ Renamed("no_contexts", "allowed_context_ids", "empty")
    @@ Renamed("role_default", "allowed_context_ids", "switch"))
  EXCEPT !.atLeast = {"context", "no_contexts", "role_default"},
         !.apart = {<<{"context"}, {"no_contexts", "role_default"}>>, <<{"no_contexts"}, {"role_default"}>>}]
member_set_role_command == Workspace(update_member_role, {"user_id", "role"}, As({"user_id", "role"}))
member_remove_command == [Workspace(remove_member, {"user_id"}, As({"user_id"}))
  EXCEPT !.confirm = "resolved"]

(* With a web session instead of the configured credential.                *)
context_add_member_command == Command(add_context_member, "given", {"user_id", "role"},
  As({"user_id", "role", "extend_access_list"}))

(* The role is one that may not be invited without contexts.               *)
invite_create_command == [Workspace(create_invitation, {"email", "context"},
  As({"email", "role"}) @@ Renamed("context", "allowed_context_ids", "parsed")
    @@ Renamed("expires_days", "expires_in_days", "parsed"))
  EXCEPT !.nonblank = {"context"}]
invite_list_command == Workspace(list_invitations, {}, Flag({"include_accepted"}))
invite_revoke_command == Workspace(revoke_invitation, {"invitation_id"}, As({"invitation_id"}))

auth_create_key_command == Workspace(mint_member_key, {"user_id", "name", "expires_days"},
  As({"user_id", "name", "expires_days"}))
auth_list_keys_command == Workspace(list_member_keys, {"user_id"}, As({"user_id"}))
auth_revoke_key_command == [Workspace(revoke_member_key, {"key_id", "user_id"}, As({"key_id", "user_id"}))
  EXCEPT !.confirm = "resolved"]
============================================================================
