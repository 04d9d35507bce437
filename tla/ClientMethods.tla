--------------------------- MODULE ClientMethods ---------------------------
(***************************************************************************)
(* The methods of KaguraClient as the requests they make.  A method takes  *)
(* named arguments and sends some of them on: this module says of each     *)
(* method which arguments always go on the wire, which only when they are  *)
(* given, which only when they are truthy, which ones a client-side check  *)
(* may refuse before anything is sent, and which ones may not be combined. *)
(*                                                                         *)
(* A value is abstracted to one of four classes: "unset" (None), "blank"   *)
(* ("", [], {} or False), "good", and "bad" (outside the client's check).  *)
(***************************************************************************)
EXTENDS FiniteSets, Naturals, Sequences

Value == {"unset", "blank", "good", "bad"}

(* One request: its lane (the MCP tools/call or a REST client), what it does *)
(* to the server's data, and the treatment of its arguments.               *)
Request(lane, effect, always, ifSet, ifTrue, checked) ==
  [lane |-> lane, effect |-> effect, always |-> always, ifSet |-> ifSet, ifTrue |-> ifTrue,
   checked |-> checked,
   oneOf |-> {},      \* sets of arguments of which exactly one must count
   anyOf |-> {},      \* sets of arguments of which at least one must count
   clash |-> {},      \* pairs of argument sets that may not both count
   truthy |-> {},     \* sent when set, but count in those rules only when truthy
   beats |-> {},      \* pairs <<a, b>>: when a is set b stays off the wire
   rides |-> {},      \* pairs <<a, b>>: a goes on the wire exactly when b does
   ignored |-> {},    \* accepted for older callers and never sent
   first |-> {},      \* methods called, and answered, before this one
   partial |-> FALSE] \* may be carried out in part, and say so

Tool(effect, always, ifSet, ifTrue, checked) == Request("tool", effect, always, ifSet, ifTrue, checked)
Get(always, ifSet, ifTrue, checked) == Request("get", "read", always, ifSet, ifTrue, checked)
Rest(effect, always, ifSet, ifTrue, checked) == Request("rest", effect, always, ifSet, ifTrue, checked)

---------------------------------------------------------------------------
(* Memories: writing.                                                      *)

remember == Tool("write", {"context_id", "summary", "content", "type", "importance"},
  {"tags", "source_uri", "source_type", "context_summary", "details", "context",
   "linked_memory_ids", "linked_source_uris", "supersedes", "observed_at", "dedupe"},
  {"delivery_mode", "tags_normalize", "verbose"}, {"tags", "observed_at", "dedupe"})

remember_batch == Tool("write", {"context_id", "items"},
  {"atomic", "dedupe", "tags_normalize", "verbose"}, {}, {"items"})

(* In place (memory_id) or by upsert (external_id), never both; an edit of *)
(* part of a field excludes its replacement and the upsert.                *)
update_memory == [Tool("write", {"context_id"},
  {"memory_id", "external_id", "summary", "content", "type", "importance", "tags",
   "context_summary", "delivery_mode", "details", "add_tags", "remove_tags", "details_patch",
   "observed_at", "expected_version"},
  {"dismiss_supersede_candidate", "accept_supersede_candidate", "verbose"},
  {"tags", "add_tags", "observed_at", "expected_version"})
  EXCEPT !.oneOf = {{"memory_id", "external_id"}}, !.truthy = {"memory_id", "external_id"},
         !.clash = {<<{"external_id"}, {"dismiss_supersede_candidate", "accept_supersede_candidate",
                        "expected_version", "add_tags", "remove_tags", "details_patch"}>>,
                    <<{"accept_supersede_candidate"},
                      {"dismiss_supersede_candidate", "summary", "content", "type", "importance",
                       "tags", "context_summary", "delivery_mode", "details", "details_patch",
                       "add_tags", "remove_tags", "observed_at"}>>,
                    <<{"tags"}, {"add_tags", "remove_tags"}>>,
                    <<{"details"}, {"details_patch"}>>}]

forget == [Tool("destroy", {"context_id"}, {"memory_ids"}, {"memory_id", "query"}, {"memory_ids"})
  EXCEPT !.anyOf = {{"memory_id", "memory_ids", "query"}},
         !.clash = {<<{"memory_ids"}, {"memory_id", "query", "k"}>>}, !.rides = {<<"k", "query">>}]

feedback == Tool("write", {"context_id", "memory_id", "helpful"}, {"query", "note"}, {}, {})

record_measurement == Tool("write", {"context_id", "metric", "value"},
  {"measured_at", "unit", "details"}, {}, {"metric", "value", "unit"})

set_state == Tool("write", {"context_id", "key", "value"}, {"ttl_seconds"}, {}, {"value"})

rollback_session == [Tool("destroy", {"context_id", "dry_run"}, {"session_id", "since", "until"}, {}, {})
  EXCEPT !.oneOf = {{"session_id", "since"}}, !.clash = {<<{"until"}, {"session_id"}>>},
         !.partial = TRUE]

---------------------------------------------------------------------------
(* Memories: reading.                                                      *)

recall == [Tool("read", {"query", "k"}, {"context_id", "context_ids", "use_rerank", "verbosity", "full", "max_chars"},
  {"filters", "search_mode", "include_explore_hints", "include_superseded"},
  {"query", "context_ids", "search_mode", "verbosity", "full", "max_chars"})
  EXCEPT !.anyOf = {{"context_id", "context_ids"}}, !.beats = {<<"context_ids", "context_id">>}]

recall_upcoming == Tool("read", {"context_id", "k"}, {"from", "until"}, {"include_details"}, {})
recall_nearby == Tool("read", {"context_id", "lat", "lon", "radius_m", "k"}, {}, {"include_details"}, {"lat", "lon"})
recall_series == Tool("read", {"context_id", "metric"}, {"period", "agg", "start", "end"}, {}, {"metric"})
load_pinned == Tool("read", {"context_id"}, {"cap", "max_chars"}, {}, {"max_chars"})
load_guardrails == Tool("read", {"context_id"}, {"cap", "max_chars"}, {}, {"max_chars"})

get_state == [Tool("read", {"context_id"}, {"key", "cursor", "limit", "max_chars"}, {}, {"limit", "max_chars"})
  EXCEPT !.clash = {<<{"key"}, {"cursor", "limit", "max_chars"}>>}]

explore == Tool("read", {"context_id", "memory_id", "depth", "min_weight"}, {}, {}, {})
reference == Tool("read", {"context_id", "memory_id"}, {"version", "content_offset"}, {}, {"version", "content_offset"})
bootstrap == Tool("read", {"context_id"}, {"since", "include", "max_chars", "format"}, {}, {"include", "max_chars", "format"})
changes_since == Tool("read", {"context_id", "since"},
  {"until", "kinds", "cursor", "limit", "session_id", "by_me", "max_chars"}, {}, {"kinds", "max_chars"})
list_matching == Tool("read", {"context_id"},
  {"filters", "order_by", "direction", "cursor", "limit", "max_chars"}, {"include_details"}, {"max_chars"})
list_revisions == Tool("read", {"context_id", "memory_id"}, {"limit", "cursor", "max_chars"}, {}, {"max_chars"})
describe_tools == Tool("read", {}, {"query", "names"}, {}, {"names"})
guide == Tool("read", {}, {"topics"}, {}, {"topics"})

(* The REST listing: q is trimmed and a blank one is left out, the box is  *)
(* checked bound by bound.                                                 *)
list_memories == Get({"limit", "offset"},
  {"context_id", "scope", "type", "trigger_from", "trigger_until", "order_by",
   "lat_min", "lat_max", "lon_min", "lon_max"}, {"q"}, {"lat_min", "lat_max", "lon_min", "lon_max"})
get_memory_stats == Get({"sort_by", "sort_order", "limit", "offset"}, {}, {}, {})
find_duplicates == Get({"threshold", "limit"}, {}, {}, {})

---------------------------------------------------------------------------
(* Contexts and their tags.                                                *)

list_contexts == Tool("read", {}, {"cursor", "limit"},
  {"name_contains", "include_summary", "include_details", "include_stats"}, {"limit"})

(* Reads the quota first; resource_id is accepted and never sent.          *)
create_context == [Tool("write", {"name", "is_private"},
  {"display_name", "description", "summary", "usage_guide", "embedding_model"}, {}, {})
  EXCEPT !.ignored = {"resource_id"}, !.first = {"list_contexts"}]

delete_context == Tool("destroy", {"context_id"}, {}, {}, {})
update_context == Tool("write", {"context_id"},
  {"display_name", "description", "summary", "usage_guide", "resource_id", "is_public", "is_locked"}, {}, {})
merge_contexts == Tool("destroy", {"source_context_id", "target_context_id"}, {}, {"delete_source"},
  {"source_context_id"})
get_context_info == Tool("read", {"context_id", "include_details"}, {}, {}, {})
update_search_config == Tool("write", {"context_id"},
  {"semantic_weight", "bm25_weight", "fetch_factor", "use_rerank", "reranker_provider",
   "reranker_model", "content_chunks_enabled", "llm_selector_enabled"}, {}, {})
list_tags == Tool("read", {"context_id", "limit", "min_count", "sort"}, {}, {"prefix"},
  {"limit", "min_count", "prefix", "with_tags"})

(* With a drill-down the tags come over REST, whose 404 and 422 are raised *)
(* as the tool's errors; the context's name may be asked for afterwards.   *)
list_tags_via_rest == Request("tags", "read", {"context_id", "limit", "min_count", "sort"}, {},
  {"prefix", "with_tags"}, {"limit", "min_count", "prefix", "with_tags"})

---------------------------------------------------------------------------
(* Edges, agents, Sleep runs and the server itself.                        *)

list_edges == Tool("read", {"context_id", "memory_id", "min_weight"}, {"edge_types", "limit"}, {}, {})
create_edge == Tool("write", {"context_id", "source_id", "target_id", "edge_type", "weight", "confidence"},
  {}, {}, {"target_id"})
update_edge == Tool("write", {"context_id", "source_id", "target_id"}, {"weight", "edge_type"}, {}, {})
delete_edge == Tool("destroy", {"context_id", "source_id", "target_id"}, {}, {}, {})

get_agent_bootstrap == Tool("read", {"agent_id"},
  {"context_id", "session_id", "query", "recall_k", "pinned_cap", "upcoming_until", "include", "max_chars"},
  {}, {"recall_k", "pinned_cap", "include", "max_chars"})
register_agent == Tool("write", {"name"}, {"description", "framework", "environment", "version"}, {}, {})
list_agents == Tool("read", {}, {}, {}, {})     \* page by page: see CursorPaging
get_agent == Tool("read", {"agent_id"}, {}, {}, {})
AgentFields == {"name", "description", "framework", "environment", "version", "status", "enforcement_mode"}
update_agent == [Tool("write", {"agent_id"}, AgentFields, {}, {})
  EXCEPT !.anyOf = {AgentFields}]
delete_agent == Tool("destroy", {"agent_id"}, {}, {}, {})

(* What a binding grants: the part that binding and rebinding share.       *)
BindingScope == {"can_read", "write_policy", "is_default"}
bind_agent_context == Tool("write", {"agent_id", "context_id"}, BindingScope, {}, {})
list_agent_bindings == Tool("read", {"agent_id"}, {}, {}, {})
update_agent_binding == [Tool("write", {"agent_id", "binding_id"}, BindingScope, {}, {})
  EXCEPT !.anyOf = {BindingScope}]
unbind_agent_context == Tool("destroy", {"agent_id", "binding_id"}, {}, {}, {})

get_sleep_history == Tool("read", {"context_id", "limit"}, {"source"}, {}, {})
get_sleep_report == [Tool("read", {"report_id"}, {"actions_cursor", "actions_limit", "max_chars"}, {}, {})
  EXCEPT !.ignored = {"context_id"}]
rollback_sleep_run == [Tool("destroy", {"report_id"}, {}, {}, {})
  EXCEPT !.ignored = {"context_id"}, !.partial = TRUE]

get_usage == Tool("read", {}, {}, {}, {})
get_tool_definitions == Tool("read", {}, {}, {}, {})    \* tools/list
check_server_version == Get({}, {}, {}, {})     \* get_server_info, and a warning
get_server_info == Get({}, {}, {}, {})
get_embedding_status == Get({}, {}, {}, {})
list_embedding_models == Get({}, {}, {}, {})
setup_resource == [Tool("write", {"resource_id", "name", "quota_events_per_hour"}, {"description"}, {}, {})
  EXCEPT !.ignored = {"summary"}]
============================================================================
