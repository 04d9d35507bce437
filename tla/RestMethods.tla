---------------------------- MODULE RestMethods ----------------------------
(***************************************************************************)
(* The methods of the REST clients (ResourceClient, SecretClient,          *)
(* FilesClient, WorkspaceClient, AgentsClient, MemoryClient) as the        *)
(* requests they make.  An argument that becomes part of the path counts   *)
(* as always sent.  FilesClient.upload is modelled in FileUpload, the      *)
(* recipients of a secret in Secrets.                                      *)
(***************************************************************************)
EXTENDS ClientMethods

(* A path segment that a client refuses unless it is one.                  *)
At(effect, always, ifSet, ids) == Rest(effect, always \cup ids, ifSet, {}, ids)

---------------------------------------------------------------------------
(* ResourceClient.                                                         *)

create_token == Rest("write", {"resource_id", "quota_events_per_hour"}, {"description"}, {},
                     {"resource_id", "quota_events_per_hour"})
list_tokens == Rest("read", {"limit", "offset"}, {"resource_id"}, {}, {})
update_token == [At("write", {}, {"description", "quota_events_per_hour"}, {"token_id"})
  EXCEPT !.checked = @ \cup {"quota_events_per_hour"}]
revoke_token == At("destroy", {}, {}, {"token_id"})
get_resource_impact == Rest("read", {"resource_id"}, {}, {}, {})
list_resources == Rest("read", {}, {}, {}, {})
get_indexer_status == Rest("read", {"resource_id"}, {}, {}, {})
get_resource_schema == Rest("read", {"resource_id"}, {"schema_version"}, {}, {})
list_resource_events == Rest("read", {"resource_id", "limit"},
                             {"cursor", "op", "doc_id", "version", "since"}, {}, {})

(* The event is checked when it is built.                                  *)
ingest_event == Rest("write", {"resource_id", "resource_api_key", "op", "doc_id"},
                     {"version", "payload", "importance"}, {}, {"op", "doc_id", "version", "importance"})
ingest_events == Rest("write", {"resource_id", "resource_api_key", "events"}, {}, {}, {"events"})

(* Goes through the MCP tool of the same name; the tool has no summary.    *)
resource_client_setup == [Tool("write", {"resource_id", "context_name", "quota_events_per_hour"},
                               {"description"}, {}, {}) EXCEPT !.ignored = {"summary"}]

---------------------------------------------------------------------------
(* SecretClient.                                                           *)

Secret(effect, always, ifSet) == Request("secret", effect, always, ifSet, {}, {})

register_pubkey == Secret("write", {"pubkey"}, {"label"})
list_pubkeys == Secret("read", {}, {})
list_my_pubkeys == Secret("read", {}, {})
approve_pubkey == Secret("write", {"pubkey_id"}, {})
revoke_pubkey == Secret("destroy", {"pubkey_id"}, {})
put_secret == Secret("write", {"name", "ciphertext", "recipients_snapshot", "grant_pubkey_ids"}, {})
list_secrets == Secret("read", {}, {})
fetch_secret == Secret("read", {"name"}, {"version_number"})
revoke_grant == Secret("destroy", {"name", "recipient_pubkey_id"}, {})
delete_secret == Secret("destroy", {"name"}, {})
verify_audit == Secret("read", {}, {})

---------------------------------------------------------------------------
(* FilesClient.                                                            *)

file_download_url == At("read", {"file_id"}, {}, {"context_id"})
file_delete == At("destroy", {"file_id"}, {}, {"context_id"})
file_list == At("read", {"limit"}, {"cursor"}, {"context_id"})

---------------------------------------------------------------------------
(* WorkspaceClient.                                                        *)

Member == {"workspace_id", "user_id"}

list_members == At("read", {}, {}, {"workspace_id"})
add_member == [At("write", {}, {"allowed_context_ids"}, Member \cup {"role"})
  EXCEPT !.checked = @ \cup {"allowed_context_ids"}]
get_member_context_access == At("read", {}, {}, Member)
set_member_context_access == At("write", {}, {}, Member \cup {"allowed_context_ids"})
update_member_role == At("write", {}, {}, Member \cup {"role"})
remove_member == At("destroy", {}, {}, Member)

(* Only in a signed-in web session.                                        *)
add_context_member == At("write", {}, {"extend_access_list"}, {"context_id", "user_id", "role"})

(* A member or a viewer cannot be invited without contexts; the model      *)
(* invites those, and allows an admin's invitation no fewer arguments.     *)
create_invitation == [At("write", {"email"}, {"allowed_context_ids", "expires_in_days"},
                         {"workspace_id", "role"})
  EXCEPT !.checked = @ \cup {"allowed_context_ids", "expires_in_days"},
         !.oneOf = {{"allowed_context_ids"}}, !.truthy = {"allowed_context_ids"}]
list_invitations == Rest("read", {"workspace_id"}, {}, {"include_accepted"}, {"workspace_id"})
revoke_invitation == At("destroy", {}, {}, {"workspace_id", "invitation_id"})

mint_member_key == At("write", {"name"}, {}, Member \cup {"expires_days"})
list_member_keys == At("read", {}, {}, Member)
revoke_member_key == At("destroy", {}, {}, Member \cup {"key_id"})

---------------------------------------------------------------------------
(* AgentsClient and MemoryClient.                                          *)

agents_bootstrap == At("read", {},
  {"context_id", "session_id", "query", "recall_k", "pinned_cap", "upcoming_until", "include", "max_chars"},
  {"agent_id"})
agents_register == Rest("write", {"name"}, {"description", "framework", "environment", "version"}, {}, {})
agents_list == Rest("read", {}, {}, {}, {})
agents_get == At("read", {}, {}, {"agent_id"})
agents_update == [At("write", {}, AgentFields, {"agent_id"}) EXCEPT !.anyOf = {AgentFields}]
agents_delete == At("destroy", {}, {}, {"agent_id"})
agents_bind == At("write", {}, BindingScope, {"agent_id", "context_id"})
agents_bindings == At("read", {}, {}, {"agent_id"})
agents_rebind == [At("write", {}, BindingScope, {"agent_id", "binding_id"}) EXCEPT !.anyOf = {BindingScope}]
agents_unbind == At("destroy", {}, {}, {"agent_id", "binding_id"})

rest_guardrails == At("read", {}, {"cap"}, {"context_id"})
get_guardrail_digest == [Rest("read", {"context_id", "target"}, {"profile", "tools"}, {"add_tools"}, {"context_id"})
  EXCEPT !.checked = @ \cup {"add_tools"}]
============================================================================
