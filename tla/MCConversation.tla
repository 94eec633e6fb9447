--------------------------- MODULE MCConversation ---------------------------
(* Bounds of the model-checking runs of Conversation. *)
EXTENDS Conversation

AllTools == DOMAIN Script
UnprobedTools == AllTools \ {"listen_start"}
ProbeAndReplay == {"listen_start", "replay_run"}
=============================================================================
