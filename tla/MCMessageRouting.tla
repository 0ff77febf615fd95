-------------------------- MODULE MCMessageRouting --------------------------
(* Two agents, and a display name that looks like a handle made unique. *)
EXTENDS MessageRouting

CONSTANTS codex, pi

MCAgents == {codex, pi}
MCProfiles == {<<codex, 2>>}
MCMentions == {<<codex>>, <<codex, 2>>}
=============================================================================
