---------------------------- MODULE MCRemoteShare ----------------------------
(* Two handlers, both providers, two PIN attempts, two tunnels and a crash. *)
EXTENDS RemoteShare, TLC

MCProviderOrder == <<"cloudflared", "localhost_run">>
=============================================================================
