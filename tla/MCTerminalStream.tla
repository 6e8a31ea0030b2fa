-------------------------- MODULE MCTerminalStream --------------------------
(* One terminal on a PTY that writes a few bytes: a history and a channel  *)
(* small enough that both overflow, one new PTY, two connections.          *)
EXTENDS TerminalStream

MCChunkSizes == {1}
=============================================================================
