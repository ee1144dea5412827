----------------------------- MODULE MCChannels -----------------------------
(***************************************************************************)
(* Small instances of Channels.                                            *)
(***************************************************************************)
EXTENDS Channels

=============================================================================
