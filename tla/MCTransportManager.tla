------------------------- MODULE MCTransportManager -------------------------
(* Instances of TransportManager: one transport of each kind, or only some. *)
EXTENDS TransportManager

CONSTANTS file, irc, xmpp

MCUris == {file, irc, xmpp}
MCFileAndIrc == {file, irc}

MCScheme == [u \in Uris |-> CASE u = file -> "local" [] u = irc -> "irc" [] u = xmpp -> "xmpp"]

Circumstances(careful, reliable, daemonize, commands) ==
  [careful : {careful}, reliable : {reliable}, daemonize : {daemonize}, commands : {commands}]

MCAll == Circumstances(TRUE, TRUE, TRUE, 3) \cup Circumstances(FALSE, FALSE, FALSE, 2)
MCAnyUsers == Circumstances(FALSE, TRUE, FALSE, 2)
MCDaemon == Circumstances(TRUE, TRUE, TRUE, 1)
=============================================================================
