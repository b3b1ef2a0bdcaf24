-------------------------- MODULE MCBrowserClient --------------------------
(* BrowserClient for TLC, with interchangeable sockets. *)
EXTENDS BrowserClient, TLC

SocketSymmetry == Permutations(Clients)
=============================================================================
