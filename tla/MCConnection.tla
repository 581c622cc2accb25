---------------------------- MODULE MCConnection ----------------------------
(***************************************************************************)
(* Connection for TLC: a TCP port tried 3 times, a UDP port with its own   *)
(* protocol test tried twice, and a UDP port with the default test tried   *)
(* once (p->retry 0).                                                    *)
(***************************************************************************)
EXTENDS Connection, TLC

CONSTANTS tcp, udp, udpDefault

MCPorts == <<tcp, udp, udpDefault>>
MCRetry == (tcp :> 3 @@ udp :> 2 @@ udpDefault :> 0)
MCSockType == (tcp :> "stream" @@ udp :> "dgram" @@ udpDefault :> "dgram")
MCDefaultCheck == (tcp :> FALSE @@ udp :> FALSE @@ udpDefault :> TRUE)

=============================================================================
