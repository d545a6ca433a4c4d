------------------------------ MODULE MCHosting ------------------------------
(***************************************************************************)
(* Two threads of an application and a command line program, all for the   *)
(* same peer.                                                              *)
(***************************************************************************)
EXTENDS Hosting

MCAddress == {"local api", "hub", "discovery", "lan", "loopback", "anywhere"}

\* The last three have one port, and "anywhere" is the host 0.0.0.0.
MCClash ==
    {<<a, a>> : a \in MCAddress}
        \cup ({"anywhere"} \X {"lan", "loopback"}) \cup ({"lan", "loopback"} \X {"anywhere"})

MCAddresses(ui, direct) ==
    [ui |-> ui, hub |-> "hub", discovery |-> "discovery", direct |-> direct]

\* The first two can replace each other, and can run side by side and both write.  No
\* other two can, of these or of one of these.
MCConfig ==
    {[mode |-> "gateway", address |-> MCAddresses("local api", "lan")],
     [mode |-> "both", address |-> MCAddresses(None, "loopback")],
     [mode |-> "gateway", address |-> MCAddresses(None, "anywhere")]}
=============================================================================
