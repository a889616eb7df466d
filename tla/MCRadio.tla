------------------------------ MODULE MCRadio ------------------------------
(* Small instances of the radio link for TLC: a base and a remote radio,   *)
(* as in the repository's two radio examples; c1 is a command for the      *)
(* remote, b1 to b3 are for anybody, b3 being a subscription out of range. *)
EXTENDS RadioLink, TLC

CONSTANTS base, remote, b1, b2, b3, c1

Both(forBase, forRemote) == (base :> forBase) @@ (remote :> forRemote)

MCRadios == {base, remote}
MCBodies == {b1, b2, b3, c1}
MCFor == (b1 :> NONE) @@ (b2 :> NONE) @@ (b3 :> NONE) @@ (c1 :> remote)

Linked ==
    [mode |-> Both("GATEWAY", "NODE_LISTENING"), window |-> Both(FALSE, FALSE),
     subs |-> Both(0, 0), peers |-> Both(<<remote>>, <<base>>),
     publish |-> Both(<<c1>>, <<b1, b2>>), uses |-> Both({}, {}), limit |-> Both(0, 0),
     attempts |-> 2, noise |-> TRUE]

\* The remote asks to be paired, and has a subscription to register.
Pairing ==
    [Linked EXCEPT !.subs = Both(0, 1), !.peers = Both(<<>>, <<>>),
                   !.publish = Both(<<>>, <<>>), !.noise = FALSE, !.attempts = 1,
                   !.uses = Both({"pairing_mode", "peer_device_remove"}, {"pairing_request"}),
                   !.limit = Both(2, 1)]

\* The remote sleeps, and listens for a while after each ACK.
SleepingRemote ==
    [Linked EXCEPT !.mode = Both("GATEWAY", "NODE_SLEEPING"), !.window = Both(FALSE, TRUE),
                   !.uses = Both({"pub_queue_clear"}, {"listen", "pub_queue_clear"}),
                   !.limit = Both(1, 1), !.noise = FALSE, !.attempts = 1]

\* The base learns of the remote while that is sending already.
Joining ==
    [Linked EXCEPT !.peers = Both(<<>>, <<base>>), !.publish = Both(<<>>, <<b1, b3>>),
                   !.uses = Both({"automatic_pairing", "peer_device_add"}, {"long_request"}),
                   !.limit = Both(1, 1), !.noise = FALSE, !.attempts = 1]

UnknownSub == {b3}

OneEach == [Linked EXCEPT !.publish = Both(<<c1>>, <<b1>>)]

Everything == {Linked, Pairing, SleepingRemote, Joining}
NoNoise == {[OneEach EXCEPT !.noise = FALSE]}
Noisy == {OneEach}

=============================================================================
