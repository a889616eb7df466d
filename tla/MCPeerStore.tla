---------------------------- MODULE MCPeerStore -----------------------------
(***************************************************************************)
(* Small instances of what is kept in the EEPROM, for TLC: the list of     *)
(* peers, of at most three of four ids that share halves pairwise, and the *)
(* configuration of an application.  They lie at its two ends and share    *)
(* nothing: a behaviour is one of one of them, chosen at the beginning.    *)
(***************************************************************************)
EXTENDS PeerStore, ConfigStore

VARIABLE of     \* the part that moves

MCIDs == {<<1, 1>>, <<1, 2>>, <<3, 1>>, <<3, 2>>}

Pair(first, second) == [w \in {"data", "data end"} |-> IF w = "data" THEN first ELSE second]
MCConfigs == {Pair({1}, {2}), Pair({2}, {1}), Pair({}, {1})}

MCInitConfig == Pair({}, {1})

MCInit ==
    /\ of \in {"peers", "configuration"}
    /\ Init /\ ConfigInit
    /\ of = "configuration" => peer_devices = <<>>

MCNext ==
    /\ UNCHANGED of
    /\ \/ of = "peers" /\ Next /\ UNCHANGED configVars
       \/ of = "configuration" /\ ConfigNext /\ UNCHANGED vars

\* Nothing is to be saved in the initial state of the list.
MCSpec == MCInit /\ [][MCNext]_<<of, vars, configVars>> /\ WF_vars(Save)

TypesOK == TypeOK /\ ConfigTypeOK

=============================================================================
