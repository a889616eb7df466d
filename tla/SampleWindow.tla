---------------------------- MODULE SampleWindow ----------------------------
(* What twr_data_stream promises: the latest samples, oldest first, as many *)
(* as it has room for, since the stream was last reset.                     *)
EXTENDS Naturals, Sequences

CONSTANTS Samples, number_of_samples

VARIABLE window

Latest(s) == IF Len(s) > number_of_samples THEN Tail(s) ELSE s

Init == window = <<>>
Feed(x) == window' = Latest(Append(window, x))
Reset == window' = <<>>
WindowNext == Reset \/ \E x \in Samples : Feed(x)
WindowSpec == Init /\ [][WindowNext]_window

=============================================================================
