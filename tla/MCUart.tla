------------------------------ MODULE MCUart ------------------------------
(***************************************************************************)
(* Small instances of the UART's transmitter and of its two receivers, by  *)
(* interrupt and by DMA, and of the transmitter of the USB, for TLC.  They *)
(* share nothing: a behaviour is one of one of them, chosen at the         *)
(* beginning.                                                              *)
(***************************************************************************)
EXTENDS UartWrite, UartRead, UartDma, UsbCdc

VARIABLE by

dmaAll == <<circular, channel, length, reader, line, runs, history>>
usbAll == <<transmit_buffer, transmit_length, usb_task, configured, transfer, delivered,
            accepted, overwritten>>
all == <<by, vars, readVars, dmaAll, usbAll>>

MCInit ==
    /\ by \in {"write", "interrupt", "DMA", "USB"}
    /\ Init /\ ReadInit /\ DmaInit /\ UsbInit

MCNext ==
    /\ UNCHANGED by
    /\ \/ by = "write" /\ Next /\ UNCHANGED <<readVars, dmaAll, usbAll>>
       \/ by = "interrupt" /\ ReadNext /\ UNCHANGED <<vars, dmaAll, usbAll>>
       \/ by = "DMA" /\ DmaNext /\ UNCHANGED <<vars, readVars, usbAll>>
       \/ by = "USB" /\ UsbNext /\ UNCHANGED <<vars, readVars, dmaAll>>

\* In the initial state of the UART no fair action is enabled, so that the
\* fairness of what is not chosen asks for nothing; the USB's task is due in
\* its own.
MCSpec ==
    /\ MCInit /\ [][MCNext]_all
    /\ Fairness /\ DmaFairness
    /\ WF_all(by = "USB" /\ UsbWorks /\ UNCHANGED <<by, vars, readVars, dmaAll>>)

TypesOK == TypeOK /\ ReadTypeOK /\ DmaTypeOK /\ UsbTypeOK
\* What is written to the UART and to the USB is sent.
AllWritesServed == WritesServed /\ UsbServed

=============================================================================
