------------------------------- MODULE UsbCdc -------------------------------
(***************************************************************************)
(* The transmitter of twr_usb_cdc.c: the application collects bytes in one *)
(* buffer, a task hands the buffer to the USB, and the USB's interrupt     *)
(* copies it, a packet at a time and as the host asks for them, into the   *)
(* memory of the peripheral.  The buffer is the application's again as     *)
(* soon as it has been handed over.                                        *)
(*                                                                         *)
(* A byte is its number among those accepted.                              *)
(***************************************************************************)
EXTENDS Naturals, Sequences, SequencesExt, FiniteSetsExt

CONSTANTS
    UsbSize,        \* of transmit_buffer
    Packet,         \* CDC_DATA_FS_MAX_PACKET_SIZE
    UsbLengths,     \* the lengths of the writes
    UsbBytes        \* bound: the bytes that are written

ASSUME UsbAssumption ==
    {UsbSize, Packet} \subseteq Nat \ {0} /\ UsbLengths \subseteq Nat \ {0} /\ UsbBytes \in Nat

VARIABLES
    transmit_buffer, transmit_length,
    usb_task,       \* the task: of the start, planned, or not planned
    configured,     \* the host has configured the device
    transfer,       \* TxState: the packets not yet copied are [next, length), or NoTransfer
    delivered,      \* history: what has been copied
    accepted,       \* history: how many bytes have been accepted
    overwritten     \* history: a write has reached bytes that were to be copied

usbVars == <<transmit_buffer, transmit_length, usb_task, configured, transfer, delivered,
             accepted, overwritten>>

NoTransfer == [next |-> 0, length |-> 0]
InProgress == transfer # NoTransfer

\* twr_usb_cdc_init
UsbInit ==
    /\ transmit_buffer = [i \in 0 .. UsbSize - 1 |-> 0] /\ transmit_length = 0
    /\ usb_task = "start" /\ configured = FALSE /\ transfer = NoTransfer
    /\ delivered = <<>> /\ accepted = 0 /\ overwritten = FALSE

\* twr_usb_cdc_write
Write(n) ==
    /\ accepted + n <= UsbBytes
    /\ n <= UsbSize - transmit_length
    /\ transmit_buffer' =
          [i \in DOMAIN transmit_buffer |->
              IF i \in transmit_length .. transmit_length + n - 1
              THEN accepted + 1 + i - transmit_length ELSE transmit_buffer[i]]
    /\ transmit_length' = transmit_length + n
    /\ usb_task' = IF usb_task = "start" THEN "start" ELSE "planned"
    /\ accepted' = accepted + n
    /\ overwritten' = \/ overwritten
                      \/ transfer.next < transfer.length /\ transmit_length + n > transfer.next
    /\ UNCHANGED <<configured, transfer, delivered>>

\* _twr_usb_cdc_task_start
StartTask ==
    /\ usb_task = "start"
    /\ usb_task' = "planned"
    /\ UNCHANGED <<transmit_buffer, transmit_length, configured, transfer, delivered, accepted,
                   overwritten>>

\* The host configures the device some time after its start.
Configure ==
    /\ usb_task # "start" /\ ~ configured
    /\ configured' = TRUE
    /\ UNCHANGED <<transmit_buffer, transmit_length, usb_task, transfer, delivered, accepted,
                   overwritten>>

\* HAL_PCD_EP_Transmit: a packet is copied from where the transfer is, with
\* what the buffer holds now.
Copy(from, length) ==
    LET to == Min({from + Packet, length})
    IN  /\ delivered' = delivered \o [k \in 1 .. to - from |-> transmit_buffer[from + k - 1]]
        /\ transfer' = [next |-> to, length |-> length]

\* _twr_usb_cdc_task.  While the USB is busy, the task plans itself again.
Task ==
    /\ usb_task = "planned"
    /\ IF transmit_length = 0
       THEN /\ usb_task' = "idle"
            /\ UNCHANGED <<transmit_length, delivered, transfer>>
       ELSE /\ configured /\ ~ InProgress
            /\ Copy(0, transmit_length)
            /\ transmit_length' = 0
            /\ UNCHANGED usb_task
    /\ UNCHANGED <<transmit_buffer, configured, accepted, overwritten>>

\* The host has taken a packet: the next one is copied, or the transfer is
\* over (USBD_CDC_DataIn).
PacketTaken ==
    /\ InProgress
    /\ \/ transfer.next < transfer.length /\ Copy(transfer.next, transfer.length)
       \/ /\ transfer.next = transfer.length
          /\ transfer' = NoTransfer /\ UNCHANGED delivered
    /\ UNCHANGED <<transmit_buffer, transmit_length, usb_task, configured, accepted, overwritten>>

UsbWorks == StartTask \/ Configure \/ Task \/ PacketTaken

UsbNext == (\E n \in UsbLengths : Write(n)) \/ UsbWorks

UsbSpec == UsbInit /\ [][UsbNext]_usbVars

-----------------------------------------------------------------------------
UsbTypeOK ==
    /\ transmit_buffer \in [0 .. UsbSize - 1 -> 0 .. UsbBytes] /\ transmit_length \in 0 .. UsbSize
    /\ usb_task \in {"start", "planned", "idle"} /\ configured \in BOOLEAN
    /\ transfer \in [next : 0 .. UsbSize, length : 0 .. UsbSize]
    /\ delivered \in Seq(1 .. UsbBytes) /\ accepted \in 0 .. UsbBytes /\ overwritten \in BOOLEAN

\* The host is sent the accepted bytes in order, each of them once, unless a
\* write that follows on a long one reached bytes that were not copied yet.
SentInOrder == ~ overwritten => delivered = [k \in 1 .. Len(delivered) |-> k]

\* Every accepted byte has its place in what is sent in the end, and the
\* task, which plans itself for as long as the USB is busy, comes to rest.
AllSent == []<>(Len(delivered) = accepted /\ transmit_length = 0 /\ usb_task # "planned")

UsbServed == []SentInOrder /\ AllSent

=============================================================================
