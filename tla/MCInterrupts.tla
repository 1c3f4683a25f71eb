---------------------------- MODULE MCInterrupts ----------------------------
(* A small machine: the xHCI controller and the network card share a pin,  *)
(* the keyboard has an ISA interrupt, the AHCI controller sends messages,  *)
(* and ACPI's interrupt is a level by the MADT.                            *)
EXTENDS Interrupts

MCOrder == <<"xhci", "nic", "keyboard", "ahci">>
MCKind == [d \in Devices |->
    IF d \in {"xhci", "nic"} THEN "pin" ELSE IF d = "ahci" THEN "msi" ELSE "isa"]
MCLines == [d \in Devices |->
    CASE d = "xhci" -> {10} [] d = "nic" -> {10, 255} [] d = "keyboard" -> {1} [] d = "ahci" -> {11}]
MCMadt == <<[source |-> 0, gsi |-> 2, level |-> FALSE],
            [source |-> 9, gsi |-> 9, level |-> TRUE],
            [source |-> 10, gsi |-> 10, level |-> TRUE],
            [source |-> 11, gsi |-> 11, level |-> TRUE]>>
============================================================================
