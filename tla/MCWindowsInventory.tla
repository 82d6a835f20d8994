-------------------------- MODULE MCWindowsInventory --------------------------
(* Computers whose devices are of several kinds: with a complete set of         *)
(* properties; recognised by a serial number only; by a serial number only       *)
(* MSFT_Disk knows; without a number; not identified at all.  And a computer      *)
(* whose disks are settled, with rows of the other classes of which more or less  *)
(* is known and whose queries may fail.                                          *)
EXTENDS WindowsInventory

Complete == {"index", "id", "serial", "diskIndex", "number", "msftSerial", "msftBus",
             "deviceID", "physicalSerial", "physicalBus", "physicalMedia"}

Kinds == {Complete,
          Complete \ {"deviceID", "id"},
          Complete \ {"deviceID", "serial", "physicalBus"},
          Complete \ {"index", "deviceID", "physicalMedia"},
          Complete \ {"index", "serial"},
          {"index", "id", "number", "msftBus"},
          {"serial", "diskIndex", "number", "physicalSerial", "physicalBus"}}

\* Device 1 has two partitions, listed last first; the volume on the second one
\* spans two disks, with the partition of device 2.
Layout(has, reliable) ==
    [has |-> has, reliable |-> reliable,
     partitions |-> [d \in Devices |-> IF d = 1 THEN <<2, 1>> ELSE <<1>>],
     volumes |-> [d \in Devices |-> [n \in Numbers |->
        CASE d = 1 /\ n = 1 -> {1} [] d = 1 /\ n = 2 -> {2} [] d = 2 /\ n = 1 -> {2} [] OTHER -> {}]],
     letter |-> ("C" :> 1 @@ "D" :> 2)]

Quiet == Layout([d \in Devices |-> {"id"}], Classes)

AllRows ==
    [Win32_ComputerSystem        |-> <<{"manufacturer", "total"}>>,
     Win32_ComputerSystemProduct |-> <<{"manufacturer", "uuid"}>>,
     Win32_SystemEnclosure       |-> <<{"chassis"}>>,
     Win32_BaseBoard             |-> <<{"baseboard"}>>,
     Win32_BIOS                  |-> <<{"firmware"}>>,
     Win32_PhysicalMemory        |-> <<{"capacity", "location"}, {"location"}>>,
     Win32_Processor             |-> <<{"DeviceID"}, {"ProcessorId"}, {}>>,
     Win32_NetworkAdapter        |-> <<{"GUID", "PhysicalAdapter"}, {"GUID", "DeviceID"},
                                       {"PhysicalAdapter", "PNPDeviceID", "DeviceID"}, {"PhysicalAdapter"}>>,
     Win32_VideoController       |-> <<{"DeviceID"}, {"PNPDeviceID", "DeviceID"}, {}>>]

MCComputers ==
    {[machines |-> {Layout(has, OtherClasses) : has \in {h \in [Devices -> Kinds] : Complete \in Range(h)}},
      over |-> 0, rows |-> {AllRows}],
     [machines |-> {Layout(has, OtherClasses) : has \in [Devices -> Kinds]}, over |-> 1, rows |-> {AllRows}],
     [machines |-> {Quiet}, over |-> MaxEvents,
      rows |-> {[AllRows EXCEPT !.Win32_ComputerSystem = s, !.Win32_PhysicalMemory = m] :
                  s \in {<<{"total"}>>, <<{"manufacturer"}, {"total"}>>, <<{"manufacturer", "total"}>>, << >>},
                  m \in {<<{}, {"location"}>>, <<{"capacity"}>>, <<{}>>}}]}
===============================================================================
