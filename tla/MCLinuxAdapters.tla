---------------------------- MODULE MCLinuxAdapters ----------------------------
(* A bridge with a network adapter and a GPU behind it, a USB hub with an adapter *)
(* of which only the product is known, a virtual device and a GPU of a SoC; the   *)
(* PCI GPU has a card, too.  Two events on a machine with some of them, and every *)
(* pci.ids of up to four lines without events.                                    *)
EXTENDS LinuxAdapters

MCDirectories == {"bridge", "nic", "gpu", "hub", "usb", "usbif", "virtual", "soc"}
MCParent ==
    [bridge |-> None, nic |-> "bridge", gpu |-> "bridge", hub |-> None, usb |-> "hub",
     usbif |-> "usb", virtual |-> None, soc |-> None]
MCHas ==
    [bridge  |-> {"modalias", "slot", "ids", "udev"},
     nic     |-> {"modalias", "slot", "ids", "udev"},
     gpu     |-> {"modalias", "slot", "ids", "display"},
     hub     |-> {"modalias", "manufacturer", "product"},
     usb     |-> {"modalias", "product"},
     usbif   |-> {"modalias"},
     virtual |-> {"modalias", "virtual"},
     soc     |-> {"modalias", "compatible"}]
MCIds == [bridge |-> <<"v1", "d1">>, nic |-> <<"v1", "d2">>, gpu |-> <<"v2", "d1">>]
MCInterfaces == {"eth0", "usb0", "tap0"}
MCCards == {"card0", "card1", "card2"}
MCDevices ==
    [eth0 |-> {"nic", "usbif"}, usb0 |-> {"usbif"}, tap0 |-> {"virtual"},
     card0 |-> {"gpu", "soc"}, card1 |-> {"soc", "gpu", "virtual"}, card2 |-> {"virtual"}]
Usual ==
    [eth0 |-> "nic", usb0 |-> "usbif", tap0 |-> "virtual",
     card0 |-> "gpu", card1 |-> "soc", card2 |-> "virtual"]

Line(d, i, n) == [depth |-> d, id |-> i, name |-> n]
Lines ==
    {Line(0, "v1", "vendor 1"), Line(0, "v2", "vendor 2"), Line(0, None, "class"),
     Line(1, "d1", "device 1"), Line(1, "d2", "device 2"), Line(1, "d2", "device 2 again"),
     Line(1, None, "subclass"), Line(2, "d1", "subsystem")}
File == <<Line(0, "v1", "vendor 1"), Line(1, "d2", "device 2"), Line(0, "v2", "vendor 2")>>

MCMachines ==
    {[files |-> SeqOf(Lines, 4), present |-> {MCDirectories}, links |-> {Usual}, assigned |-> {{}},
      over |-> {2}],
     [files |-> {File}, present |-> SUBSET MCDirectories, links |-> {Usual},
      assigned |-> {{}, {"nic", "usbif"}}, over |-> {1}],
     [files |-> {File}, present |-> {MCDirectories, MCDirectories \ {"gpu", "soc"}},
      links |-> {Usual}, assigned |-> {{"usbif"}}, over |-> {0}]}
===============================================================================
