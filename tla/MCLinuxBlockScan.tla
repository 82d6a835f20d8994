--------------------------- MODULE MCLinuxBlockScan ---------------------------
(* sda (1) with sda1 (2) and sda2 (3), sdb (4) with sdb1 (5), loop0 (6). *)
EXTENDS LinuxBlockScan

MCDevices == 1..6
MCParent == [d \in MCDevices |-> CASE d \in {2, 3} -> 1 [] d = 5 -> 4 [] OTHER -> 0]
===============================================================================
