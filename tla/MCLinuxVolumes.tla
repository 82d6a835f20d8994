----------------------------- MODULE MCLinuxVolumes -----------------------------
(* Two reported partitions, 1 and 2, and two devices on top of them, 3 and 4,  *)
(* such as a logical volume and a snapshot of it.  Volume IDs: 1 is a UUID,    *)
(* 10 + b is /dev/<name> and 20 + b the device-mapper name of block b.         *)
(* Mount paths are 1..Paths.  With same = {3}, block 4 has a filesystem        *)
(* without a UUID, mounted or not.                                             *)
EXTENDS LinuxVolumes

CONSTANTS
    Paths,      \* number of mount paths
    MaxLines,   \* length of mountinfo
    Lowers,     \* what the devices 3 and 4 may be made of
    Usages,     \* what udev may say of the partitions
    Repeats     \* may a device be mounted twice on one path

Graph(s3, s4) ==
    [blocks |-> Blocks, partitions |-> {1, 2}, located |-> {1, 2},
     parent |-> [b \in Blocks |-> {}],
     slaves |-> [b \in Blocks |-> CASE b = 3 -> s3 [] b = 4 -> s4 [] OTHER -> {}]]

\* A mount of a block by its device number, or, as with btrfs, by its source
\* only; and a mount of something that is no block device.
Lines ==
    {[device |-> b, leads |-> b, source |-> 20 + b, path |-> q] : b \in {3, 4}, q \in 1..Paths}
      \cup {[device |-> 0, leads |-> 1, source |-> 11, path |-> Paths]}
      \cup {[device |-> 0, leads |-> 0, source |-> 9, path |-> 1]}

NoRepeats(m) ==
    \A i, j \in DOMAIN m : m[i].leads # 0 /\ m[i].leads = m[j].leads /\ m[i].path = m[j].path => i = j

Mountinfos ==
    {m \in UNION {[1..n -> Lines] : n \in 0..MaxLines} : Repeats \/ NoRepeats(m)}

MCInputs ==
    {[graph |-> Graph(s3, s4), mountinfo |-> m,
      uuid  |-> [b \in Blocks |-> IF b \in same THEN 1 ELSE 0],
      usage |-> [b \in Blocks |-> IF b <= 2 THEN u ELSE ""],
      typed |-> [b \in Blocks |-> b \in same \/ (u = "other" /\ b <= 2)
                                     \/ (same = {3} /\ b = 4)],
      devID |-> [b \in Blocks |-> 10 + b]] :
        s3 \in Lowers, s4 \in Lowers, m \in Mountinfos,
        same \in {{}, {3}, {3, 4}, {1, 3, 4}}, u \in Usages}
===============================================================================
