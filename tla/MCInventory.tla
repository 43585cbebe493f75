---------------------------- MODULE MCInventory ----------------------------
(* A card, a software interface with an address and one whose only address  *)
(* is link-local, and three drives that publish their serial in different   *)
(* places, one of them behind a controller that only udev sees through.     *)
EXTENDS InventoryCollect

MCNicNames == <<"eth0", "eth1", "veth0">>
MCDiskNames == <<"nvme0n1", "sda", "sr0">>

Card == [kind |-> "nics", addrs |-> <<<<"a1">>, <<"fe80", "a2">>, <<"a3">>>>, links |-> <<>>, udev |-> <<>>,
         files |-> [f \in {"address", "operstate", "speed", "device", "device/uevent"} |->
           CASE f = "address" -> <<"m1">> [] f = "operstate" -> <<"up">>
             [] f = "speed" -> <<"10000">> [] f = "device" -> <<"slot1">>
             [] f = "device/uevent" -> <<"slot1">>]]
Software(mac, ips) ==
  [kind |-> "nics", addrs |-> ips, links |-> <<>>, udev |-> <<>>,
   files |-> [f \in {"address", "speed"} |-> IF f = "address" THEN mac ELSE <<"-1">>]]
Bridge == Software(<<"m2">>, << <<"fe80", "a4">> >>)
Bond == Software(<<"m3">>, << <<"a5">> >>)
MCLocal == {<<"fe80", "a2">>, <<"fe80", "a4">>}

Drive(size, files, links, udev) ==
  [kind |-> "disks", addrs |-> <<>>, links |-> links, udev |-> udev,
   files |-> [f \in {"size"} \cup DOMAIN files |-> IF f = "size" THEN size ELSE files[f]]]

\* Capital letters sort before small ones: the model of the drive before eui.
Nvme == Drive(<<"1T">>, [f \in {"device/serial", "wwid", "device/model"} |->
                CASE f = "device/serial" -> <<"s1">> [] f = "wwid" -> <<"eui.1">>
                  [] f = "device/model" -> <<"model">>],
              <<[prefix |-> "nvme-", tail |-> <<"s1">>], [prefix |-> "nvme-eui.", tail |-> <<"1">>]>>, <<"s1">>)
\* A placeholder for a serial, a link that says nothing and one that does.
Sata == Drive(<<"2T">>, [f \in {"device/serial", "queue/rotational", "device/wwid", "device/vendor", "device/model"} |->
                CASE f = "device/serial" -> <<"none">> [] f = "queue/rotational" -> <<"1">>
                  [] f = "device/wwid" -> <<"t10.ATA", "w2">> [] f = "device/vendor" -> <<"ATA">>
                  [] f = "device/model" -> <<"model">>],
              <<[prefix |-> "ata-", tail |-> <<"0">>], [prefix |-> "scsi-", tail |-> <<"s2">>],
                [prefix |-> "wwn-", tail |-> <<"w2">>]>>, <<"s2">>)
Raid == Drive(<<"4T">>, [f \in {"device/vendor", "device/model"} |-> <<f>>], <<>>, <<"s3">>)
Reader == Drive(<<"0">>, [f \in {"device/name"} |-> <<"reader">>], <<>>, <<>>)

MCDevices == {Card, Bridge, Bond, Nvme, Sata, Raid, Reader}

\* A server whose chassis was never programmed, and a virtual machine that says
\* nothing of itself but its product.
MCBoards ==
  { [f \in {<<"chassis_serial">>, <<"product_serial">>, <<"sys_vendor">>, <<"cpu/present">>,
             <<"efi">>, <<"tpm_version_major">>, <<"bios_version">>} |->
       CASE f = <<"chassis_serial">> -> <<"none">> [] f = <<"tpm_version_major">> -> <<"2">>
         [] OTHER -> <<"x">>],
    [f \in {<<"product_name">>, <<"cpuinfo/processors">>, <<"tpm/device">>} |->
       IF f = <<"product_name">> THEN <<"kvm">> ELSE <<"y">>] }
MCHypervisors == [f \in {<<"kvm">>} |-> <<"kvm">>]
Setting(all, udev) == [allNICs |-> all, allDisks |-> all, useUdev |-> udev, lldp |-> TRUE]
MCSettings == {Setting(FALSE, TRUE), Setting(TRUE, FALSE)}
Failure(dirs, ips) == [dirs |-> dirs, addrs |-> ips]
MCFailures == {Failure({}, {}), Failure({}, {"eth1"}), Failure({"nics"}, {}), Failure({"disks"}, {})}
MCNeighbours == {[switch |-> <<"sw">>, port |-> <<>>]}
MCPlaceholders == {<<"none">>, <<"0">>}

MCAtStart ==
  {[n \in Names |-> CASE n = "eth0" -> Card [] n = "eth1" -> Bond [] n = "sda" -> d [] n = "nvme0n1" -> e
                      [] n = "veth0" -> Bridge [] n = "sr0" /\ e = Nobody -> Reader [] OTHER -> Nobody] :
     d \in {Sata, Raid}, e \in {Nvme, Nobody}}
=============================================================================
