--------------------------- MODULE DevicePathNodes ---------------------------
(***************************************************************************)
(* The device path nodes of uefi/src/proto/device_path/device_path_gen.rs  *)
(* and of uefi-raw: for every kind the packed structure a node is read     *)
(* with, the builder that writes one, and the structure of uefi-raw.       *)
(*                                                                         *)
(* The three are separate pieces of code that must agree byte by byte.     *)
(***************************************************************************)
EXTENDS Integers, Sequences, SequencesExt

(* A notation for layouts.  A byte is a pair: a name and a number.  The      *)
(* bytes of a field are named after the field and numbered, so that a byte   *)
(* says what was written there; the bytes of the header carry their value.   *)

\* Fields: of a base type, an array of bytes, an empty array, a slice.
F(name, ty) == [name |-> name, ty |-> ty, len |-> 1, dyn |-> FALSE]
A(name, n) == [name |-> name, ty |-> "u8", len |-> n, dyn |-> FALSE]
Z(name, ty) == [name |-> name, ty |-> ty, len |-> 0, dyn |-> FALSE]
S(name, ty) == [name |-> name, ty |-> ty, len |-> 0, dyn |-> TRUE]

\* A packed structure, with the literal static_size of its TryFrom if it
\* ends in a slice; the statements of a write_data; a builder; a node of the
\* specification.
NoSlice == 0
Packed(dt, st, fields, static_size) ==
    [device_type |-> dt, sub_type |-> st, fields |-> fields, static_size |-> static_size]
Put(at, f) == [op |-> "put", at |-> at, name |-> f.name, ty |-> f.ty, len |-> f.len]
Zero(at, ty) == [op |-> "zero", at |-> at, name |-> "0", ty |-> ty, len |-> 1]
Bytes(at, name) == [op |-> "bytes", at |-> at, name |-> name, ty |-> "u8", len |-> 0]
Build(dt, st, static_size, stmts) ==
    [device_type |-> dt, sub_type |-> st, static_size |-> static_size, stmts |-> stmts]
Node(dt, st, static_size, fields) ==
    [device_type |-> dt, sub_type |-> st, static_size |-> static_size, fields |-> fields]

\* size_of::<T>(): the integers, and the types the code declares over them
size_of == [u8 |-> 1, u16 |-> 2, u32 |-> 4, u64 |-> 8, Guid |-> 16, IpAddress |-> 16, MemoryType |-> 4,
    BmcInterfaceType |-> 1, BluetoothLeAddressType |-> 1, DnsAddressType |-> 1, InfinibandResourceFlags |-> 4,
    Ipv4AddressOrigin |-> 1, Ipv6AddressOrigin |-> 1, IscsiLoginOptions |-> 2, IscsiProtocol |-> 2, MasterSlave |-> 1,
    Parity |-> 1, PrimarySecondary |-> 1, RestServiceAccessMode |-> 1, RestServiceType |-> 1, StopBits |-> 1,
    PartitionFormat |-> 1, RamDiskType |-> 16]

HeaderSize == 4
SizeOf(f) == size_of[f.ty] * f.len

-----------------------------------------------------------------------------
\* uefi-raw
DeviceType == [HARDWARE |-> 1, ACPI |-> 2, MESSAGING |-> 3, MEDIA |-> 4, BIOS_BOOT_SPEC |-> 5, END |-> 127]

DeviceSubType == [HARDWARE_PCI |-> 1, HARDWARE_PCCARD |-> 2, HARDWARE_MEMORY_MAPPED |-> 3, HARDWARE_VENDOR |-> 4,
    HARDWARE_CONTROLLER |-> 5, HARDWARE_BMC |-> 6, ACPI |-> 1, ACPI_EXPANDED |-> 2, ACPI_ADR |-> 3, ACPI_NVDIMM |-> 4,
    MESSAGING_ATAPI |-> 1, MESSAGING_SCSI |-> 2, MESSAGING_FIBRE_CHANNEL |-> 3, MESSAGING_1394 |-> 4,
    MESSAGING_USB |-> 5, MESSAGING_I2O |-> 6, MESSAGING_INFINIBAND |-> 9, MESSAGING_VENDOR |-> 10,
    MESSAGING_MAC_ADDRESS |-> 11, MESSAGING_IPV4 |-> 12, MESSAGING_IPV6 |-> 13, MESSAGING_UART |-> 14,
    MESSAGING_USB_CLASS |-> 15, MESSAGING_USB_WWID |-> 16, MESSAGING_DEVICE_LOGICAL_UNIT |-> 17,
    MESSAGING_SATA |-> 18, MESSAGING_ISCSI |-> 19, MESSAGING_VLAN |-> 20, MESSAGING_FIBRE_CHANNEL_EX |-> 21,
    MESSAGING_SCSI_SAS_EX |-> 22, MESSAGING_NVME_NAMESPACE |-> 23, MESSAGING_URI |-> 24, MESSAGING_UFS |-> 25,
    MESSAGING_SD |-> 26, MESSAGING_BLUETOOTH |-> 27, MESSAGING_WIFI |-> 28, MESSAGING_EMMC |-> 29,
    MESSAGING_BLUETOOTH_LE |-> 30, MESSAGING_DNS |-> 31, MESSAGING_NVDIMM_NAMESPACE |-> 32,
    MESSAGING_REST_SERVICE |-> 33, MESSAGING_NVME_OF_NAMESPACE |-> 34, MEDIA_HARD_DRIVE |-> 1, MEDIA_CD_ROM |-> 2,
    MEDIA_VENDOR |-> 3, MEDIA_FILE_PATH |-> 4, MEDIA_PROTOCOL |-> 5, MEDIA_PIWG_FIRMWARE_FILE |-> 6,
    MEDIA_PIWG_FIRMWARE_VOLUME |-> 7, MEDIA_RELATIVE_OFFSET_RANGE |-> 8, MEDIA_RAM_DISK |-> 9,
    BIOS_BOOT_SPECIFICATION |-> 1, END_INSTANCE |-> 1, END_ENTIRE |-> 255]

-----------------------------------------------------------------------------
(* Packed structures and their TryFrom<&DevicePathNode> *)

\* pub mod end
end_Instance == Packed("END", "END_INSTANCE", <<>>, NoSlice)
end_Entire == Packed("END", "END_ENTIRE", <<>>, NoSlice)

\* pub mod hardware
hardware_Pci == Packed("HARDWARE", "HARDWARE_PCI", <<F("function", "u8"), F("device", "u8")>>, NoSlice)
hardware_Pccard == Packed("HARDWARE", "HARDWARE_PCCARD", <<F("function", "u8")>>, NoSlice)
hardware_MemoryMapped == Packed("HARDWARE", "HARDWARE_MEMORY_MAPPED", <<F("memory_type", "MemoryType"),
    F("start_address", "u64"), F("end_address", "u64")>>, NoSlice)
hardware_Vendor == Packed("HARDWARE", "HARDWARE_VENDOR", <<F("vendor_guid", "Guid"), S("vendor_defined_data", "u8")>>,
    20)
hardware_Controller == Packed("HARDWARE", "HARDWARE_CONTROLLER", <<F("controller_number", "u32")>>, NoSlice)
hardware_Bmc == Packed("HARDWARE", "HARDWARE_BMC", <<F("interface_type", "BmcInterfaceType"),
    F("base_address", "u64")>>, NoSlice)

\* pub mod acpi
acpi_Acpi == Packed("ACPI", "ACPI", <<F("hid", "u32"), F("uid", "u32")>>, NoSlice)
acpi_Expanded == Packed("ACPI", "ACPI_EXPANDED", <<F("hid", "u32"), F("uid", "u32"), F("cid", "u32"),
    S("data", "u8")>>, 16)
acpi_Adr == Packed("ACPI", "ACPI_ADR", <<S("adr", "u32")>>, 4)
acpi_Nvdimm == Packed("ACPI", "ACPI_NVDIMM", <<F("nfit_device_handle", "u32")>>, NoSlice)

\* pub mod messaging
messaging_Atapi == Packed("MESSAGING", "MESSAGING_ATAPI", <<F("primary_secondary", "PrimarySecondary"),
    F("master_slave", "MasterSlave"), F("logical_unit_number", "u16")>>, NoSlice)
messaging_Scsi == Packed("MESSAGING", "MESSAGING_SCSI", <<F("target_id", "u16"), F("logical_unit_number", "u16")>>,
    NoSlice)
messaging_FibreChannel == Packed("MESSAGING", "MESSAGING_FIBRE_CHANNEL", <<F("_reserved", "u32"),
    F("world_wide_name", "u64"), F("logical_unit_number", "u64")>>, NoSlice)
messaging_FibreChannelEx == Packed("MESSAGING", "MESSAGING_FIBRE_CHANNEL_EX", <<F("_reserved", "u32"),
    A("world_wide_name", 8), A("logical_unit_number", 8)>>, NoSlice)
messaging_Ieee1394 == Packed("MESSAGING", "MESSAGING_1394", <<F("_reserved", "u32"), A("guid", 8)>>, NoSlice)
messaging_Usb == Packed("MESSAGING", "MESSAGING_USB", <<F("parent_port_number", "u8"), F("interface", "u8")>>,
    NoSlice)
messaging_Sata == Packed("MESSAGING", "MESSAGING_SATA", <<F("hba_port_number", "u16"),
    F("port_multiplier_port_number", "u16"), F("logical_unit_number", "u16")>>, NoSlice)
messaging_UsbWwid == Packed("MESSAGING", "MESSAGING_USB_WWID", <<F("interface_number", "u16"),
    F("device_vendor_id", "u16"), F("device_product_id", "u16"), S("serial_number", "u16")>>, 10)
messaging_DeviceLogicalUnit == Packed("MESSAGING", "MESSAGING_DEVICE_LOGICAL_UNIT",
    <<F("logical_unit_number", "u8")>>, NoSlice)
messaging_UsbClass == Packed("MESSAGING", "MESSAGING_USB_CLASS", <<F("vendor_id", "u16"), F("product_id", "u16"),
    F("device_class", "u8"), F("device_subclass", "u8"), F("device_protocol", "u8")>>, NoSlice)
messaging_I2o == Packed("MESSAGING", "MESSAGING_I2O", <<F("target_id", "u32")>>, NoSlice)
messaging_MacAddress == Packed("MESSAGING", "MESSAGING_MAC_ADDRESS", <<A("mac_address", 32),
    F("interface_type", "u8")>>, NoSlice)
messaging_Ipv4 == Packed("MESSAGING", "MESSAGING_IPV4", <<A("local_ip_address", 4), A("remote_ip_address", 4),
    F("local_port", "u16"), F("remote_port", "u16"), F("protocol", "u16"),
    F("ip_address_origin", "Ipv4AddressOrigin"), A("gateway_ip_address", 4), A("subnet_mask", 4)>>, NoSlice)
messaging_Ipv6 == Packed("MESSAGING", "MESSAGING_IPV6", <<A("local_ip_address", 16), A("remote_ip_address", 16),
    F("local_port", "u16"), F("remote_port", "u16"), F("protocol", "u16"),
    F("ip_address_origin", "Ipv6AddressOrigin"), F("prefix_length", "u8"), A("gateway_ip_address", 16)>>, NoSlice)
messaging_Vlan == Packed("MESSAGING", "MESSAGING_VLAN", <<F("vlan_id", "u16")>>, NoSlice)
messaging_Infiniband == Packed("MESSAGING", "MESSAGING_INFINIBAND", <<F("resource_flags", "InfinibandResourceFlags"),
    A("port_gid", 16), F("ioc_guid_or_service_id", "u64"), F("target_port_id", "u64"), F("device_id", "u64")>>,
    NoSlice)
messaging_Uart == Packed("MESSAGING", "MESSAGING_UART", <<F("_reserved", "u32"), F("baud_rate", "u64"),
    F("data_bits", "u8"), F("parity", "Parity"), F("stop_bits", "StopBits")>>, NoSlice)
messaging_Vendor == Packed("MESSAGING", "MESSAGING_VENDOR", <<F("vendor_guid", "Guid"),
    S("vendor_defined_data", "u8")>>, 20)
messaging_SasEx == Packed("MESSAGING", "MESSAGING_SCSI_SAS_EX", <<A("sas_address", 8), A("logical_unit_number", 8),
    F("info", "u16"), F("relative_target_port", "u16")>>, NoSlice)
messaging_Iscsi == Packed("MESSAGING", "MESSAGING_ISCSI", <<F("protocol", "IscsiProtocol"),
    F("options", "IscsiLoginOptions"), A("logical_unit_number", 8), F("target_portal_group_tag", "u16"),
    S("iscsi_target_name", "u8")>>, 18)
messaging_NvmeNamespace == Packed("MESSAGING", "MESSAGING_NVME_NAMESPACE", <<F("namespace_identifier", "u32"),
    F("ieee_extended_unique_identifier", "u64")>>, NoSlice)
messaging_Uri == Packed("MESSAGING", "MESSAGING_URI", <<S("value", "u8")>>, 4)
messaging_Ufs == Packed("MESSAGING", "MESSAGING_UFS", <<F("target_id", "u8"), F("logical_unit_number", "u8")>>,
    NoSlice)
messaging_Sd == Packed("MESSAGING", "MESSAGING_SD", <<F("slot_number", "u8")>>, NoSlice)
messaging_Bluetooth == Packed("MESSAGING", "MESSAGING_BLUETOOTH", <<A("device_address", 6)>>, NoSlice)
messaging_Wifi == Packed("MESSAGING", "MESSAGING_WIFI", <<A("ssid", 32)>>, NoSlice)
messaging_Emmc == Packed("MESSAGING", "MESSAGING_EMMC", <<F("slot_number", "u8")>>, NoSlice)
messaging_BluetoothLe == Packed("MESSAGING", "MESSAGING_BLUETOOTH_LE", <<A("device_address", 6),
    F("address_type", "BluetoothLeAddressType")>>, NoSlice)
messaging_Dns == Packed("MESSAGING", "MESSAGING_DNS", <<F("address_type", "DnsAddressType"),
    S("addresses", "IpAddress")>>, 5)
messaging_NvdimmNamespace == Packed("MESSAGING", "MESSAGING_NVDIMM_NAMESPACE", <<A("uuid", 16)>>, NoSlice)
messaging_RestService == Packed("MESSAGING", "MESSAGING_REST_SERVICE", <<F("service_type", "RestServiceType"),
    F("access_mode", "RestServiceAccessMode"), S("vendor_guid_and_data", "u8")>>, 6)
messaging_NvmeOfNamespace == Packed("MESSAGING", "MESSAGING_NVME_OF_NAMESPACE", <<F("nidt", "u8"), A("nid", 16),
    S("subsystem_nqn", "u8")>>, 21)

\* pub mod media
media_HardDrive == Packed("MEDIA", "MEDIA_HARD_DRIVE", <<F("partition_number", "u32"), F("partition_start", "u64"),
    F("partition_size", "u64"), A("partition_signature", 16), F("partition_format", "PartitionFormat"),
    F("signature_type", "u8")>>, NoSlice)
media_CdRom == Packed("MEDIA", "MEDIA_CD_ROM", <<F("boot_entry", "u32"), F("partition_start", "u64"),
    F("partition_size", "u64")>>, NoSlice)
media_Vendor == Packed("MEDIA", "MEDIA_VENDOR", <<F("vendor_guid", "Guid"), S("vendor_defined_data", "u8")>>, 20)
media_FilePath == Packed("MEDIA", "MEDIA_FILE_PATH", <<S("path_name", "u16")>>, 4)
media_Protocol == Packed("MEDIA", "MEDIA_PROTOCOL", <<F("protocol_guid", "Guid")>>, NoSlice)
media_PiwgFirmwareFile == Packed("MEDIA", "MEDIA_PIWG_FIRMWARE_FILE", <<S("data", "u8")>>, 4)
media_PiwgFirmwareVolume == Packed("MEDIA", "MEDIA_PIWG_FIRMWARE_VOLUME", <<S("data", "u8")>>, 4)
media_RelativeOffsetRange == Packed("MEDIA", "MEDIA_RELATIVE_OFFSET_RANGE", <<F("_reserved", "u32"),
    F("starting_offset", "u64"), F("ending_offset", "u64")>>, NoSlice)
media_RamDisk == Packed("MEDIA", "MEDIA_RAM_DISK", <<F("starting_address", "u64"), F("ending_address", "u64"),
    F("disk_type", "RamDiskType"), F("disk_instance", "u16")>>, NoSlice)

\* pub mod bios_boot_spec
bios_boot_spec_BootSpecification == Packed("BIOS_BOOT_SPEC", "BIOS_BOOT_SPECIFICATION", <<F("device_type", "u16"),
    F("status_flag", "u16"), S("description_string", "u8")>>, 8)

-----------------------------------------------------------------------------
(* DevicePathNodeEnum: the arms of try_from *)

arms == <<
    <<"END", [END_INSTANCE |-> end_Instance, END_ENTIRE |-> end_Entire]>>,
    <<"HARDWARE", [HARDWARE_PCI |-> hardware_Pci, HARDWARE_PCCARD |-> hardware_Pccard, HARDWARE_MEMORY_MAPPED |->
        hardware_MemoryMapped, HARDWARE_VENDOR |-> hardware_Vendor, HARDWARE_CONTROLLER |-> hardware_Controller,
        HARDWARE_BMC |-> hardware_Bmc]>>,
    <<"ACPI", [ACPI |-> acpi_Acpi, ACPI_EXPANDED |-> acpi_Expanded, ACPI_ADR |-> acpi_Adr, ACPI_NVDIMM |->
        acpi_Nvdimm]>>,
    <<"MESSAGING", [MESSAGING_ATAPI |-> messaging_Atapi, MESSAGING_SCSI |-> messaging_Scsi,
        MESSAGING_FIBRE_CHANNEL |-> messaging_FibreChannel, MESSAGING_FIBRE_CHANNEL_EX |->
        messaging_FibreChannelEx, MESSAGING_1394 |-> messaging_Ieee1394, MESSAGING_USB |-> messaging_Usb,
        MESSAGING_SATA |-> messaging_Sata, MESSAGING_USB_WWID |-> messaging_UsbWwid, MESSAGING_DEVICE_LOGICAL_UNIT
        |-> messaging_DeviceLogicalUnit, MESSAGING_USB_CLASS |-> messaging_UsbClass, MESSAGING_I2O |->
        messaging_I2o, MESSAGING_MAC_ADDRESS |-> messaging_MacAddress, MESSAGING_IPV4 |-> messaging_Ipv4,
        MESSAGING_IPV6 |-> messaging_Ipv6, MESSAGING_VLAN |-> messaging_Vlan, MESSAGING_INFINIBAND |->
        messaging_Infiniband, MESSAGING_UART |-> messaging_Uart, MESSAGING_VENDOR |-> messaging_Vendor,
        MESSAGING_SCSI_SAS_EX |-> messaging_SasEx, MESSAGING_ISCSI |-> messaging_Iscsi, MESSAGING_NVME_NAMESPACE
        |-> messaging_NvmeNamespace, MESSAGING_URI |-> messaging_Uri, MESSAGING_UFS |-> messaging_Ufs,
        MESSAGING_SD |-> messaging_Sd, MESSAGING_BLUETOOTH |-> messaging_Bluetooth, MESSAGING_WIFI |->
        messaging_Wifi, MESSAGING_EMMC |-> messaging_Emmc, MESSAGING_BLUETOOTH_LE |-> messaging_BluetoothLe,
        MESSAGING_DNS |-> messaging_Dns, MESSAGING_NVDIMM_NAMESPACE |-> messaging_NvdimmNamespace,
        MESSAGING_REST_SERVICE |-> messaging_RestService, MESSAGING_NVME_OF_NAMESPACE |->
        messaging_NvmeOfNamespace]>>,
    <<"MEDIA", [MEDIA_HARD_DRIVE |-> media_HardDrive, MEDIA_CD_ROM |-> media_CdRom, MEDIA_VENDOR |-> media_Vendor,
        MEDIA_FILE_PATH |-> media_FilePath, MEDIA_PROTOCOL |-> media_Protocol, MEDIA_PIWG_FIRMWARE_FILE |->
        media_PiwgFirmwareFile, MEDIA_PIWG_FIRMWARE_VOLUME |-> media_PiwgFirmwareVolume,
        MEDIA_RELATIVE_OFFSET_RANGE |-> media_RelativeOffsetRange, MEDIA_RAM_DISK |-> media_RamDisk]>>,
    <<"BIOS_BOOT_SPEC", [BIOS_BOOT_SPECIFICATION |-> bios_boot_spec_BootSpecification]>>>>

-----------------------------------------------------------------------------
(* Builders: size_in_bytes and write_data *)

\* build::end
build_end_Instance == Build("END", "END_INSTANCE", 4, <<>>)
build_end_Entire == Build("END", "END_ENTIRE", 4, <<>>)

\* build::hardware
build_hardware_Pci == Build("HARDWARE", "HARDWARE_PCI", 6, <<Put(4, F("function", "u8")), Put(5, F("device", "u8"))>>)
build_hardware_Pccard == Build("HARDWARE", "HARDWARE_PCCARD", 5, <<Put(4, F("function", "u8"))>>)
build_hardware_MemoryMapped == Build("HARDWARE", "HARDWARE_MEMORY_MAPPED", 24,
    <<Put(4, F("memory_type", "MemoryType")), Put(8, F("start_address", "u64")), Put(16, F("end_address", "u64"))>>)
build_hardware_Vendor == Build("HARDWARE", "HARDWARE_VENDOR", 20, <<Put(4, F("vendor_guid", "Guid")),
    Bytes(20, "vendor_defined_data")>>)
build_hardware_Controller == Build("HARDWARE", "HARDWARE_CONTROLLER", 8, <<Put(4, F("controller_number", "u32"))>>)
build_hardware_Bmc == Build("HARDWARE", "HARDWARE_BMC", 13, <<Put(4, F("interface_type", "BmcInterfaceType")),
    Put(5, F("base_address", "u64"))>>)

\* build::acpi
build_acpi_Acpi == Build("ACPI", "ACPI", 12, <<Put(4, F("hid", "u32")), Put(8, F("uid", "u32"))>>)
build_acpi_Expanded == Build("ACPI", "ACPI_EXPANDED", 16, <<Put(4, F("hid", "u32")), Put(8, F("uid", "u32")),
    Put(12, F("cid", "u32")), Bytes(16, "hid_str"), Bytes(16, "uid_str"), Bytes(16, "cid_str")>>)
build_acpi_Adr == Build("ACPI", "ACPI_ADR", 4, <<Bytes(4, "adr")>>)
build_acpi_Nvdimm == Build("ACPI", "ACPI_NVDIMM", 8, <<Put(4, F("nfit_device_handle", "u32"))>>)

\* build::messaging
build_messaging_Atapi == Build("MESSAGING", "MESSAGING_ATAPI", 8,
    <<Put(4, F("primary_secondary", "PrimarySecondary")), Put(5, F("master_slave", "MasterSlave")),
    Put(6, F("logical_unit_number", "u16"))>>)
build_messaging_Scsi == Build("MESSAGING", "MESSAGING_SCSI", 8, <<Put(4, F("target_id", "u16")),
    Put(6, F("logical_unit_number", "u16"))>>)
build_messaging_FibreChannel == Build("MESSAGING", "MESSAGING_FIBRE_CHANNEL", 24, <<Zero(4, "u32"),
    Put(8, F("world_wide_name", "u64")), Put(16, F("logical_unit_number", "u64"))>>)
build_messaging_FibreChannelEx == Build("MESSAGING", "MESSAGING_FIBRE_CHANNEL_EX", 24, <<Zero(4, "u32"),
    Put(8, A("world_wide_name", 8)), Put(16, A("logical_unit_number", 8))>>)
build_messaging_Ieee1394 == Build("MESSAGING", "MESSAGING_1394", 16, <<Zero(4, "u32"), Put(8, A("guid", 8))>>)
build_messaging_Usb == Build("MESSAGING", "MESSAGING_USB", 6, <<Put(4, F("parent_port_number", "u8")),
    Put(5, F("interface", "u8"))>>)
build_messaging_Sata == Build("MESSAGING", "MESSAGING_SATA", 10, <<Put(4, F("hba_port_number", "u16")),
    Put(6, F("port_multiplier_port_number", "u16")), Put(8, F("logical_unit_number", "u16"))>>)
build_messaging_UsbWwid == Build("MESSAGING", "MESSAGING_USB_WWID", 10, <<Put(4, F("interface_number", "u16")),
    Put(6, F("device_vendor_id", "u16")), Put(8, F("device_product_id", "u16")), Bytes(10, "serial_number")>>)
build_messaging_DeviceLogicalUnit == Build("MESSAGING", "MESSAGING_DEVICE_LOGICAL_UNIT", 5,
    <<Put(4, F("logical_unit_number", "u8"))>>)
build_messaging_UsbClass == Build("MESSAGING", "MESSAGING_USB_CLASS", 11, <<Put(4, F("vendor_id", "u16")),
    Put(6, F("product_id", "u16")), Put(8, F("device_class", "u8")), Put(9, F("device_subclass", "u8")),
    Put(10, F("device_protocol", "u8"))>>)
build_messaging_I2o == Build("MESSAGING", "MESSAGING_I2O", 8, <<Put(4, F("target_id", "u32"))>>)
build_messaging_MacAddress == Build("MESSAGING", "MESSAGING_MAC_ADDRESS", 37, <<Put(4, A("mac_address", 32)),
    Put(36, F("interface_type", "u8"))>>)
build_messaging_Ipv4 == Build("MESSAGING", "MESSAGING_IPV4", 27, <<Put(4, A("local_ip_address", 4)),
    Put(8, A("remote_ip_address", 4)), Put(12, F("local_port", "u16")), Put(14, F("remote_port", "u16")),
    Put(16, F("protocol", "u16")), Put(18, F("ip_address_origin", "Ipv4AddressOrigin")),
    Put(19, A("gateway_ip_address", 4)), Put(23, A("subnet_mask", 4))>>)
build_messaging_Ipv6 == Build("MESSAGING", "MESSAGING_IPV6", 60, <<Put(4, A("local_ip_address", 16)),
    Put(20, A("remote_ip_address", 16)), Put(36, F("local_port", "u16")), Put(38, F("remote_port", "u16")),
    Put(40, F("protocol", "u16")), Put(42, F("ip_address_origin", "Ipv6AddressOrigin")),
    Put(43, F("prefix_length", "u8")), Put(44, A("gateway_ip_address", 16))>>)
build_messaging_Vlan == Build("MESSAGING", "MESSAGING_VLAN", 6, <<Put(4, F("vlan_id", "u16"))>>)
build_messaging_Infiniband == Build("MESSAGING", "MESSAGING_INFINIBAND", 48,
    <<Put(4, F("resource_flags", "InfinibandResourceFlags")), Put(8, A("port_gid", 16)),
    Put(24, F("ioc_guid_or_service_id", "u64")), Put(32, F("target_port_id", "u64")),
    Put(40, F("device_id", "u64"))>>)
build_messaging_Uart == Build("MESSAGING", "MESSAGING_UART", 19, <<Zero(4, "u32"), Put(8, F("baud_rate", "u64")),
    Put(16, F("data_bits", "u8")), Put(17, F("parity", "Parity")), Put(18, F("stop_bits", "StopBits"))>>)
build_messaging_Vendor == Build("MESSAGING", "MESSAGING_VENDOR", 20, <<Put(4, F("vendor_guid", "Guid")),
    Bytes(20, "vendor_defined_data")>>)
build_messaging_SasEx == Build("MESSAGING", "MESSAGING_SCSI_SAS_EX", 24, <<Put(4, A("sas_address", 8)),
    Put(12, A("logical_unit_number", 8)), Put(20, F("info", "u16")), Put(22, F("relative_target_port", "u16"))>>)
build_messaging_Iscsi == Build("MESSAGING", "MESSAGING_ISCSI", 18, <<Put(4, F("protocol", "IscsiProtocol")),
    Put(6, F("options", "IscsiLoginOptions")), Put(8, A("logical_unit_number", 8)),
    Put(16, F("target_portal_group_tag", "u16")), Bytes(18, "iscsi_target_name")>>)
build_messaging_NvmeNamespace == Build("MESSAGING", "MESSAGING_NVME_NAMESPACE", 16,
    <<Put(4, F("namespace_identifier", "u32")), Put(8, F("ieee_extended_unique_identifier", "u64"))>>)
build_messaging_Uri == Build("MESSAGING", "MESSAGING_URI", 4, <<Bytes(4, "value")>>)
build_messaging_Ufs == Build("MESSAGING", "MESSAGING_UFS", 6, <<Put(4, F("target_id", "u8")),
    Put(5, F("logical_unit_number", "u8"))>>)
build_messaging_Sd == Build("MESSAGING", "MESSAGING_SD", 5, <<Put(4, F("slot_number", "u8"))>>)
build_messaging_Bluetooth == Build("MESSAGING", "MESSAGING_BLUETOOTH", 10, <<Put(4, A("device_address", 6))>>)
build_messaging_Wifi == Build("MESSAGING", "MESSAGING_WIFI", 36, <<Put(4, A("ssid", 32))>>)
build_messaging_Emmc == Build("MESSAGING", "MESSAGING_EMMC", 5, <<Put(4, F("slot_number", "u8"))>>)
build_messaging_BluetoothLe == Build("MESSAGING", "MESSAGING_BLUETOOTH_LE", 11, <<Put(4, A("device_address", 6)),
    Put(10, F("address_type", "BluetoothLeAddressType"))>>)
build_messaging_Dns == Build("MESSAGING", "MESSAGING_DNS", 5, <<Put(4, F("address_type", "DnsAddressType")),
    Bytes(5, "addresses")>>)
build_messaging_NvdimmNamespace == Build("MESSAGING", "MESSAGING_NVDIMM_NAMESPACE", 20, <<Put(4, A("uuid", 16))>>)
build_messaging_RestService == Build("MESSAGING", "MESSAGING_REST_SERVICE", 6,
    <<Put(4, F("service_type", "RestServiceType")), Put(5, F("access_mode", "RestServiceAccessMode")),
    Bytes(6, "vendor_guid_and_data")>>)
build_messaging_NvmeOfNamespace == Build("MESSAGING", "MESSAGING_NVME_OF_NAMESPACE", 21, <<Put(4, F("nidt", "u8")),
    Put(5, A("nid", 16)), Bytes(21, "subsystem_nqn")>>)

\* build::media
build_media_HardDrive == Build("MEDIA", "MEDIA_HARD_DRIVE", 42, <<Put(4, F("partition_number", "u32")),
    Put(8, F("partition_start", "u64")), Put(16, F("partition_size", "u64")), Put(24, A("partition_signature", 16)),
    Put(40, F("partition_format", "PartitionFormat")), Put(41, F("signature_type", "u8"))>>)
build_media_CdRom == Build("MEDIA", "MEDIA_CD_ROM", 24, <<Put(4, F("boot_entry", "u32")),
    Put(8, F("partition_start", "u64")), Put(16, F("partition_size", "u64"))>>)
build_media_Vendor == Build("MEDIA", "MEDIA_VENDOR", 20, <<Put(4, F("vendor_guid", "Guid")),
    Bytes(20, "vendor_defined_data")>>)
build_media_FilePath == Build("MEDIA", "MEDIA_FILE_PATH", 4, <<Bytes(4, "path_name")>>)
build_media_Protocol == Build("MEDIA", "MEDIA_PROTOCOL", 20, <<Put(4, F("protocol_guid", "Guid"))>>)
build_media_PiwgFirmwareFile == Build("MEDIA", "MEDIA_PIWG_FIRMWARE_FILE", 4, <<Bytes(4, "data")>>)
build_media_PiwgFirmwareVolume == Build("MEDIA", "MEDIA_PIWG_FIRMWARE_VOLUME", 4, <<Bytes(4, "data")>>)
build_media_RelativeOffsetRange == Build("MEDIA", "MEDIA_RELATIVE_OFFSET_RANGE", 24, <<Zero(4, "u32"),
    Put(8, F("starting_offset", "u64")), Put(16, F("ending_offset", "u64"))>>)
build_media_RamDisk == Build("MEDIA", "MEDIA_RAM_DISK", 38, <<Put(4, F("starting_address", "u64")),
    Put(12, F("ending_address", "u64")), Put(20, F("disk_type", "RamDiskType")), Put(36, F("disk_instance", "u16"))>>)

\* build::bios_boot_spec
build_bios_boot_spec_BootSpecification == Build("BIOS_BOOT_SPEC", "BIOS_BOOT_SPECIFICATION", 8,
    <<Put(4, F("device_type", "u16")), Put(6, F("status_flag", "u16")), Bytes(8, "description_string")>>)

-----------------------------------------------------------------------------
(* Structures of uefi-raw *)

\* end::Instance, Entire
raw_end == <<
    <<>>,
    <<>>>>

\* hardware::Pci, Pccard, MemoryMapped, Vendor, Controller, Bmc
raw_hardware == <<
    <<F("function", "u8"), F("device", "u8")>>,
    <<F("function", "u8")>>,
    <<F("memory_type", "MemoryType"), F("start_address", "u64"), F("end_address", "u64")>>,
    <<F("vendor_guid", "Guid"), Z("vendor_defined_data", "u8")>>,
    <<F("controller_number", "u32")>>,
    <<F("interface_type", "BmcInterfaceType"), F("base_address", "u64")>>>>

\* acpi::Acpi, Expanded, Adr, Nvdimm
raw_acpi == <<
    <<F("hid", "u32"), F("uid", "u32")>>,
    <<F("hid", "u32"), F("uid", "u32"), F("cid", "u32"), Z("data", "u8")>>,
    <<Z("adr", "u32")>>,
    <<F("nfit_device_handle", "u32")>>>>

\* messaging::Atapi, Scsi, FibreChannel, FibreChannelEx, Ieee1394, Usb,
\* Sata, UsbWwid, DeviceLogicalUnit, UsbClass, I2o, MacAddress, Ipv4,
\* Ipv6, Vlan
raw_messaging_first == <<
    <<F("primary_secondary", "PrimarySecondary"), F("master_slave", "MasterSlave"), F("logical_unit_number",
        "u16")>>,
    <<F("target_id", "u16"), F("logical_unit_number", "u16")>>,
    <<F("_reserved", "u32"), F("world_wide_name", "u64"), F("logical_unit_number", "u64")>>,
    <<F("_reserved", "u32"), A("world_wide_name", 8), A("logical_unit_number", 8)>>,
    <<F("_reserved", "u32"), A("guid", 8)>>,
    <<F("parent_port_number", "u8"), F("interface", "u8")>>,
    <<F("hba_port_number", "u16"), F("port_multiplier_port_number", "u16"), F("logical_unit_number", "u16")>>,
    <<F("interface_number", "u16"), F("device_vendor_id", "u16"), F("device_product_id", "u16"),
        Z("serial_number", "u16")>>,
    <<F("logical_unit_number", "u8")>>,
    <<F("vendor_id", "u16"), F("product_id", "u16"), F("device_class", "u8"), F("device_subclass", "u8"),
        F("device_protocol", "u8")>>,
    <<F("target_id", "u32")>>,
    <<A("mac_address", 32), F("interface_type", "u8")>>,
    <<A("local_ip_address", 4), A("remote_ip_address", 4), F("local_port", "u16"), F("remote_port", "u16"),
        F("protocol", "u16"), F("ip_address_origin", "Ipv4AddressOrigin"), A("gateway_ip_address", 4),
        A("subnet_mask", 4)>>,
    <<A("local_ip_address", 16), A("remote_ip_address", 16), F("local_port", "u16"), F("remote_port", "u16"),
        F("protocol", "u16"), F("ip_address_origin", "Ipv6AddressOrigin"), F("prefix_length", "u8"),
        A("gateway_ip_address", 16)>>,
    <<F("vlan_id", "u16")>>>>

\* messaging::Infiniband, Uart, Vendor, SasEx, Iscsi, NvmeNamespace, Uri,
\* Ufs, Sd, Bluetooth, Wifi, Emmc, BluetoothLe, Dns, NvdimmNamespace,
\* RestService, NvmeOfNamespace
raw_messaging_last == <<
    <<F("resource_flags", "InfinibandResourceFlags"), A("port_gid", 16), F("ioc_guid_or_service_id", "u64"),
        F("target_port_id", "u64"), F("device_id", "u64")>>,
    <<F("_reserved", "u32"), F("baud_rate", "u64"), F("data_bits", "u8"), F("parity", "Parity"), F("stop_bits",
        "StopBits")>>,
    <<F("vendor_guid", "Guid"), Z("vendor_defined_data", "u8")>>,
    <<A("sas_address", 8), A("logical_unit_number", 8), F("info", "u16"), F("relative_target_port", "u16")>>,
    <<F("protocol", "IscsiProtocol"), F("options", "IscsiLoginOptions"), A("logical_unit_number", 8),
        F("target_portal_group_tag", "u16"), Z("iscsi_target_name", "u8")>>,
    <<F("namespace_identifier", "u32"), F("ieee_extended_unique_identifier", "u64")>>,
    <<Z("value", "u8")>>,
    <<F("target_id", "u8"), F("logical_unit_number", "u8")>>,
    <<F("slot_number", "u8")>>,
    <<A("device_address", 6)>>,
    <<A("ssid", 32)>>,
    <<F("slot_number", "u8")>>,
    <<A("device_address", 6), F("address_type", "BluetoothLeAddressType")>>,
    <<F("address_type", "DnsAddressType"), Z("addresses", "IpAddress")>>,
    <<A("uuid", 16)>>,
    <<F("service_type", "RestServiceType"), F("access_mode", "RestServiceAccessMode"), Z("vendor_guid_and_data",
        "u8")>>,
    <<F("nidt", "u8"), A("nid", 16), Z("subsystem_nqn", "u8")>>>>

\* media::HardDrive, CdRom, Vendor, FilePath, Protocol, PiwgFirmwareFile,
\* PiwgFirmwareVolume, RelativeOffsetRange, RamDisk
raw_media == <<
    <<F("partition_number", "u32"), F("partition_start", "u64"), F("partition_size", "u64"),
        A("partition_signature", 16), F("partition_format", "PartitionFormat"), F("signature_type", "u8")>>,
    <<F("boot_entry", "u32"), F("partition_start", "u64"), F("partition_size", "u64")>>,
    <<F("vendor_guid", "Guid"), Z("vendor_defined_data", "u8")>>,
    <<Z("path_name", "u16")>>,
    <<F("protocol_guid", "Guid")>>,
    <<Z("data", "u8")>>,
    <<Z("data", "u8")>>,
    <<F("_reserved", "u32"), F("starting_offset", "u64"), F("ending_offset", "u64")>>,
    <<F("starting_address", "u64"), F("ending_address", "u64"), F("disk_type", "RamDiskType"), F("disk_instance",
        "u16")>>>>

\* bios_boot_spec::BootSpecification
raw_bios_boot_spec == <<
    <<F("device_type", "u16"), F("status_flag", "u16"), Z("description_string", "u8")>>>>

-----------------------------------------------------------------------------
(* All kinds, in one order *)

packed_modules == <<
    end_Instance, end_Entire, hardware_Pci, hardware_Pccard, hardware_MemoryMapped, hardware_Vendor,
    hardware_Controller, hardware_Bmc, acpi_Acpi, acpi_Expanded, acpi_Adr, acpi_Nvdimm, messaging_Atapi,
    messaging_Scsi, messaging_FibreChannel, messaging_FibreChannelEx, messaging_Ieee1394, messaging_Usb,
    messaging_Sata, messaging_UsbWwid, messaging_DeviceLogicalUnit, messaging_UsbClass, messaging_I2o,
    messaging_MacAddress, messaging_Ipv4, messaging_Ipv6, messaging_Vlan, messaging_Infiniband, messaging_Uart,
    messaging_Vendor, messaging_SasEx, messaging_Iscsi, messaging_NvmeNamespace, messaging_Uri, messaging_Ufs,
    messaging_Sd, messaging_Bluetooth, messaging_Wifi, messaging_Emmc, messaging_BluetoothLe, messaging_Dns,
    messaging_NvdimmNamespace, messaging_RestService, messaging_NvmeOfNamespace, media_HardDrive, media_CdRom,
    media_Vendor, media_FilePath, media_Protocol, media_PiwgFirmwareFile, media_PiwgFirmwareVolume,
    media_RelativeOffsetRange, media_RamDisk, bios_boot_spec_BootSpecification>>

build_modules == <<
    build_end_Instance, build_end_Entire, build_hardware_Pci, build_hardware_Pccard, build_hardware_MemoryMapped,
    build_hardware_Vendor, build_hardware_Controller, build_hardware_Bmc, build_acpi_Acpi, build_acpi_Expanded,
    build_acpi_Adr, build_acpi_Nvdimm, build_messaging_Atapi, build_messaging_Scsi, build_messaging_FibreChannel,
    build_messaging_FibreChannelEx, build_messaging_Ieee1394, build_messaging_Usb, build_messaging_Sata,
    build_messaging_UsbWwid, build_messaging_DeviceLogicalUnit, build_messaging_UsbClass, build_messaging_I2o,
    build_messaging_MacAddress, build_messaging_Ipv4, build_messaging_Ipv6, build_messaging_Vlan,
    build_messaging_Infiniband, build_messaging_Uart, build_messaging_Vendor, build_messaging_SasEx,
    build_messaging_Iscsi, build_messaging_NvmeNamespace, build_messaging_Uri, build_messaging_Ufs,
    build_messaging_Sd, build_messaging_Bluetooth, build_messaging_Wifi, build_messaging_Emmc,
    build_messaging_BluetoothLe, build_messaging_Dns, build_messaging_NvdimmNamespace,
    build_messaging_RestService, build_messaging_NvmeOfNamespace, build_media_HardDrive, build_media_CdRom,
    build_media_Vendor, build_media_FilePath, build_media_Protocol, build_media_PiwgFirmwareFile,
    build_media_PiwgFirmwareVolume, build_media_RelativeOffsetRange, build_media_RamDisk,
    build_bios_boot_spec_BootSpecification>>

raw_modules == raw_end \o raw_hardware \o raw_acpi \o raw_messaging_first \o raw_messaging_last \o raw_media
    \o raw_bios_boot_spec
=============================================================================
