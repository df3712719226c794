--------------------------- MODULE DevicePathSpec ----------------------------
(***************************************************************************)
(* The generator of the device path code (xtask/src/device_path): the node *)
(* specification spec.rs, and what node.rs generates from a node.          *)
(***************************************************************************)
EXTENDS DevicePathNodes

\* mod end: Instance, Entire
spec_end == <<
    Node("END", "END_INSTANCE", 4, <<>>),
    Node("END", "END_ENTIRE", 4, <<>>)>>

\* mod hardware: Pci, Pccard, MemoryMapped, Vendor, Controller, Bmc
spec_hardware == <<
    Node("HARDWARE", "HARDWARE_PCI", 6, <<F("function", "u8"), F("device", "u8")>>),
    Node("HARDWARE", "HARDWARE_PCCARD", 5, <<F("function", "u8")>>),
    Node("HARDWARE", "HARDWARE_MEMORY_MAPPED", 24, <<F("memory_type", "MemoryType"), F("start_address", "u64"),
        F("end_address", "u64")>>),
    Node("HARDWARE", "HARDWARE_VENDOR", 20, <<F("vendor_guid", "Guid"), S("vendor_defined_data", "u8")>>),
    Node("HARDWARE", "HARDWARE_CONTROLLER", 8, <<F("controller_number", "u32")>>),
    Node("HARDWARE", "HARDWARE_BMC", 13, <<F("interface_type", "BmcInterfaceType"), F("base_address", "u64")>>)>>

\* mod acpi: Acpi, Expanded
spec_acpi_legacy == <<
    Node("ACPI", "ACPI", 12, <<F("hid", "u32"), F("uid", "u32")>>),
    Node("ACPI", "ACPI_EXPANDED", 16, <<F("hid", "u32"), F("uid", "u32"), F("cid", "u32"), S("hid_str", "u8"),
        S("uid_str", "u8"), S("cid_str", "u8")>>)>>

spec_acpi_Adr == Node("ACPI", "ACPI_ADR", 4, <<S("adr", "u32")>>)

spec_acpi_Nvdimm == Node("ACPI", "ACPI_NVDIMM", 8, <<F("nfit_device_handle", "u32")>>)

spec_messaging_Atapi == Node("MESSAGING", "MESSAGING_ATAPI", 8, <<F("primary_secondary", "PrimarySecondary"),
    F("master_slave", "MasterSlave"), F("logical_unit_number", "u16")>>)

\* mod messaging: Scsi, FibreChannel, FibreChannelEx, Ieee1394, Usb, Sata,
\* UsbWwid, DeviceLogicalUnit, UsbClass, I2o, MacAddress
spec_messaging_buses == <<
    Node("MESSAGING", "MESSAGING_SCSI", 8, <<F("target_id", "u16"), F("logical_unit_number", "u16")>>),
    Node("MESSAGING", "MESSAGING_FIBRE_CHANNEL", 24, <<F("_reserved", "u32"), F("world_wide_name", "u64"),
        F("logical_unit_number", "u64")>>),
    Node("MESSAGING", "MESSAGING_FIBRE_CHANNEL_EX", 24, <<F("_reserved", "u32"), A("world_wide_name", 8),
        A("logical_unit_number", 8)>>),
    Node("MESSAGING", "MESSAGING_1394", 16, <<F("_reserved", "u32"), A("guid", 8)>>),
    Node("MESSAGING", "MESSAGING_USB", 6, <<F("parent_port_number", "u8"), F("interface", "u8")>>),
    Node("MESSAGING", "MESSAGING_SATA", 10, <<F("hba_port_number", "u16"), F("port_multiplier_port_number",
        "u16"), F("logical_unit_number", "u16")>>),
    Node("MESSAGING", "MESSAGING_USB_WWID", 10, <<F("interface_number", "u16"), F("device_vendor_id", "u16"),
        F("device_product_id", "u16"), S("serial_number", "u16")>>),
    Node("MESSAGING", "MESSAGING_DEVICE_LOGICAL_UNIT", 5, <<F("logical_unit_number", "u8")>>),
    Node("MESSAGING", "MESSAGING_USB_CLASS", 11, <<F("vendor_id", "u16"), F("product_id", "u16"),
        F("device_class", "u8"), F("device_subclass", "u8"), F("device_protocol", "u8")>>),
    Node("MESSAGING", "MESSAGING_I2O", 8, <<F("target_id", "u32")>>),
    Node("MESSAGING", "MESSAGING_MAC_ADDRESS", 37, <<A("mac_address", 32), F("interface_type", "u8")>>)>>

spec_messaging_Ipv4 == Node("MESSAGING", "MESSAGING_IPV4", 27, <<A("local_ip_address", 4), A("remote_ip_address", 4),
    F("local_port", "u16"), F("remote_port", "u16"), F("protocol", "u16"),
    F("ip_address_origin", "Ipv4AddressOrigin"), A("gateway_ip_address", 4), A("subnet_mask", 4)>>)

spec_messaging_Ipv6 == Node("MESSAGING", "MESSAGING_IPV6", 60, <<A("local_ip_address", 16),
    A("remote_ip_address", 16), F("local_port", "u16"), F("remote_port", "u16"), F("protocol", "u16"),
    F("ip_address_origin", "Ipv6AddressOrigin"), F("prefix_length", "u8"), A("gateway_ip_address", 16)>>)

\* mod messaging: Vlan, Infiniband
spec_messaging_fabric == <<
    Node("MESSAGING", "MESSAGING_VLAN", 6, <<F("vlan_id", "u16")>>),
    Node("MESSAGING", "MESSAGING_INFINIBAND", 48, <<F("resource_flags", "InfinibandResourceFlags"), A("port_gid",
        16), F("ioc_guid_or_service_id", "u64"), F("target_port_id", "u64"), F("device_id", "u64")>>)>>

spec_messaging_Uart == Node("MESSAGING", "MESSAGING_UART", 19, <<F("_reserved", "u32"), F("baud_rate", "u64"),
    F("data_bits", "u8"), F("parity", "Parity"), F("stop_bits", "StopBits")>>)

spec_messaging_Vendor == Node("MESSAGING", "MESSAGING_VENDOR", 20, <<F("vendor_guid", "Guid"),
    S("vendor_defined_data", "u8")>>)

\* mod messaging: SasEx, Iscsi
spec_messaging_scsi == <<
    Node("MESSAGING", "MESSAGING_SCSI_SAS_EX", 24, <<A("sas_address", 8), A("logical_unit_number", 8), F("info",
        "u16"), F("relative_target_port", "u16")>>),
    Node("MESSAGING", "MESSAGING_ISCSI", 18, <<F("protocol", "IscsiProtocol"), F("options", "IscsiLoginOptions"),
        A("logical_unit_number", 8), F("target_portal_group_tag", "u16"), S("iscsi_target_name", "u8")>>)>>

\* mod messaging: NvmeNamespace, Uri, Ufs, Sd, Bluetooth, Wifi, Emmc,
\* BluetoothLe
spec_messaging_cards == <<
    Node("MESSAGING", "MESSAGING_NVME_NAMESPACE", 16, <<F("namespace_identifier", "u32"),
        F("ieee_extended_unique_identifier", "u64")>>),
    Node("MESSAGING", "MESSAGING_URI", 4, <<S("value", "u8")>>),
    Node("MESSAGING", "MESSAGING_UFS", 6, <<F("target_id", "u8"), F("logical_unit_number", "u8")>>),
    Node("MESSAGING", "MESSAGING_SD", 5, <<F("slot_number", "u8")>>),
    Node("MESSAGING", "MESSAGING_BLUETOOTH", 10, <<A("device_address", 6)>>),
    Node("MESSAGING", "MESSAGING_WIFI", 36, <<A("ssid", 32)>>),
    Node("MESSAGING", "MESSAGING_EMMC", 5, <<F("slot_number", "u8")>>),
    Node("MESSAGING", "MESSAGING_BLUETOOTH_LE", 11, <<A("device_address", 6), F("address_type",
        "BluetoothLeAddressType")>>)>>

spec_messaging_Dns == Node("MESSAGING", "MESSAGING_DNS", 5, <<F("address_type", "DnsAddressType"),
    S("addresses", "IpAddress")>>)

spec_messaging_NvdimmNamespace == Node("MESSAGING", "MESSAGING_NVDIMM_NAMESPACE", 20, <<A("uuid", 16)>>)

spec_messaging_RestService == Node("MESSAGING", "MESSAGING_REST_SERVICE", 6, <<F("service_type", "RestServiceType"),
    F("access_mode", "RestServiceAccessMode"), S("vendor_guid_and_data", "u8")>>)

spec_messaging_NvmeOfNamespace == Node("MESSAGING", "MESSAGING_NVME_OF_NAMESPACE", 21, <<F("nidt", "u8"),
    A("nid", 16), S("subsystem_nqn", "u8")>>)

spec_media_HardDrive == Node("MEDIA", "MEDIA_HARD_DRIVE", 42, <<F("partition_number", "u32"),
    F("partition_start", "u64"), F("partition_size", "u64"), A("partition_signature", 16),
    F("partition_format", "PartitionFormat"), F("signature_type", "u8")>>)

\* mod media: CdRom, Vendor, FilePath, Protocol, PiwgFirmwareFile,
\* PiwgFirmwareVolume, RelativeOffsetRange, RamDisk
spec_media_others == <<
    Node("MEDIA", "MEDIA_CD_ROM", 24, <<F("boot_entry", "u32"), F("partition_start", "u64"), F("partition_size",
        "u64")>>),
    Node("MEDIA", "MEDIA_VENDOR", 20, <<F("vendor_guid", "Guid"), S("vendor_defined_data", "u8")>>),
    Node("MEDIA", "MEDIA_FILE_PATH", 4, <<S("path_name", "u16")>>),
    Node("MEDIA", "MEDIA_PROTOCOL", 20, <<F("protocol_guid", "Guid")>>),
    Node("MEDIA", "MEDIA_PIWG_FIRMWARE_FILE", 4, <<S("data", "u8")>>),
    Node("MEDIA", "MEDIA_PIWG_FIRMWARE_VOLUME", 4, <<S("data", "u8")>>),
    Node("MEDIA", "MEDIA_RELATIVE_OFFSET_RANGE", 24, <<F("_reserved", "u32"), F("starting_offset", "u64"),
        F("ending_offset", "u64")>>),
    Node("MEDIA", "MEDIA_RAM_DISK", 38, <<F("starting_address", "u64"), F("ending_address", "u64"), F("disk_type",
        "RamDiskType"), F("disk_instance", "u16")>>)>>

spec_bios_boot_spec_BootSpecification == Node("BIOS_BOOT_SPEC", "BIOS_BOOT_SPECIFICATION", 8,
    <<F("device_type", "u16"), F("status_flag", "u16"), S("description_string", "u8")>>)

\* NodeGroup::parse keeps the nodes in the order of the specification.
parse_spec == FlattenSeq(<<
    spec_end, spec_hardware, spec_acpi_legacy, <<spec_acpi_Adr>>, <<spec_acpi_Nvdimm>>, <<spec_messaging_Atapi>>,
    spec_messaging_buses, <<spec_messaging_Ipv4>>, <<spec_messaging_Ipv6>>, spec_messaging_fabric,
    <<spec_messaging_Uart>>, <<spec_messaging_Vendor>>, spec_messaging_scsi, spec_messaging_cards,
    <<spec_messaging_Dns>>, <<spec_messaging_NvdimmNamespace>>, <<spec_messaging_RestService>>,
    <<spec_messaging_NvmeOfNamespace>>, <<spec_media_HardDrive>>, spec_media_others,
    <<spec_bios_boot_spec_BootSpecification>>>>)

-----------------------------------------------------------------------------
(* BaseType::new: the sizes the generator reckons with *)

BaseType == [u8 |-> 1, u16 |-> 2, u32 |-> 4, u64 |-> 8, Guid |-> 16, IpAddress |-> 16, MemoryType |-> 4,
    BmcInterfaceType |-> 1, BluetoothLeAddressType |-> 1, DnsAddressType |-> 1, InfinibandResourceFlags |-> 4,
    Ipv4AddressOrigin |-> 1, Ipv6AddressOrigin |-> 1, IscsiLoginOptions |-> 2, IscsiProtocol |-> 2, MasterSlave |-> 1,
    Parity |-> 1, PrimarySecondary |-> 1, RestServiceAccessMode |-> 1, RestServiceType |-> 1, StopBits |-> 1,
    PartitionFormat |-> 1, RamDiskType |-> 16, SignatureType |-> 1]

\* PackedType::size_in_bytes, with None as zero
size_in_bytes(f) == BaseType[f.ty] * f.len

is_slice(f) == f.dyn
is_dst(n) == n.fields # <<>> /\ is_slice(Last(n.fields))
has_dst_group(n) == Len(SelectSeq(n.fields, is_slice)) > 1
is_hidden(f) == f.name = "_reserved"

calculate_static_size(n) == FoldLeft(LAMBDA acc, f : acc + size_in_bytes(f), 4, n.fields)

\* The fields of a structure: the slices of a group become one.
GroupedFields(n, data) ==
    IF has_dst_group(n) THEN SelectSeq(n.fields, LAMBDA f : ~ is_slice(f)) \o <<data>> ELSE n.fields

gen_packed_code(n) ==
    Packed(n.device_type, n.sub_type, GroupedFields(n, S("data", "u8")),
           IF is_dst(n) THEN n.static_size ELSE NoSlice)

raw_ty(f) == IF is_slice(f) THEN Z(f.name, f.ty) ELSE f

gen_raw_struct(n) == LET fs == GroupedFields(n, Z("data", "u8")) IN [i \in 1 .. Len(fs) |-> raw_ty(fs[i])]

\* Mutated form: a reserved field is not written.
gen_builder_write_data_reserved(n) ==
    LET at(i) == FoldLeft(LAMBDA acc, f : acc + size_in_bytes(f), 4, SubSeq(n.fields, 1, i - 1))
        stmt(i) == IF is_slice(n.fields[i]) THEN Bytes(at(i), n.fields[i].name) ELSE Put(at(i), n.fields[i])
    IN  [i \in 1 .. Len(n.fields) |-> stmt(i)]

\* field_offset starts behind the header and is not moved by a slice.
gen_builder_write_data(n) ==
    LET at(i) == FoldLeft(LAMBDA acc, f : acc + size_in_bytes(f), 4, SubSeq(n.fields, 1, i - 1))
        stmt(i) == LET f == n.fields[i] IN
            IF is_slice(f) THEN Bytes(at(i), f.name)
            ELSE IF is_hidden(f) THEN Zero(at(i), f.ty)
            ELSE Put(at(i), f)
    IN  [i \in 1 .. Len(n.fields) |-> stmt(i)]

gen_builder_code(n) == Build(n.device_type, n.sub_type, n.static_size, gen_builder_write_data(n))
=============================================================================
