------------------------------ MODULE MCPaging ------------------------------
(* Sixteen pages of eight bytes under tables of two entries, and a heap    *)
(* that may run out of tables.  The calls are those of the kernel: ranges  *)
(* that cross tables, overlap and lie apart, whole and partial pages, and  *)
(* an ACPI table at an address inside a page (uacpi_kernel_map), whose     *)
(* last byte lies in a third page that the loop does not reach.            *)
EXTENDS Paging

KernelData == {"Present", "User", "Writable", "NoExecute", "Global"}
UserCode == {"Present", "User"}
MMIO == {"Present", "Writable", "CacheDisable", "NoExecute"}

MCRequests == {
    [op |-> "map", virt |-> 4, phys |-> 4, size |-> 18, flags |-> UserCode],
    [op |-> "map_vp", virt |-> 8, phys |-> 80, size |-> 12, flags |-> KernelData],
    [op |-> "map_vp", virt |-> 56, phys |-> 8, size |-> 16, flags |-> MMIO],
    [op |-> "map_vp", virt |-> 108, phys |-> 20, size |-> 13, flags |-> MMIO]}
=============================================================================
