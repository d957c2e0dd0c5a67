----------------------------- MODULE CsrPackage -----------------------------
(***************************************************************************)
(* The interface structs that connect the four files of a CSR export: what *)
(* the package declares (emit_csr_package.py), and which members the CSR   *)
(* file (emit_csr_file.py) and the trap coordinator                        *)
(* (emit_trap_coordinator.py) read and drive.  A design is a record        *)
(* [regs, fields]; a field is a record [reg, name, hw_readable,            *)
(* hw_writable].  A member is named by its register and its field.         *)
(***************************************************************************)

Member(f) == <<f.reg, f.name>>
Reserved == {<<"_", "reserved">>}
Flat(d) == {<<r, "rdata_flat">> : r \in d.regs}

Inputs(d) == {Member(f) : f \in {f \in d.fields : f.hw_writable}}
Outputs(d) == {Member(f) : f \in {f \in d.fields : f.hw_readable}} \cup Flat(d)

OrReserved(members) == IF members = {} THEN Reserved ELSE members

\* emit_package: the two structs, which must not be empty
DeclaredIn(d) == OrReserved(Inputs(d))
DeclaredOut(d) == OrReserved(Outputs(d))

\* emit_csr_file: hwif_in is read, hwif_out is driven
FileReads(d) == Inputs(d)
FileDrives(d) == Outputs(d)

\* Faulty: nothing drives the placeholder of an empty struct
TrapDrivesMembersOnly(d) == Inputs(d)

\* emit_trap_coordinator: every member of hwif_in_drive, which has the type
\* of hwif_in
TrapDrives(d) == IF Inputs(d) = {} THEN Reserved ELSE Inputs(d)
=============================================================================
