----------------------------- MODULE MCExporter -----------------------------
(***************************************************************************)
(* Small designs for the exporters, after tests/rdl: for each exporter two *)
(* that are accepted and others that are rejected for different reasons.   *)
(***************************************************************************)
EXTENDS Exporter

\* CSR files: mstatus has a field that hardware writes and reads, mscratch none;
\* one design has memories only.
Field(reg, name, r, w) ==
    [reg |-> reg, name |-> name, hw_readable |-> r, hw_writable |-> w]

Csr(id, compiles, accepted, fields) ==
    [id |-> id, kind |-> "csr", compiles |-> compiles, accepted |-> accepted,
     regs |-> {f.reg : f \in fields}, fields |-> fields]

CsrDesigns ==
    {Csr("trap", TRUE, TRUE, {Field("mstatus", "mie", TRUE, TRUE),
                              Field("mstatus", "mpp", FALSE, TRUE)}),
     Csr("plain", TRUE, TRUE, {Field("mscratch", "v", TRUE, FALSE)}),
     Csr("rejected", TRUE, FALSE, {Field("mstatus", "mie", FALSE, TRUE)}),
     Csr("memories", TRUE, TRUE, {}),
     Csr("broken", FALSE, FALSE, {})}

\* PLIC address maps: the registers of tests/rdl/plic_multictx.rdl, with those
\* of the contexts in order or in reverse, and maps with one thing wrong.
Reg(role, index, address) ==
    [role |-> role, index |-> index, address |-> address,
     read_pulse |-> role = "claim", write_pulse |-> role = "claim"]

Shared == <<Reg("priority", 0, 0), Reg("priority", 1, 4), Reg("pending", 0, 4096)>>
Enable(c) == Reg("enable", 0, 8192 + 128 * c)
Threshold(c) == Reg("threshold", 0, 2097152 + 4096 * c)
Claim(c) == Reg("claim", 0, 2097156 + 4096 * c)
InContexts == <<Enable(0), Enable(1), Threshold(0), Claim(0), Threshold(1), Claim(1)>>
Shuffled == <<Claim(1), Threshold(0), Enable(1), Claim(0), Threshold(1), Enable(0)>>

Plic(id, map) == [id |-> id, kind |-> "plic", map |-> map]

PlicDesigns ==
    {Plic("ordered", Shared \o InContexts),
     Plic("shuffled", Shared \o Shuffled),
     Plic("no_claim_1", Shared \o Front(InContexts)),
     Plic("bad_tag", Shared \o <<Reg("clam", 0, 0)>>),
     Plic("one_priority", Tail(Shared) \o InContexts),
     Plic("no_pulse", Shared \o <<[Claim(0) EXCEPT !.write_pulse = FALSE],
                                  Enable(0), Threshold(0)>>)}

Clint(id, roles) ==
    [id |-> id, kind |-> "clint",
     map |-> [i \in DOMAIN roles |-> Reg(roles[i], 0, 4 * i)]]

Timer == <<"mtimecmp_lo", "mtimecmp_hi", "mtime_lo", "mtime_hi">>

ClintDesigns == {Clint("full", <<"msip">> \o Timer),
                 Clint("twice", <<"msip">> \o Timer \o <<"none", "msip">>),
                 Clint("no_msip", Timer)}

MCDesigns == CsrDesigns \cup PlicDesigns \cup ClintDesigns

\* Not given, the name of a sibling file, and a name without the suffix
MCNames == {NoName, <<"Top", "CsrAccess">>, <<"My">>}
=============================================================================
