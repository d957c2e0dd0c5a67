------------------------------ MODULE Exporter ------------------------------
(***************************************************************************)
(* The three exporters and the command line: which files are written, in   *)
(* which order, and what is left in the output directory when a design is  *)
(* rejected or a run is cut short.  RiscvCsrExporter computes all four     *)
(* sources before it writes the first; the PLIC and CLINT exporters let    *)
(* upstream's ArchExporter write the register block and validate their     *)
(* roles afterwards.  Any exception, of the file system or from outside,   *)
(* is the action Fail.  A file is truncated when it is opened and whole    *)
(* when it is closed.  Runs follow one another in the same directory.      *)
(***************************************************************************)
EXTENDS IntrScan, CsrPackage

CONSTANTS
    Designs,     \* the RDL designs: records with an id and a kind, the exporter
                 \* they are for; those of a CSR file have compiles, accepted,
                 \* regs and fields, the others map, the registers of their
                 \* address map
    Names        \* what the user may give as module or package name

\* Names are sequences of words; the empty one is "not given".
Top == "Top"
NoName == <<>>

ASSUME ExporterConstants ==
    /\ \A d \in Designs : d.kind \in {"csr", "plic", "clint"}
    /\ \A d, e \in Designs : d.id = e.id => d = e
    /\ NoName \in Names
    /\ \A d \in Designs : d.kind # "csr" =>
          d.map \in Seq([role : STRING, index : Nat, address : Nat,
                         read_pulse : BOOLEAN, write_pulse : BOOLEAN])

VARIABLES
    disk,     \* the output directory: a function from names to contents
    job,      \* the design, module_name and package_name of the run
    pc,       \* where the run is
    todo,     \* the files still to be written
    open,     \* the first of them has been opened
    out,      \* the names in the mapping that the exporter returns
    before    \* history: the directory when the run began

expVars == <<disk, job, pc, todo, open, out, before>>

(***************************************************************************)
(* Names                                                                   *)
(***************************************************************************)
CsrRoles == {"package", "file", "access", "trap"}
BlockRoles == {"block_package", "block"}
Roles == CsrRoles \cup BlockRoles \cup {"logic"}
RolesOf(j) == IF j.design.kind = "csr" THEN CsrRoles ELSE BlockRoles \cup {"logic"}

\* _sibling_name(base, "CsrFile", suffix)
Sibling(base, suffix) ==
    IF base # <<>> /\ Last(base) = "CsrFile" THEN Append(Front(base), suffix)
    ELSE Append(base, suffix)

Mod(j) == IF j.module_name # NoName THEN j.module_name
          ELSE IF j.design.kind = "csr" THEN <<Top, "CsrFile">> ELSE <<Top>>
Pkg(j) == IF j.package_name # NoName THEN j.package_name ELSE Append(Mod(j), "Pkg")

FileName(j, role) ==
    CASE role \in {"package", "block_package"} -> Pkg(j)
      [] role \in {"file", "block"}            -> Mod(j)
      [] role = "access"                       -> Sibling(Mod(j), "CsrAccess")
      [] role = "trap"                         -> Sibling(Mod(j), "CsrTrapCoord")
      [] role = "logic"                        -> Append(Mod(j), "Logic")

Jobs == [design : Designs, module_name : Names, package_name : Names]
FileNames == UNION {{FileName(j, role) : role \in RolesOf(j)} : j \in Jobs}

(***************************************************************************)
(* Contents                                                                *)
(***************************************************************************)
Absent == [role |-> "absent", design |-> "none"]
Torn == [role |-> "torn", design |-> "none"]
Source(j, role) == [role |-> role, design |-> j.design.id]
Design(c) == CHOOSE d \in Designs : d.id = c.design

Entry(j, role) == [name |-> FileName(j, role), content |-> Source(j, role)]

\* A dict literal: a repeated key keeps its place and takes the last value.
Insert(entries, e) ==
    IF \E i \in DOMAIN entries : entries[i].name = e.name
    THEN [i \in DOMAIN entries |-> IF entries[i].name = e.name THEN e ELSE entries[i]]
    ELSE Append(entries, e)

Paths(j) ==
    LET one   == Insert(<<>>, Entry(j, "package"))
        two   == Insert(one, Entry(j, "file"))
        three == Insert(two, Entry(j, "access"))
    IN Insert(three, Entry(j, "trap"))

Block(j) == <<Entry(j, "block_package"), Entry(j, "block")>>

\* rdlc.compile_file and elaborate, which run the checks of the UDPs
Compiles(d) ==
    CASE d.kind = "csr"   -> d.compiles
      [] d.kind = "plic"  -> TagsValid(d.map, PlicRoles)
      [] d.kind = "clint" -> TagsValid(d.map, ClintRoles)

\* validate, _validate, or the checks of emit_clint_logic
Accepted(d) ==
    CASE d.kind = "csr"   -> d.accepted
      [] d.kind = "plic"  -> PlicAccepted(ScanPlic(d.map))
      [] d.kind = "clint" -> ClintAccepted(ScanClint(d.map))

(***************************************************************************)
(* A run                                                                   *)
(***************************************************************************)
Running == {"compile", "scan", "block", "logic", "write"}

\* A directory belongs to one exporter and to one choice of names; the design
\* is what changes between two runs.
Start(d) ==
    /\ pc \notin Running
    /\ d.kind = job.design.kind
    /\ job' = [job EXCEPT !.design = d] /\ before' = disk /\ out' = {}
    /\ pc' = "compile" /\ todo' = <<>> /\ open' = FALSE
    /\ UNCHANGED disk

\* RDLCompileError: main returns 1
Compile ==
    /\ pc = "compile"
    /\ pc' = IF ~Compiles(job.design) THEN "rejected"
             ELSE IF job.design.kind = "csr" THEN "scan" ELSE "block"
    /\ todo' = IF pc' = "block" THEN Block(job) ELSE <<>>
    /\ UNCHANGED <<disk, job, open, out, before>>

\* Faulty: the CSR exporter writes what it has emitted before it validates
PrepareUnvalidated ==
    /\ pc = "scan"
    /\ pc' = "write" /\ todo' = Paths(job)
    /\ UNCHANGED <<disk, job, open, out, before>>

\* scan, validate, the four emitters, makedirs
Prepare ==
    /\ pc = "scan"
    /\ IF Accepted(job.design) THEN pc' = "write" /\ todo' = Paths(job)
                               ELSE pc' = "rejected" /\ todo' = <<>>
    /\ UNCHANGED <<disk, job, open, out, before>>

\* Faulty: the logic module is opened before it is emitted
EmitLogicOpened ==
    /\ pc = "logic"
    /\ IF Accepted(job.design)
       THEN pc' = "write" /\ todo' = <<Entry(job, "logic")>> /\ open' = TRUE
       ELSE pc' = "rejected" /\ todo' = <<>> /\ open' = FALSE
    /\ disk' = [disk EXCEPT ![FileName(job, "logic")] = Torn]
    /\ UNCHANGED <<job, out, before>>

\* The register block is written; scan and emit the logic module.
EmitLogic ==
    /\ pc = "logic"
    /\ IF Accepted(job.design) THEN pc' = "write" /\ todo' = <<Entry(job, "logic")>>
                               ELSE pc' = "rejected" /\ todo' = <<>>
    /\ UNCHANGED <<disk, job, open, out, before>>

\* open(fullpath, "w")
Open ==
    /\ pc \in {"block", "write"} /\ todo # <<>> /\ ~open
    /\ disk' = [disk EXCEPT ![Head(todo).name] = Torn]
    /\ open' = TRUE
    /\ UNCHANGED <<job, pc, todo, out, before>>

\* Faulty: the file is not closed
WriteUnclosed ==
    /\ open
    /\ disk' = [disk EXCEPT ![Head(todo).name] = Head(todo).content]
    /\ out' = out \cup {Head(todo).name}
    /\ todo' = Tail(todo)
    /\ UNCHANGED <<job, pc, open, before>>

\* Faulty: the name is reported, the content left in the buffer
WriteNothing ==
    /\ open
    /\ out' = out \cup {Head(todo).name}
    /\ todo' = Tail(todo) /\ open' = FALSE
    /\ UNCHANGED <<disk, job, pc, before>>

\* fh.write(src), and the end of the with block
Write ==
    /\ open
    /\ disk' = [disk EXCEPT ![Head(todo).name] = Head(todo).content]
    /\ out' = out \cup {Head(todo).name}
    /\ todo' = Tail(todo) /\ open' = FALSE
    /\ UNCHANGED <<job, pc, before>>

\* ArchExporter returns, or the exporter does: main prints the paths.
Return ==
    /\ pc \in {"block", "write"} /\ todo = <<>>
    /\ pc' = IF pc = "block" THEN "logic" ELSE "returned"
    /\ UNCHANGED <<disk, job, todo, open, out, before>>

\* An exception or a kill; what was open stays truncated.
Fail ==
    /\ pc \in Running
    /\ pc' = "failed" /\ open' = FALSE
    /\ UNCHANGED <<disk, job, todo, out, before>>

ExpInit ==
    /\ disk = [n \in FileNames |-> Absent] /\ before = disk
    /\ job \in Jobs
    /\ pc = "idle" /\ todo = <<>> /\ open = FALSE /\ out = {}

ExpNext == \/ \E d \in Designs : Start(d)
           \/ Compile \/ Prepare \/ EmitLogic
           \/ Open \/ Write \/ Return \/ Fail

ExpSpec == ExpInit /\ [][ExpNext]_expVars

(***************************************************************************)
(* Properties                                                              *)
(***************************************************************************)

\* Directory entries are files of this exporter, and what the run still has to
\* write is among them.
ExpTypeOK ==
    /\ disk \in [FileNames -> {Absent, Torn} \cup
                    [role : Roles, design : {d.id : d \in Designs}]]
    /\ job \in Jobs
    /\ pc \in Running \cup {"idle", "rejected", "failed", "returned"}
    /\ open => todo # <<>>
    /\ \A i \in DOMAIN todo : todo[i].name \in FileNames
    /\ out \subseteq FileNames

\* The names of a run's files differ; nothing checks that the user's choice
\* of module and package name leaves them so.
DistinctNames(j) ==
    \A r, s \in RolesOf(j) : FileName(j, r) = FileName(j, s) => r = s

\* A directory that looks like a finished export holds an accepted design: of a
\* design that validation rejects, no file of the CSR exporter and no logic
\* module exists, whichever runs were made, rejected or cut short before.
NothingUnvalidated ==
    \A n \in FileNames :
        disk[n].role \in Roles \ BlockRoles => Accepted(Design(disk[n]))

\* A rejected design leaves the directory as the run found it, but for the
\* register block, which the PLIC and CLINT exporters have written by then: the
\* old logic module then stands next to the new block.
RejectionTouchesBlockOnly ==
    pc = "rejected" =>
        \A n \in FileNames : disk[n] # before[n] =>
            /\ job.design.kind # "csr" /\ Compiles(job.design)
            /\ n \in {FileName(job, r) : r \in BlockRoles}

\* When the exporter returns, every name it returns is a whole file of this
\* run's design, and every file it promises is among them unless the user made
\* two names the same: a run heals whatever earlier ones left behind.
ReturnedFilesWhole ==
    pc = "returned" =>
        /\ \A n \in out : disk[n].design = job.design.id
        /\ DistinctNames(job) =>
             /\ out = {FileName(job, r) : r \in RolesOf(job)}
             /\ \A r \in RolesOf(job) : disk[FileName(job, r)] = Source(job, r)

\* The four files of a finished CSR export fit together, read back from the
\* directory: the CSR file reads and drives members the package declares, and
\* every declared output and every member of the trap coordinator's drive has a
\* driver, the placeholder of an empty struct included.  The premise is that the
\* design has a register: validation lets one without pass, and then nothing
\* drives the placeholder of the output struct.
Fit(package, file, trap) ==
    /\ FileReads(file) \subseteq DeclaredIn(package)
    /\ FileDrives(file) = DeclaredOut(package)
    /\ TrapDrives(trap) = DeclaredIn(package)

ReturnedInterfacesFit ==
    (pc = "returned" /\ job.design.kind = "csr" /\ DistinctNames(job)
       /\ job.design.regs # {}) =>
        LET On(role) == Design(disk[FileName(job, role)])
        IN Fit(On("package"), On("file"), On("trap"))

\* The context that the SiFive layout of the RDL puts a register in
ContextOf(r) ==
    CASE r.role = "enable"    -> (r.address - 8192) \div 128
      [] r.role = "threshold" -> (r.address - 2097152) \div 4096
      [] r.role = "claim"     -> (r.address - 2097156) \div 4096

ContextRoles == {"enable", "threshold", "claim"}
Contexts(regs, role) == {ContextOf(regs[i]) : i \in Places(regs, role)}

OneOfEachPerContext(regs) ==
    \A role \in ContextRoles :
        /\ Contexts(regs, role) = Contexts(regs, "claim")
        /\ \A i, k \in Places(regs, role) : ContextOf(regs[i]) = ContextOf(regs[k]) => i = k

\* Each context of an accepted PLIC is wired to the registers that the layout
\* gives it, in whatever order they are declared: the three kinds are ordered
\* separately, and validation only compares their numbers.  The premise is that
\* every context has one register of each kind.
ContextsPaired ==
    (pc = "returned" /\ job.design.kind = "plic"
       /\ OneOfEachPerContext(job.design.map)) =>
        LET m == ScanPlic(job.design.map)
        IN \A c \in DOMAIN m.claims :
              \A i, k \in 1..3 : ContextOf(Context(m, c)[i]) = ContextOf(Context(m, c)[k])
=============================================================================
