--------------------------- MODULE Exporter_proofs ---------------------------
(***************************************************************************)
(* Proofs about the exporters, for any set of designs and any names the    *)
(* user may choose.                                                        *)
(***************************************************************************)
EXTENDS Exporter, SequenceTheorems, FiniteSetTheorems, TLAPS

(***************************************************************************)
(* The inductive invariant.  Every entry still to be written is the file   *)
(* of a role of this run, and every role of the phase is still to be       *)
(* written or done.                                                        *)
(***************************************************************************)

Contents == {Absent, Torn} \cup [role : Roles, design : {d.id : d \in Designs}]
Entries == [name : FileNames, content : Contents]
BlockNames == {FileName(job, r) : r \in BlockRoles}

\* Of the files that only a validated design may have, only those of an
\* accepted design stand in the directory.
Sound(c) == c.role \in Roles \ BlockRoles => Accepted(Design(c))

Shape ==
    /\ disk \in [FileNames -> Contents]
    /\ job \in Jobs
    /\ pc \in Running \cup {"idle", "rejected", "failed", "returned"}
    /\ todo \in Seq(Entries)
    /\ open \in BOOLEAN
    /\ open => pc \in {"block", "write"} /\ todo # <<>>
    /\ out \subseteq FileNames
    /\ pc = "scan" => job.design.kind = "csr"
    /\ pc \in {"block", "logic"} => job.design.kind # "csr"

TodoInv ==
    \A i \in DOMAIN todo : \E r \in RolesOf(job) :
        /\ todo[i] = Entry(job, r)
        /\ r \notin BlockRoles => Accepted(job.design)
        /\ pc = "block" => r \in BlockRoles

DiskSound == \A n \in FileNames : Sound(disk[n])

\* Until validation only the register block is touched.
BlockOnly ==
    /\ pc \in {"idle", "compile", "scan"} => disk = before
    /\ pc \in {"block", "logic"} =>
          /\ Compiles(job.design)
          /\ \A n \in FileNames : disk[n] # before[n] => n \in BlockNames
    /\ RejectionTouchesBlockOnly

Done(role) == /\ FileName(job, role) \in out
              /\ disk[FileName(job, role)] = Source(job, role)

\* The roles that a phase of the run has written or will write
Phase == CASE pc \in {"block", "logic"}    -> BlockRoles
           [] pc \in {"write", "returned"} -> RolesOf(job)
           [] OTHER                        -> {}

Progress ==
    /\ pc \in Running \cup {"returned"} =>
         \A n \in out : disk[n].design = job.design.id \/ (open /\ n = Head(todo).name)
    /\ out \subseteq {FileName(job, r) : r \in RolesOf(job)}
    /\ pc \in {"logic", "returned"} => todo = <<>>
    /\ DistinctNames(job) =>
         \A r \in Phase : Done(r) \/ \E i \in DOMAIN todo : todo[i] = Entry(job, r)

ExpInv == Shape /\ TodoInv /\ DiskSound /\ BlockOnly /\ Progress

(***************************************************************************)
(* Names, contents and the lists of entries                                *)
(***************************************************************************)

\* A source names its design.
LEMMA SourceDesign ==
    ASSUME NEW j \in Jobs, NEW role \in Roles
    PROVE  /\ Source(j, role) \in Contents
           /\ Design(Source(j, role)) = j.design
<1>1. j.design \in Designs
  BY DEF Jobs
<1>2. \A d, e \in Designs : d.id = e.id => d = e
  BY ExporterConstants
<1>3. Source(j, role).design = j.design.id
  BY DEF Source
<1>4. QED
  BY <1>1, <1>2, <1>3 DEF Source, Contents, Design

LEMMA EntryType ==
    ASSUME NEW j \in Jobs, NEW r \in RolesOf(j)
    PROVE  /\ r \in Roles
           /\ FileName(j, r) \in FileNames
           /\ Entry(j, r) \in Entries
           /\ Entry(j, r).name = FileName(j, r)
           /\ Entry(j, r).content = Source(j, r)
<1>1. r \in Roles
  BY DEF RolesOf, Roles
<1>2. FileName(j, r) \in FileNames
  BY DEF FileNames
<1>3. QED
  BY <1>1, <1>2, SourceDesign DEF Entry, Entries

\* What a dict literal's key does to the entries before it.
LEMMA InsertFacts ==
    ASSUME NEW s \in Seq(Entries), NEW e \in Entries
    PROVE  /\ Insert(s, e) \in Seq(Entries)
           /\ \A i \in DOMAIN Insert(s, e) :
                 Insert(s, e)[i] = e \/ \E k \in DOMAIN s : Insert(s, e)[i] = s[k]
           /\ \E i \in DOMAIN Insert(s, e) : Insert(s, e)[i] = e
           /\ \A k \in DOMAIN s : s[k].name # e.name =>
                 \E i \in DOMAIN Insert(s, e) : Insert(s, e)[i] = s[k]
<1>1. CASE \E i \in DOMAIN s : s[i].name = e.name
  <2> DEFINE t == [i \in DOMAIN s |-> IF s[i].name = e.name THEN e ELSE s[i]]
  <2>1. Insert(s, e) = t
    BY <1>1 DEF Insert
  <2>2. DOMAIN s = 1..Len(s) /\ Len(s) \in Nat /\ \A i \in 1..Len(s) : s[i] \in Entries
    OBVIOUS
  <2>3. t \in [1..Len(s) -> Entries]
    BY <2>2
  <2>4. t \in Seq(Entries)
    BY <2>2, <2>3, SeqDef
  <2>5. /\ DOMAIN t = DOMAIN s
        /\ \A i \in DOMAIN s : t[i] = IF s[i].name = e.name THEN e ELSE s[i]
    OBVIOUS
  <2> HIDE DEF t
  <2>6. PICK i0 \in DOMAIN s : s[i0].name = e.name
    BY <1>1
  <2>7. i0 \in DOMAIN t /\ t[i0] = e
    BY <2>5, <2>6
  <2>8. \A i \in DOMAIN t : t[i] = e \/ \E k \in DOMAIN s : t[i] = s[k]
    BY <2>5
  <2>9. \A k \in DOMAIN s : s[k].name # e.name => k \in DOMAIN t /\ t[k] = s[k]
    BY <2>5
  <2>10. QED
    BY <2>1, <2>4, <2>7, <2>8, <2>9
<1>2. CASE ~ \E i \in DOMAIN s : s[i].name = e.name
  <2> DEFINE t == Append(s, e)
  <2>1. Insert(s, e) = t
    BY <1>2 DEF Insert
  <2>2. /\ t \in Seq(Entries) /\ Len(t) = Len(s) + 1 /\ Len(s) \in Nat
        /\ DOMAIN s = 1..Len(s) /\ DOMAIN t = 1..(Len(s) + 1)
        /\ \A i \in 1..Len(s) : t[i] = s[i]
        /\ t[Len(s) + 1] = e
    OBVIOUS
  <2>3. \A i \in DOMAIN t : i = Len(s) + 1 \/ i \in 1..Len(s)
    BY <2>2
  <2>4. Len(s) + 1 \in DOMAIN t /\ DOMAIN s \subseteq DOMAIN t
    BY <2>2
  <2> HIDE DEF t
  <2>5. QED
    BY <2>1, <2>2, <2>3, <2>4
<1>3. QED
  BY <1>1, <1>2

\* The four files of a CSR export: each entry is the file of its role, and
\* with distinct names every role has its entry.
LEMMA PathsFacts ==
    ASSUME NEW j \in Jobs, j.design.kind = "csr"
    PROVE  /\ Paths(j) \in Seq(Entries)
           /\ \A i \in DOMAIN Paths(j) : \E r \in CsrRoles : Paths(j)[i] = Entry(j, r)
           /\ DistinctNames(j) =>
                \A r \in CsrRoles : \E i \in DOMAIN Paths(j) : Paths(j)[i] = Entry(j, r)
<1> DEFINE one   == Insert(<<>>, Entry(j, "package"))
           two   == Insert(one, Entry(j, "file"))
           three == Insert(two, Entry(j, "access"))
           four  == Insert(three, Entry(j, "trap"))
<1>1. RolesOf(j) = CsrRoles /\ CsrRoles = {"package", "file", "access", "trap"}
  BY DEF RolesOf, CsrRoles
<1>2. \A r \in CsrRoles : Entry(j, r) \in Entries /\ Entry(j, r).name = FileName(j, r)
  BY <1>1, EntryType
<1>3. DistinctNames(j) => \A r, q \in CsrRoles : FileName(j, r) = FileName(j, q) => r = q
  BY <1>1 DEF DistinctNames
<1>4. Paths(j) = four
  BY DEF Paths
<1> DEFINE Of(s, rs) ==
             /\ s \in Seq(Entries)
             /\ \A i \in DOMAIN s : \E r \in rs : s[i] = Entry(j, r)
             /\ DistinctNames(j) => \A r \in rs : \E i \in DOMAIN s : s[i] = Entry(j, r)
<1>5. ASSUME NEW s, NEW rs \in SUBSET CsrRoles, NEW q \in CsrRoles \ rs, Of(s, rs)
      PROVE  Of(Insert(s, Entry(j, q)), rs \cup {q})
  <2> DEFINE e == Entry(j, q)
             t == Insert(s, e)
  <2>1. /\ t \in Seq(Entries)
        /\ \A i \in DOMAIN t : t[i] = e \/ \E k \in DOMAIN s : t[i] = s[k]
        /\ \E i \in DOMAIN t : t[i] = e
        /\ \A k \in DOMAIN s : s[k].name # e.name => \E i \in DOMAIN t : t[i] = s[k]
    <3>1. e \in Entries /\ s \in Seq(Entries)
      BY <1>2, <1>5
    <3> HIDE DEF e
    <3>2. QED
      BY <3>1, InsertFacts
  <2>2. \A i \in DOMAIN t : \E r \in rs \cup {q} : t[i] = Entry(j, r)
    BY <1>5, <2>1
  <2>3. ASSUME DistinctNames(j), NEW r \in rs
        PROVE  \E i \in DOMAIN t : t[i] = Entry(j, r)
    <3>1. PICK k \in DOMAIN s : s[k] = Entry(j, r)
      BY <1>5, <2>3
    <3>2. Entry(j, r).name # e.name
      BY <1>2, <1>3, <2>3
    <3>3. QED
      BY <2>1, <3>1, <3>2
  <2>4. QED
    BY <2>1, <2>2, <2>3
<1>6. Of(<<>>, {})
  OBVIOUS
<1> HIDE DEF Of
<1>7. Of(one, {"package"})
  BY <1>1, <1>5, <1>6
<1>8. Of(two, {"package", "file"})
  BY <1>1, <1>5, <1>7
<1>9. Of(three, {"package", "file", "access"})
  BY <1>1, <1>5, <1>8
<1>10. Of(four, {"package", "file", "access", "trap"})
  BY <1>1, <1>5, <1>9
<1>11. QED
  BY <1>1, <1>4, <1>10 DEF Of

\* The two files of a register block.
LEMMA BlockFacts ==
    ASSUME NEW j \in Jobs, j.design.kind # "csr"
    PROVE  /\ Block(j) \in Seq(Entries)
           /\ \A i \in DOMAIN Block(j) : \E r \in BlockRoles : Block(j)[i] = Entry(j, r)
           /\ \A r \in BlockRoles : \E i \in DOMAIN Block(j) : Block(j)[i] = Entry(j, r)
<1>1. Entry(j, "block_package") \in Entries /\ Entry(j, "block") \in Entries
  BY EntryType DEF RolesOf, BlockRoles
<1>2. QED
  BY <1>1 DEF Block, BlockRoles

LEMMA NoEntry == <<>> \in Seq(Entries) /\ DOMAIN <<>> = {}
  OBVIOUS

LEMMA OneEntry ==
    ASSUME NEW e \in Entries
    PROVE  <<e>> \in Seq(Entries) /\ DOMAIN <<e>> = {1} /\ <<e>>[1] = e
  OBVIOUS

(***************************************************************************)
(* The steps                                                               *)
(***************************************************************************)

LEMMA InitExp == ExpInit => ExpInv
<1> SUFFICES ASSUME ExpInit PROVE ExpInv
  OBVIOUS
<1> USE DEF ExpInit
<1>1. Shape
  <2>1. Absent \in Contents
    BY DEF Contents
  <2>2. disk \in [FileNames -> Contents]
    BY <2>1
  <2>3. <<>> \in Seq(Entries)
    OBVIOUS
  <2>4. QED
    BY <2>2, <2>3 DEF Shape, Running
<1>2. TodoInv
  BY DEF TodoInv
<1>3. DiskSound
  BY DEF DiskSound, Sound, Absent, Roles, CsrRoles, BlockRoles
<1>4. BlockOnly
  BY DEF BlockOnly, RejectionTouchesBlockOnly
<1>5. Progress
  BY DEF Progress, Phase, Running
<1>6. QED
  BY <1>1, <1>2, <1>3, <1>4, <1>5 DEF ExpInv

LEMMA StartStep ==
    ASSUME ExpInv, NEW d \in Designs, Start(d)
    PROVE  ExpInv'
<1> USE DEF Start, Running
<1>1. job' \in Jobs /\ job'.design = d
  BY DEF ExpInv, Shape, Jobs
<1>2. Shape'
  BY <1>1, NoEntry DEF ExpInv, Shape
<1>3. TodoInv'
  BY DEF TodoInv
<1>4. DiskSound'
  BY DEF ExpInv, DiskSound
<1>5. BlockOnly'
  BY DEF BlockOnly, RejectionTouchesBlockOnly
<1>6. Progress'
  BY DEF Progress, Phase
<1>7. QED
  BY <1>2, <1>3, <1>4, <1>5, <1>6 DEF ExpInv

LEMMA CompileStep ==
    ASSUME ExpInv, Compile
    PROVE  ExpInv'
<1> USE DEF Compile, Running
<1>1. ~open /\ job \in Jobs /\ disk = before
  BY DEF ExpInv, Shape, BlockOnly
<1>2. /\ pc' \in {"rejected", "scan", "block"}
      /\ pc' = "scan" => job.design.kind = "csr"
      /\ pc' = "block" => job.design.kind # "csr" /\ Compiles(job.design)
      /\ todo' = IF pc' = "block" THEN Block(job) ELSE <<>>
  OBVIOUS
<1>3. pc' = "block" =>
        /\ todo' \in Seq(Entries)
        /\ \A i \in DOMAIN todo' : \E r \in BlockRoles : todo'[i] = Entry(job, r)
        /\ \A r \in BlockRoles : \E i \in DOMAIN todo' : todo'[i] = Entry(job, r)
  BY <1>1, <1>2, BlockFacts
<1>4. pc' # "block" => todo' = <<>>
  BY <1>2
<1>5. Shape'
  <2>1. todo' \in Seq(Entries)
    BY <1>3, <1>4, NoEntry
  <2>2. QED
    BY <1>1, <1>2, <2>1 DEF ExpInv, Shape
<1>6. TodoInv'
  <2>1. CASE pc' = "block"
    BY <1>2, <1>3, <2>1 DEF TodoInv, RolesOf
  <2>2. CASE pc' # "block"
    BY <1>4, <2>2 DEF TodoInv
  <2>3. QED
    BY <2>1, <2>2
<1>7. DiskSound'
  BY DEF ExpInv, DiskSound
<1>8. BlockOnly'
  BY <1>1, <1>2 DEF BlockOnly, RejectionTouchesBlockOnly
<1>9. Progress'
  <2>1. \A n \in out : disk[n].design = job.design.id
    BY <1>1 DEF ExpInv, Progress
  <2>2. \A r \in Phase' : pc' = "block" /\ r \in BlockRoles
    BY <1>2 DEF Phase
  <2>3. QED
    BY <1>2, <1>3, <2>1, <2>2 DEF ExpInv, Progress
<1>10. QED
  BY <1>5, <1>6, <1>7, <1>8, <1>9 DEF ExpInv

LEMMA PrepareStep ==
    ASSUME ExpInv, Prepare
    PROVE  ExpInv'
<1> USE DEF Prepare, Running
<1>1. ~open /\ job \in Jobs /\ disk = before /\ job.design.kind = "csr"
  BY DEF ExpInv, Shape, BlockOnly
<1>2. RolesOf(job) = CsrRoles /\ CsrRoles \cap BlockRoles = {}
  BY <1>1 DEF RolesOf, CsrRoles, BlockRoles
<1>3. \/ pc' = "write" /\ todo' = Paths(job) /\ Accepted(job.design)
      \/ pc' = "rejected" /\ todo' = <<>>
  OBVIOUS
<1>4. pc' = "write" =>
        /\ todo' \in Seq(Entries)
        /\ \A i \in DOMAIN todo' : \E r \in CsrRoles : todo'[i] = Entry(job, r)
        /\ DistinctNames(job) =>
             \A r \in CsrRoles : \E i \in DOMAIN todo' : todo'[i] = Entry(job, r)
  BY <1>1, <1>3, PathsFacts
<1>5. Shape'
  <2>1. todo' \in Seq(Entries)
    BY <1>3, <1>4, NoEntry
  <2>2. QED
    BY <1>1, <1>3, <2>1 DEF ExpInv, Shape
<1>6. TodoInv'
  <2>1. CASE pc' = "write"
    BY <1>2, <1>3, <1>4, <2>1 DEF TodoInv
  <2>2. CASE pc' # "write"
    BY <1>3, <2>2 DEF TodoInv
  <2>3. QED
    BY <2>1, <2>2
<1>7. DiskSound'
  BY DEF ExpInv, DiskSound
<1>8. BlockOnly'
  BY <1>1, <1>3 DEF BlockOnly, RejectionTouchesBlockOnly
<1>9. Progress'
  <2>1. \A n \in out : disk[n].design = job.design.id
    BY <1>1 DEF ExpInv, Progress
  <2>2. \A r \in Phase' : pc' = "write" /\ r \in CsrRoles
    BY <1>2, <1>3 DEF Phase
  <2>3. DistinctNames(job)' = DistinctNames(job)
    OBVIOUS
  <2>4. QED
    BY <1>2, <1>3, <1>4, <2>1, <2>2, <2>3 DEF ExpInv, Progress
<1>10. QED
  BY <1>5, <1>6, <1>7, <1>8, <1>9 DEF ExpInv

LEMMA EmitLogicStep ==
    ASSUME ExpInv, EmitLogic
    PROVE  ExpInv'
<1> USE DEF EmitLogic, Running
<1>1. ~open /\ job \in Jobs /\ job.design.kind # "csr" /\ Compiles(job.design)
  BY DEF ExpInv, Shape, BlockOnly
<1>2. RolesOf(job) = BlockRoles \cup {"logic"} /\ "logic" \notin BlockRoles
  BY <1>1 DEF RolesOf, BlockRoles
<1>3. \/ pc' = "write" /\ todo' = <<Entry(job, "logic")>> /\ Accepted(job.design)
      \/ pc' = "rejected" /\ todo' = <<>>
  OBVIOUS
<1>4. Entry(job, "logic") \in Entries
  BY <1>1, <1>2, EntryType
<1>5. pc' = "write" => /\ todo' \in Seq(Entries)
                       /\ DOMAIN todo' = {1} /\ todo'[1] = Entry(job, "logic")
  BY <1>3, <1>4, OneEntry
<1>6. Shape'
  <2>1. todo' \in Seq(Entries)
    BY <1>3, <1>5, NoEntry
  <2>2. QED
    BY <1>1, <1>3, <2>1 DEF ExpInv, Shape
<1>7. TodoInv'
  <2>1. CASE pc' = "write"
    BY <1>2, <1>3, <1>5, <2>1 DEF TodoInv
  <2>2. CASE pc' # "write"
    BY <1>3, <2>2 DEF TodoInv
  <2>3. QED
    BY <2>1, <2>2
<1>8. DiskSound'
  BY DEF ExpInv, DiskSound
<1>9. BlockOnly'
  BY <1>1, <1>3 DEF ExpInv, BlockOnly, RejectionTouchesBlockOnly, BlockNames
<1>10. Progress'
  <2>1. \A n \in out : disk[n].design = job.design.id
    BY <1>1 DEF ExpInv, Progress
  <2>2. \A r \in Phase' : pc' = "write" /\ (r \in BlockRoles \/ r = "logic")
    BY <1>2, <1>3 DEF Phase
  <2>3. DistinctNames(job) => \A r \in BlockRoles : Done(r)
    <3>1. todo = <<>> /\ Phase = BlockRoles
      BY DEF ExpInv, Progress, Phase
    <3>2. QED
      BY <3>1 DEF ExpInv, Progress
  <2>4. \A r : Done(r)' = Done(r)
    BY DEF Done
  <2>5. QED
    BY <1>2, <1>3, <1>5, <2>1, <2>2, <2>3, <2>4 DEF ExpInv, Progress
<1>11. QED
  BY <1>6, <1>7, <1>8, <1>9, <1>10 DEF ExpInv

\* What the head of the list is, and what is left behind it.
LEMMA HeadFacts ==
    ASSUME ExpInv, todo # <<>>
    PROVE  /\ Tail(todo) \in Seq(Entries)
           /\ \A i \in DOMAIN Tail(todo) : i + 1 \in DOMAIN todo
                                             /\ Tail(todo)[i] = todo[i + 1]
           /\ \A i \in DOMAIN todo : i = 1 \/ (i - 1 \in DOMAIN Tail(todo)
                                             /\ Tail(todo)[i - 1] = todo[i])
           /\ 1 \in DOMAIN todo /\ Head(todo) = todo[1]
           /\ \E r \in RolesOf(job) :
                 /\ Head(todo) = Entry(job, r)
                 /\ r \in Roles
                 /\ Head(todo).name = FileName(job, r)
                 /\ Head(todo).name \in FileNames
                 /\ Head(todo).content = Source(job, r)
                 /\ r \notin BlockRoles => Accepted(job.design)
                 /\ pc = "block" => r \in BlockRoles
<1>1. todo \in Seq(Entries) /\ job \in Jobs
  BY DEF ExpInv, Shape
<1>2. /\ Len(todo) \in Nat \ {0}
      /\ DOMAIN todo = 1..Len(todo)
      /\ Head(todo) = todo[1]
      /\ Tail(todo) \in Seq(Entries)
      /\ DOMAIN Tail(todo) = 1..(Len(todo) - 1)
      /\ \A i \in 1..(Len(todo) - 1) : Tail(todo)[i] = todo[i + 1]
  BY <1>1
<1>3. 1 \in DOMAIN todo
  BY <1>2
<1>4. PICK r \in RolesOf(job) : /\ todo[1] = Entry(job, r)
                                /\ r \notin BlockRoles => Accepted(job.design)
                                /\ pc = "block" => r \in BlockRoles
  BY <1>3 DEF ExpInv, TodoInv
<1>5. /\ r \in Roles
      /\ todo[1].name = FileName(job, r)
      /\ todo[1].name \in FileNames
      /\ todo[1].content = Source(job, r)
  BY <1>1, <1>4, EntryType
<1>6. \A i \in 1..(Len(todo) - 1) : i + 1 \in 1..Len(todo)
  BY <1>2
<1>7. \A i \in 1..Len(todo) : i = 1 \/ i - 1 \in 1..(Len(todo) - 1)
  BY <1>2
<1>8. \A i \in 1..Len(todo) : (i - 1) + 1 = i
  BY <1>2
<1>9. QED
  BY <1>2, <1>3, <1>4, <1>5, <1>6, <1>7, <1>8

LEMMA OpenStep ==
    ASSUME ExpInv, Open
    PROVE  ExpInv'
<1> USE DEF Open, Running
<1>1. /\ todo # <<>> /\ ~open /\ open' = TRUE
      /\ UNCHANGED <<job, pc, todo, out, before>>
      /\ pc \in {"block", "write"}
  OBVIOUS
<1>2. PICK r \in RolesOf(job) : /\ Head(todo) = Entry(job, r)
                                /\ Head(todo).name = FileName(job, r)
                                /\ Head(todo).name \in FileNames
                                /\ pc = "block" => r \in BlockRoles
  BY <1>1, HeadFacts
<1> DEFINE here == Head(todo).name
<1>3. Torn \in Contents /\ Sound(Torn)
  BY DEF Contents, Sound, Torn, Roles, CsrRoles, BlockRoles
<1>4. /\ disk' \in [FileNames -> Contents]
      /\ disk'[here] = Torn
      /\ \A n \in FileNames \ {here} : disk'[n] = disk[n]
  BY <1>2, <1>3 DEF ExpInv, Shape
<1>5. Shape'
  BY <1>1, <1>4 DEF ExpInv, Shape
<1>6. TodoInv'
  BY <1>1 DEF ExpInv, TodoInv
<1>7. DiskSound'
  BY <1>3, <1>4 DEF ExpInv, DiskSound
<1>8. BlockOnly'
  BY <1>1, <1>2, <1>4 DEF ExpInv, BlockOnly, RejectionTouchesBlockOnly, BlockNames
<1>9. Progress'
  <2>1. \A n \in out' : disk'[n].design = job'.design.id \/ (open' /\ n = Head(todo').name)
    BY <1>1, <1>4 DEF ExpInv, Progress, Shape
  <2>2. \A q \in Phase' : q \in Phase /\ q \in RolesOf(job)
    BY <1>1 DEF Phase, ExpInv, Shape, RolesOf
  <2>3. ASSUME DistinctNames(job), NEW q \in Phase'
        PROVE  Done(q)' \/ \E i \in DOMAIN todo : todo[i] = Entry(job, q)
    <3>1. CASE q = r
      BY <1>1, <1>2, <3>1, HeadFacts
    <3>2. CASE q # r
      <4>1. FileName(job, q) # here /\ FileName(job, q) \in FileNames
        BY <1>2, <2>2, <2>3, <3>2, EntryType DEF DistinctNames, ExpInv, Shape
      <4>2. Done(q) => Done(q)'
        BY <1>1, <1>4, <4>1 DEF Done
      <4>3. QED
        BY <2>2, <2>3, <4>2 DEF ExpInv, Progress
    <3>3. QED
      BY <3>1, <3>2
  <2>4. QED
    BY <1>1, <2>1, <2>3 DEF ExpInv, Progress
<1>10. QED
  BY <1>5, <1>6, <1>7, <1>8, <1>9 DEF ExpInv

LEMMA WriteStep ==
    ASSUME ExpInv, Write
    PROVE  ExpInv'
<1> USE DEF Write, Running
<1>1. /\ todo # <<>> /\ open /\ open' = FALSE
      /\ UNCHANGED <<job, pc, before>>
      /\ pc \in {"block", "write"}
      /\ todo' = Tail(todo) /\ out' = out \cup {Head(todo).name}
  BY DEF ExpInv, Shape
<1>2. PICK r \in RolesOf(job) : /\ Head(todo) = Entry(job, r)
                                /\ r \in Roles
                                /\ Head(todo).name = FileName(job, r)
                                /\ Head(todo).name \in FileNames
                                /\ Head(todo).content = Source(job, r)
                                /\ r \notin BlockRoles => Accepted(job.design)
                                /\ pc = "block" => r \in BlockRoles
  BY <1>1, HeadFacts
<1>3. /\ todo' \in Seq(Entries)
      /\ \A i \in DOMAIN todo' : i + 1 \in DOMAIN todo /\ todo'[i] = todo[i + 1]
      /\ \A i \in DOMAIN todo : i = 1 \/ (i - 1 \in DOMAIN todo' /\ todo'[i - 1] = todo[i])
      /\ todo[1] = Head(todo)
  BY <1>1, HeadFacts
<1> DEFINE here == Head(todo).name
           src == Source(job, r)
<1>4. /\ src \in Contents /\ src.role = r /\ Design(src) = job.design
      /\ src.design = job.design.id
  BY <1>2, SourceDesign DEF Source, ExpInv, Shape
<1>5. /\ disk' \in [FileNames -> Contents]
      /\ disk'[here] = src
      /\ \A n \in FileNames \ {here} : disk'[n] = disk[n]
  BY <1>2, <1>4 DEF ExpInv, Shape
<1>6. Shape'
  BY <1>1, <1>2, <1>3, <1>5 DEF ExpInv, Shape
<1>7. TodoInv'
  BY <1>1, <1>3 DEF ExpInv, TodoInv
<1>8. DiskSound'
  <2>1. Sound(src)
    BY <1>2, <1>4 DEF Sound
  <2>2. QED
    BY <1>5, <2>1 DEF ExpInv, DiskSound
<1>9. BlockOnly'
  BY <1>1, <1>2, <1>5 DEF ExpInv, BlockOnly, RejectionTouchesBlockOnly, BlockNames
<1>10. Progress'
  <2>1. \A n \in out' : disk'[n].design = job'.design.id
    BY <1>1, <1>2, <1>4, <1>5 DEF ExpInv, Progress, Shape
  <2>2. \A q \in Phase' : q \in Phase /\ q \in RolesOf(job)
    BY <1>1 DEF Phase, ExpInv, Shape, RolesOf
  <2>3. ASSUME DistinctNames(job), NEW q \in Phase'
        PROVE  Done(q)' \/ \E i \in DOMAIN todo' : todo'[i] = Entry(job, q)
    <3>1. CASE q = r
      BY <1>1, <1>2, <1>5, <3>1 DEF Done
    <3>2. CASE q # r
      <4>1. FileName(job, q) # here /\ FileName(job, q) \in FileNames
        BY <1>2, <2>2, <2>3, <3>2, EntryType DEF DistinctNames, ExpInv, Shape
      <4>2. Done(q) => Done(q)'
        BY <1>1, <1>5, <4>1 DEF Done
      <4>3. \A i \in DOMAIN todo : todo[i] = Entry(job, q) => i # 1
        <5>1. Entry(job, q).name # here
          BY <2>2, <4>1, EntryType DEF ExpInv, Shape
        <5>2. QED
          BY <1>3, <5>1
      <4>4. QED
        BY <1>3, <2>2, <2>3, <4>2, <4>3 DEF ExpInv, Progress
    <3>3. QED
      BY <3>1, <3>2
  <2>4. out' \subseteq {FileName(job, q) : q \in RolesOf(job)}
    BY <1>1, <1>2 DEF ExpInv, Progress
  <2>5. QED
    BY <1>1, <2>1, <2>3, <2>4 DEF ExpInv, Progress
<1>11. QED
  BY <1>6, <1>7, <1>8, <1>9, <1>10 DEF ExpInv

LEMMA ReturnStep ==
    ASSUME ExpInv, Return
    PROVE  ExpInv'
<1> USE DEF Return, Running
<1>1. /\ todo = <<>> /\ ~open
      /\ UNCHANGED <<disk, job, todo, open, out, before>>
      /\ \/ pc = "block" /\ pc' = "logic"
         \/ pc = "write" /\ pc' = "returned"
  BY DEF ExpInv, Shape
<1>2. Shape'
  BY <1>1 DEF ExpInv, Shape
<1>3. TodoInv'
  BY <1>1 DEF TodoInv
<1>4. DiskSound'
  BY DEF ExpInv, DiskSound
<1>5. BlockOnly'
  BY <1>1 DEF ExpInv, BlockOnly, RejectionTouchesBlockOnly, BlockNames
<1>6. Progress'
  <2>1. Phase' = Phase
    BY <1>1 DEF Phase
  <2>2. \A q : Done(q)' = Done(q)
    BY <1>1 DEF Done
  <2>3. QED
    BY <1>1, <2>1, <2>2 DEF ExpInv, Progress
<1>7. QED
  BY <1>2, <1>3, <1>4, <1>5, <1>6 DEF ExpInv

LEMMA FailStep ==
    ASSUME ExpInv, Fail
    PROVE  ExpInv'
<1> USE DEF Fail, Running
<1>1. /\ pc' = "failed" /\ ~open' /\ UNCHANGED <<disk, job, todo, out, before>>
  OBVIOUS
<1>2. Shape'
  BY <1>1 DEF ExpInv, Shape
<1>3. TodoInv'
  BY <1>1 DEF ExpInv, TodoInv
<1>4. DiskSound'
  BY DEF ExpInv, DiskSound
<1>5. BlockOnly'
  BY <1>1 DEF BlockOnly, RejectionTouchesBlockOnly
<1>6. Progress'
  BY <1>1 DEF ExpInv, Progress, Phase
<1>7. QED
  BY <1>2, <1>3, <1>4, <1>5, <1>6 DEF ExpInv

LEMMA NoExpStep ==
    ASSUME ExpInv, UNCHANGED expVars
    PROVE  ExpInv'
<1>1. Phase' = Phase /\ \A q : Done(q)' = Done(q)
  BY DEF expVars, Phase, Done
<1>2. Progress'
  BY <1>1 DEF ExpInv, expVars, Progress
<1>3. Shape' /\ TodoInv' /\ DiskSound'
  BY DEF ExpInv, expVars, Shape, TodoInv, DiskSound
<1>4. BlockOnly'
  BY DEF ExpInv, expVars, BlockOnly, RejectionTouchesBlockOnly, BlockNames
<1>5. QED
  BY <1>2, <1>3, <1>4 DEF ExpInv

LEMMA ExpInvAlways == ExpSpec => []ExpInv
<1>1. ExpInv /\ [ExpNext]_expVars => ExpInv'
  BY StartStep, CompileStep, PrepareStep, EmitLogicStep, OpenStep, WriteStep, ReturnStep,
     FailStep, NoExpStep DEF ExpNext
<1>2. QED
  BY <1>1, InitExp, PTL DEF ExpSpec

(***************************************************************************)
(* The theorems                                                            *)
(***************************************************************************)

\* The directory holds only files of the exporter, and a run only has files of
\* its own to write (exporter.py, plic_exporter.py, clint_exporter.py).
THEOREM ExpTypeCorrect == ExpSpec => []ExpTypeOK
<1>1. ExpInv => ExpTypeOK
  <2> SUFFICES ASSUME ExpInv PROVE ExpTypeOK
    OBVIOUS
  <2>1. \A i \in DOMAIN todo : todo[i].name \in FileNames
    <3>1. job \in Jobs /\ \A i \in DOMAIN todo : \E r \in RolesOf(job) : todo[i] = Entry(job, r)
      BY DEF ExpInv, TodoInv, Shape
    <3>2. QED
      BY <3>1, EntryType
  <2>2. disk \in [FileNames -> {Absent, Torn} \cup
                     [role : Roles, design : {d.id : d \in Designs}]]
    BY DEF ExpInv, Shape, Contents
  <2>3. open => todo # <<>>
    BY DEF ExpInv, Shape
  <2>4. QED
    BY <2>1, <2>2, <2>3 DEF ExpInv, Shape, ExpTypeOK
<1>2. QED
  BY <1>1, ExpInvAlways, PTL

\* Whatever was run, rejected or cut short in the directory before, no file of a
\* CSR export and no logic module stands there for a design that validation
\* rejects.
THEOREM NothingUnvalidatedEver == ExpSpec => []NothingUnvalidated
<1>1. ExpInv => NothingUnvalidated
  BY DEF ExpInv, DiskSound, Sound, NothingUnvalidated
<1>2. QED
  BY <1>1, ExpInvAlways, PTL

\* A rejected design leaves the directory alone, but for the register block that
\* the PLIC and CLINT exporters write first.
THEOREM RejectionIsClean == ExpSpec => []RejectionTouchesBlockOnly
<1>1. ExpInv => RejectionTouchesBlockOnly
  BY DEF ExpInv, BlockOnly
<1>2. QED
  BY <1>1, ExpInvAlways, PTL

\* An exporter that returns has healed whatever earlier runs left: its files are
\* whole and of its design, and all there when their names differ.
THEOREM ReturnMeansWhole == ExpSpec => []ReturnedFilesWhole
<1>1. ExpInv => ReturnedFilesWhole
  <2> SUFFICES ASSUME ExpInv, pc = "returned" PROVE ReturnedFilesWhole
    BY DEF ReturnedFilesWhole
  <2>1. todo = <<>> /\ ~open /\ Phase = RolesOf(job)
    BY DEF ExpInv, Progress, Shape, Phase
  <2>2. DistinctNames(job) => \A r \in RolesOf(job) : Done(r)
    BY <2>1, NoEntry DEF ExpInv, Progress
  <2>3. \A n \in out : disk[n].design = job.design.id
    BY <2>1 DEF ExpInv, Progress, Running
  <2>4. out \subseteq {FileName(job, r) : r \in RolesOf(job)}
    BY DEF ExpInv, Progress
  <2>5. DistinctNames(job) => out = {FileName(job, r) : r \in RolesOf(job)}
    BY <2>2, <2>4 DEF Done
  <2>6. DistinctNames(job) =>
          \A r \in RolesOf(job) : disk[FileName(job, r)] = Source(job, r)
    BY <2>2 DEF Done
  <2>7. QED
    BY <2>3, <2>5, <2>6 DEF ReturnedFilesWhole
<1>2. QED
  BY <1>1, ExpInvAlways, PTL

\* A CSR export that returns leaves four files in the directory whose interface
\* structs fit together, whatever was exported there before (emit_csr_package.py,
\* emit_csr_file.py, emit_trap_coordinator.py).
THEOREM FilesFitTogether == ExpSpec => []ReturnedInterfacesFit
<1>1. ExpInv => ReturnedInterfacesFit
  <2> SUFFICES ASSUME ExpInv, pc = "returned", job.design.kind = "csr", DistinctNames(job),
                      job.design.regs # {}
               PROVE  Fit(Design(disk[FileName(job, "package")]),
                          Design(disk[FileName(job, "file")]),
                          Design(disk[FileName(job, "trap")]))
    BY DEF ReturnedInterfacesFit
  <2>1. \A r \in CsrRoles : Design(disk[FileName(job, r)]) = job.design
    <3>1. job \in Jobs /\ RolesOf(job) = CsrRoles /\ Phase = RolesOf(job)
      BY DEF ExpInv, Shape, RolesOf, Phase
    <3>2. \A r \in CsrRoles : Done(r)
      BY <3>1, NoEntry DEF ExpInv, Progress
    <3>3. QED
      BY <3>1, <3>2, SourceDesign DEF Done, Roles
  <2>2. Design(disk[FileName(job, "package")]) = job.design
    BY <2>1 DEF CsrRoles
  <2>3. Design(disk[FileName(job, "file")]) = job.design
    BY <2>1 DEF CsrRoles
  <2>4. Design(disk[FileName(job, "trap")]) = job.design
    BY <2>1 DEF CsrRoles
  <2>5. Outputs(job.design) # {}
    BY DEF Outputs, Flat
  <2>6. Fit(job.design, job.design, job.design)
    BY <2>5 DEF Fit, FileReads, FileDrives, TrapDrives, DeclaredIn, DeclaredOut, OrReserved
  <2>7. QED
    BY <2>2, <2>3, <2>4, <2>6
<1>2. QED
  BY <1>1, ExpInvAlways, PTL

(***************************************************************************)
(* The scan of a PLIC                                                      *)
(***************************************************************************)

\* A register comes before another or after it, and the one that comes after
\* has more before it.
LEMMA RankOrder ==
    ASSUME NEW D, IsFiniteSet(D), D \subseteq Nat, NEW key \in [D -> Int],
           NEW i \in D, NEW k \in D, i # k, k \in Before(key, i)
    PROVE  Cardinality(Before(key, k)) < Cardinality(Before(key, i))
<1>1. Before(key, i) \subseteq D /\ Before(key, k) \subseteq D
  BY DEF Before
<1>2. IsFiniteSet(Before(key, i)) /\ IsFiniteSet(Before(key, k))
  BY <1>1, FS_Subset
<1>3. /\ Cardinality(Before(key, i)) \in Nat /\ Cardinality(Before(key, k)) \in Nat
  BY <1>2, FS_CardinalityType
<1>4. Before(key, k) \subseteq Before(key, i)
  <2> SUFFICES ASSUME NEW j \in D, key[j] < key[k] \/ (key[j] = key[k] /\ j < k)
               PROVE  key[j] < key[i] \/ (key[j] = key[i] /\ j < i)
    BY DEF Before
  <2>1. key[k] < key[i] \/ (key[k] = key[i] /\ k < i)
    BY DEF Before
  <2>2. key[i] \in Int /\ key[j] \in Int /\ key[k] \in Int
    OBVIOUS
  <2>3. i \in Nat /\ j \in Nat /\ k \in Nat
    OBVIOUS
  <2>4. QED
    BY <2>1, <2>2, <2>3
<1>5. k \notin Before(key, k)
  BY DEF Before
<1>6. /\ Cardinality(Before(key, k)) <= Cardinality(Before(key, i))
      /\ Cardinality(Before(key, k)) # Cardinality(Before(key, i))
  BY <1>2, <1>4, <1>5, FS_Subset
<1>7. QED
  BY <1>3, <1>6

\* list.sort puts every register in one place: the ranks are those from 0 up.
LEMMA RankFacts ==
    ASSUME NEW D, IsFiniteSet(D), D \subseteq Nat, NEW key \in [D -> Int]
    PROVE  /\ Cardinality(D) \in Nat
           /\ \A i, k \in D : Cardinality(Before(key, i)) = Cardinality(Before(key, k)) => i = k
           /\ \A c \in 1..Cardinality(D) : /\ Place(key, c) \in D
                                           /\ Cardinality(Before(key, Place(key, c))) = c - 1
<1> DEFINE n == Cardinality(D)
           rank == [i \in D |-> Cardinality(Before(key, i))]
<1>1. n \in Nat
  BY FS_CardinalityType
<1>2. \A i, k \in D : rank[i] = rank[k] => i = k
  <2> SUFFICES ASSUME NEW i \in D, NEW k \in D, i # k
               PROVE  rank[i] # rank[k]
    OBVIOUS
  <2>1. k \in Before(key, i) \/ i \in Before(key, k)
    BY DEF Before
  <2>2. \A j \in D : Cardinality(Before(key, j)) \in Nat
    <3>1. \A j \in D : IsFiniteSet(Before(key, j))
      BY FS_Subset DEF Before
    <3>2. QED
      BY <3>1, FS_CardinalityType
  <2>3. \/ Cardinality(Before(key, k)) < Cardinality(Before(key, i))
        \/ Cardinality(Before(key, i)) < Cardinality(Before(key, k))
    BY <2>1, RankOrder
  <2>4. QED
    BY <2>2, <2>3
<1>3. \A i \in D : rank[i] \in 0..(n - 1)
  <2> SUFFICES ASSUME NEW i \in D
               PROVE  rank[i] \in 0..(n - 1)
    OBVIOUS
  <2>1. Before(key, i) \subseteq D \ {i}
    BY DEF Before
  <2>2. IsFiniteSet(D \ {i}) /\ Cardinality(D \ {i}) = n - 1
    BY FS_RemoveElement
  <2>3. /\ IsFiniteSet(Before(key, i))
        /\ Cardinality(Before(key, i)) <= n - 1
    BY <2>1, <2>2, FS_Subset
  <2>4. Cardinality(Before(key, i)) \in Nat
    BY <2>3, FS_CardinalityType
  <2>5. QED
    BY <1>1, <2>3, <2>4
<1>4. rank \in Injection(D, 0..(n - 1))
  BY <1>2, <1>3 DEF Injection, IsInjective
<1>5. IsFiniteSet(0..(n - 1)) /\ Cardinality(0..(n - 1)) = n
  BY <1>1, FS_Interval
<1>6. rank \in Surjection(D, 0..(n - 1))
  BY <1>4, <1>5, FS_Injection
<1>7. ASSUME NEW c \in 1..n
      PROVE  Place(key, c) \in D /\ Cardinality(Before(key, Place(key, c))) = c - 1
  <2>1. c - 1 \in 0..(n - 1)
    BY <1>1
  <2>2. \E i \in D : rank[i] = c - 1
    BY <1>6, <2>1 DEF Surjection
  <2>3. DOMAIN key = D
    OBVIOUS
  <2>4. \E i \in DOMAIN key : Cardinality(Before(key, i)) = c - 1
    BY <2>2, <2>3
  <2>5. QED
    BY <2>3, <2>4 DEF Place
<1>8. QED
  BY <1>1, <1>2, <1>7

\* The contexts ctx of the registers at the places D are distinct and follow the
\* keys that these are ordered by.
Follows(D, key, ctx) ==
    /\ IsFiniteSet(D) /\ D \subseteq Nat /\ key \in [D -> Int] /\ ctx \in [D -> Int]
    /\ \A i, k \in D : ctx[i] = ctx[k] => i = k
    /\ \A i, k \in D : key[i] <= key[k] => ctx[i] <= ctx[k]

Below(D, ctx, i) == {x \in {ctx[k] : k \in D} : x < ctx[i]}

\* The rank of a register is then the number of contexts below its own.
LEMMA RankIsContexts ==
    ASSUME NEW D, NEW key, NEW ctx, Follows(D, key, ctx), NEW i \in D
    PROVE  Cardinality(Before(key, i)) = Cardinality(Below(D, ctx, i))
<1> USE DEF Follows
<1> DEFINE B == Before(key, i)
           X == Below(D, ctx, i)
           f == [j \in B |-> ctx[j]]
<1>1. \A j \in D : j \in B <=> ctx[j] < ctx[i]
  <2> SUFFICES ASSUME NEW j \in D
               PROVE  j \in B <=> ctx[j] < ctx[i]
    OBVIOUS
  <2>1. ctx[j] \in Int /\ ctx[i] \in Int /\ key[j] \in Int /\ key[i] \in Int
    OBVIOUS
  <2>2. j = i <=> ctx[j] = ctx[i]
    OBVIOUS
  <2>3. key[j] <= key[i] => ctx[j] <= ctx[i]
    OBVIOUS
  <2>4. key[i] <= key[j] => ctx[i] <= ctx[j]
    OBVIOUS
  <2>5. j \in B <=> (key[j] < key[i] \/ (key[j] = key[i] /\ j < i))
    BY DEF Before
  <2>6. QED
    BY <2>1, <2>2, <2>3, <2>4, <2>5
<1>2. B \subseteq D /\ IsFiniteSet(B)
  BY FS_Subset DEF Before
<1>3. f \in [B -> X]
  BY <1>1, <1>2 DEF Below
<1>4. f \in Injection(B, X)
  BY <1>2, <1>3 DEF Injection, IsInjective
<1>5. f \in Surjection(B, X)
  BY <1>1, <1>2, <1>3 DEF Surjection, Below
<1>6. ExistsBijection(B, X)
  BY <1>4, <1>5 DEF ExistsBijection, Bijection
<1>7. QED
  BY <1>2, <1>6, FS_Bijection

\* A context is known by the number of contexts below it.
LEMMA CountBelow ==
    ASSUME NEW C, IsFiniteSet(C), C \subseteq Int, NEW x \in C, NEW y \in C,
           Cardinality({z \in C : z < x}) = Cardinality({z \in C : z < y})
    PROVE  x = y
<1>1. ASSUME NEW a \in C, NEW b \in C, a < b,
             Cardinality({z \in C : z < a}) = Cardinality({z \in C : z < b})
      PROVE  FALSE
  <2> DEFINE A == {z \in C : z < a}
             B == {z \in C : z < b}
  <2>1. IsFiniteSet(B) /\ A \subseteq B
    <3>1. \A z \in C : z < a => z < b
      BY <1>1
    <3>2. QED
      BY <3>1, FS_Subset
  <2>2. A = B
    BY <1>1, <2>1, FS_Subset
  <2>3. a \in B /\ a \notin A
    BY <1>1
  <2>4. QED
    BY <2>2, <2>3
<1>2. ~ (x < y) /\ ~ (y < x)
  BY <1>1
<1>3. QED
  BY <1>2

Registers == [role : STRING, index : Nat, address : Nat,
              read_pulse : BOOLEAN, write_pulse : BOOLEAN]

LEMMA PlacesFacts ==
    ASSUME NEW regs \in Seq(Registers), NEW role
    PROVE  /\ IsFiniteSet(Places(regs, role))
           /\ Places(regs, role) \subseteq Nat
           /\ Address(regs, role) \in [Places(regs, role) -> Int]
           /\ \A i \in Places(regs, role) : /\ regs[i].role = role
                                            /\ regs[i].address \in Int
                                            /\ Address(regs, role)[i] = regs[i].address
<1>1. DOMAIN regs = 1..Len(regs) /\ Len(regs) \in Nat
  OBVIOUS
<1>2. IsFiniteSet(1..Len(regs))
  BY <1>1, FS_Interval
<1>3. Places(regs, role) \subseteq 1..Len(regs)
  BY <1>1 DEF Places
<1>4. \A i \in 1..Len(regs) : regs[i].address \in Int
  <2>1. \A i \in 1..Len(regs) : regs[i] \in Registers
    BY <1>1
  <2>2. \A r \in Registers : r.address \in Int
    BY DEF Registers
  <2>3. QED
    BY <2>1, <2>2
<1>5. QED
  BY <1>1, <1>2, <1>3, <1>4, FS_Subset DEF Places, Address

\* Within a kind the contexts follow the addresses.
LEMMA ContextFollowsAddress ==
    ASSUME NEW role \in ContextRoles, NEW r \in Registers, NEW q \in Registers,
           r.role = role, q.role = role
    PROVE  /\ ContextOf(r) \in Int /\ ContextOf(q) \in Int
           /\ r.address <= q.address => ContextOf(r) <= ContextOf(q)
<1>1. r.address \in Nat /\ q.address \in Nat
  BY DEF Registers
<1>2. CASE role = "enable"
  <2>1. /\ ContextOf(r) = (r.address - 8192) \div 128
        /\ ContextOf(q) = (q.address - 8192) \div 128
    BY <1>2 DEF ContextOf
  <2>2. QED
    BY <1>1, <2>1
<1>3. CASE role = "threshold"
  <2>1. /\ ContextOf(r) = (r.address - 2097152) \div 4096
        /\ ContextOf(q) = (q.address - 2097152) \div 4096
    BY <1>3 DEF ContextOf
  <2>2. QED
    BY <1>1, <2>1
<1>4. CASE role = "claim"
  <2>1. /\ ContextOf(r) = (r.address - 2097156) \div 4096
        /\ ContextOf(q) = (q.address - 2097156) \div 4096
    BY <1>4 DEF ContextOf
  <2>2. QED
    BY <1>1, <2>1
<1>5. QED
  BY <1>2, <1>3, <1>4 DEF ContextRoles

\* The c-th register of each kind belongs to the context with c - 1 below it.
LEMMA WiredContext ==
    ASSUME NEW regs \in Seq(Registers), OneOfEachPerContext(regs),
           NEW role \in ContextRoles
    PROVE  LET C == Contexts(regs, "claim")
               of == ByAddress(regs, role)
           IN /\ IsFiniteSet(C) /\ C \subseteq Int
              /\ DOMAIN of = 1..Cardinality(C)
              /\ \A c \in DOMAIN of :
                    /\ ContextOf(of[c]) \in C
                    /\ Cardinality({z \in C : z < ContextOf(of[c])}) = c - 1
<1> DEFINE D == Places(regs, role)
           C == Contexts(regs, "claim")
           of == ByAddress(regs, role)
           key == Address(regs, role)
           ctx == [i \in D |-> ContextOf(regs[i])]
<1>1. /\ IsFiniteSet(D) /\ D \subseteq Nat /\ key \in [D -> Int]
      /\ \A i \in D : regs[i].role = role /\ key[i] = regs[i].address
  BY PlacesFacts
<1>2. D \subseteq DOMAIN regs /\ \A i \in DOMAIN regs : regs[i] \in Registers
  BY DEF Places
<1>3. \A i, k \in D : /\ ContextOf(regs[i]) \in Int
                      /\ regs[i].address <= regs[k].address =>
                            ContextOf(regs[i]) <= ContextOf(regs[k])
  BY <1>1, <1>2, ContextFollowsAddress
<1>4. /\ ctx \in [D -> Int]
      /\ \A i, k \in D : key[i] <= key[k] => ctx[i] <= ctx[k]
  BY <1>1, <1>3
<1>5. \A i, k \in D : ctx[i] = ctx[k] => i = k
  BY DEF OneOfEachPerContext
<1>6. C = {ctx[k] : k \in D}
  <2>1. C = {ContextOf(regs[k]) : k \in D}
    BY DEF OneOfEachPerContext, Contexts
  <2>2. QED
    BY <2>1
<1>7. IsFiniteSet(C) /\ C \subseteq Int /\ Cardinality(C) = Cardinality(D)
  <2>1. ctx \in Injection(D, C) /\ ctx \in Surjection(D, C)
    BY <1>4, <1>5, <1>6 DEF Injection, IsInjective, Surjection
  <2>2. ExistsBijection(D, C)
    BY <2>1 DEF ExistsBijection, Bijection
  <2>3. QED
    BY <1>1, <1>4, <1>6, <2>2, FS_Bijection
<1>8. DOMAIN of = 1..Cardinality(C) /\ \A c \in DOMAIN of : of[c] = regs[Place(key, c)]
  BY <1>1, <1>7 DEF ByAddress, Sorted
<1> HIDE DEF ctx
<1>9. ASSUME NEW c \in DOMAIN of
      PROVE  ContextOf(of[c]) \in C /\ Cardinality({z \in C : z < ContextOf(of[c])}) = c - 1
  <2>1. Place(key, c) \in D /\ Cardinality(Before(key, Place(key, c))) = c - 1
    BY <1>1, <1>7, <1>8, RankFacts
  <2>2. ContextOf(of[c]) = ctx[Place(key, c)]
    BY <1>8, <2>1 DEF ctx
  <2>3. Follows(D, key, ctx)
    BY <1>1, <1>4, <1>5 DEF Follows
  <2>4. Below(D, ctx, Place(key, c)) = {z \in C : z < ContextOf(of[c])}
    BY <1>6, <2>2 DEF Below
  <2> HIDE DEF key, D
  <2>5. Cardinality(Before(key, Place(key, c))) = Cardinality(Below(D, ctx, Place(key, c)))
    BY <2>1, <2>3, RankIsContexts
  <2>6. QED
    BY <1>6, <2>1, <2>2, <2>4, <2>5
<1>10. QED
  BY <1>7, <1>8, <1>9

\* Whatever the order in which the registers of a PLIC are declared, the logic of
\* a context is wired to the enable, the threshold and the claim register of that
\* context (scan_plic).
THEOREM ContextsWired == ExpSpec => []ContextsPaired
<1>1. ExpInv => ContextsPaired
  <2> SUFFICES ASSUME ExpInv, job.design.kind = "plic",
                      OneOfEachPerContext(job.design.map),
                      NEW c \in DOMAIN ScanPlic(job.design.map).claims,
                      NEW i \in 1..3, NEW k \in 1..3
               PROVE  ContextOf(Context(ScanPlic(job.design.map), c)[i])
                        = ContextOf(Context(ScanPlic(job.design.map), c)[k])
    BY DEF ContextsPaired
  <2> DEFINE regs == job.design.map
             C == Contexts(regs, "claim")
             x(role) == ContextOf(ByAddress(regs, role)[c])
  <2>1. regs \in Seq(Registers)
    BY ExporterConstants DEF ExpInv, Shape, Jobs, Registers
  <2>2. /\ c \in DOMAIN ByAddress(regs, "claim")
        /\ Context(ScanPlic(regs), c)[1] = ByAddress(regs, "enable")[c]
        /\ Context(ScanPlic(regs), c)[2] = ByAddress(regs, "threshold")[c]
        /\ Context(ScanPlic(regs), c)[3] = ByAddress(regs, "claim")[c]
    BY DEF ScanPlic, Context
  <2> HIDE DEF regs
  <2>3. IsFiniteSet(C) /\ C \subseteq Int
    BY <2>1, WiredContext DEF ContextRoles, regs
  <2>4. \A role \in ContextRoles :
           x(role) \in C /\ Cardinality({z \in C : z < x(role)}) = c - 1
    <3>1. \A role \in ContextRoles : c \in DOMAIN ByAddress(regs, role)
      BY <2>1, <2>2, WiredContext DEF ContextRoles, regs
    <3>2. QED
      BY <2>1, <3>1, WiredContext DEF regs
  <2>5. x("enable") = x("claim") /\ x("threshold") = x("claim")
    BY <2>3, <2>4, CountBelow DEF ContextRoles
  <2>6. \A n \in 1..3 : ContextOf(Context(ScanPlic(regs), c)[n]) = x("claim")
    <3>1. \A n \in 1..3 : n = 1 \/ n = 2 \/ n = 3
      OBVIOUS
    <3>2. QED
      BY <2>2, <2>5, <3>1
  <2>7. QED
    BY <2>6 DEF regs
<1>2. QED
  BY <1>1, ExpInvAlways, PTL
==============================================================================
