----------------------------- MODULE Lifecycle -----------------------------
(***************************************************************************)
(* conduct_create, conduct_open, conduct_close and conduct_destroy of      *)
(* named conduits, by processes that share a directory: one action per     *)
(* system call another process can see.  Any call of conduct_create may    *)
(* fail on the way, any process may be killed at any time.  Names are such *)
(* that copyFileName accepts: shorter than 100 characters.                 *)
(*                                                                         *)
(* conduct.c unlinks the name before it creates the file (UnlinkFirst);    *)
(* concurrentconduct.c truncates the file it finds.                        *)
(***************************************************************************)
EXTENDS Integers

CONSTANTS
  Proc,
  Name,
  Inode,
  NoFile,
  Sizes,       \* sizes of a mapping: struct content and the buffer
  MayCreate,   \* MayCreate[p]: names under which p creates
  MayDestroy,  \* processes that destroy what they have open
  UnlinkFirst

ASSUME LifecycleAssumption ==
  /\ NoFile \notin Inode
  /\ Sizes \subseteq Nat \ {0}
  /\ MayCreate \in [Proc -> SUBSET Name]
  /\ MayDestroy \subseteq Proc
  /\ UnlinkFirst \in BOOLEAN

VARIABLES
  dir,      \* the file each name leads to
  size,     \* length of each file
  content,  \* state of the struct content in it
  stored,   \* its field size_mmap
  pc,       \* where each process is
  name,     \* fileName of its struct conduct
  ino,      \* the file behind its descriptor or mapping
  mapped,   \* length of its mapping
  size_mmap \* of its struct conduct

files == <<dir, size, content, stored>>
conds == <<name, ino, mapped, size_mmap>>
vars  == <<files, pc, conds>>

Creating == {"cOpen", "cStat", "cSize", "cMap", "cInit", "cSet"}
Opening  == {"oStat", "oMap", "oRead"}
Open     == {"created", "opened"}

Init ==
  /\ dir     = [n \in Name |-> NoFile]
  /\ size    = [i \in Inode |-> 0]
  /\ content = [i \in Inode |-> "zero"]
  /\ stored  = [i \in Inode |-> 0]
  /\ pc      = [p \in Proc |-> "idle"]
  /\ name    = [p \in Proc |-> NoFile]
  /\ ino     = [p \in Proc |-> NoFile]
  /\ mapped  = [p \in Proc |-> 0]
  /\ size_mmap = [p \in Proc |-> 0]

-----------------------------------------------------------------------------
Goto(p, to) == pc' = [pc EXCEPT ![p] = to]

\* free(cond): nothing is left of the conduit in p.
Freed(p) ==
  /\ Goto(p, "idle")
  /\ name'   = [name EXCEPT ![p] = NoFile]
  /\ ino'    = [ino EXCEPT ![p] = NoFile]
  /\ mapped' = [mapped EXCEPT ![p] = 0]
  /\ size_mmap' = [size_mmap EXCEPT ![p] = 0]

Unlinked(n) == [dir EXCEPT ![n] = NoFile]

\* clean_Conduct unlinks by name, whatever the name leads to by now.
UnlinkedAt(p, destroy) == IF destroy THEN Unlinked(name[p]) ELSE dir

\* clean_Conduct.
Clean(p, destroy) ==
  /\ dir' = UnlinkedAt(p, destroy)
  /\ content' = IF destroy /\ mapped[p] > 0
                THEN [content EXCEPT ![ino[p]] = "destroyed"] ELSE content
  /\ Freed(p)
  /\ UNCHANGED <<size, stored>>

InUse(i) == (\E n \in Name : dir[n] = i) \/ (\E p \in Proc : ino[p] = i)

-----------------------------------------------------------------------------
(* conduct_create                                                          *)

\* Mutant of BeforeOpen: the name is not unlinked.
NotUnlinked(n) == dir

BeforeOpen(n) == IF UnlinkFirst THEN Unlinked(n) ELSE dir

Create(p, n, s) ==
  /\ pc[p] = "idle"
  /\ n \in MayCreate[p]
  /\ name' = [name EXCEPT ![p] = n]
  /\ size_mmap' = [size_mmap EXCEPT ![p] = s]
  /\ dir' = BeforeOpen(n)
  /\ Goto(p, "cOpen")
  /\ UNCHANGED <<size, content, stored, ino, mapped>>

\* open with O_CREAT and O_TRUNC: a new file of length 0, or the file of that
\* name cut to length 0, its bytes gone for everybody.
CreateFile(p) ==
  /\ pc[p] = "cOpen"
  /\ \E i \in Inode :
       /\ i = dir[name[p]] \/ (dir[name[p]] = NoFile /\ ~InUse(i))
       /\ dir'     = [dir EXCEPT ![name[p]] = i]
       /\ ino'     = [ino EXCEPT ![p] = i]
       /\ size'    = [size EXCEPT ![i] = 0]
       /\ content' = [content EXCEPT ![i] = "zero"]
       /\ stored'  = [stored EXCEPT ![i] = 0]
  /\ Goto(p, "cStat")
  /\ UNCHANGED <<name, mapped, size_mmap>>

\* fstat: a file that is longer by now keeps its length.
StatNew(p) ==
  /\ pc[p] = "cStat"
  /\ Goto(p, IF size_mmap[p] >= size[ino[p]] THEN "cSize" ELSE "cMap")
  /\ UNCHANGED <<files, conds>>

\* ftruncate, to the length of the mapping.
SetSize(p) ==
  /\ pc[p] = "cSize"
  /\ size' = [size EXCEPT ![ino[p]] = size_mmap[p]]
  /\ Goto(p, "cMap")
  /\ UNCHANGED <<dir, content, stored, conds>>

MapNew(p) ==
  /\ pc[p] = "cMap"
  /\ mapped' = [mapped EXCEPT ![p] = size_mmap[p]]
  /\ Goto(p, "cInit")
  /\ UNCHANGED <<files, name, ino, size_mmap>>

InitContent(p) ==
  /\ pc[p] = "cInit"
  /\ content' = [content EXCEPT ![ino[p]] = "init"]
  /\ Goto(p, "cSet")
  /\ UNCHANGED <<dir, size, stored, conds>>

\* Mutant of SizeStored: the size of the buffer without struct content.
SizeWithoutContent(s) == s - 1

\* cont->size_mmap
SizeStored(s) == s

\* The fields are set under the mutex; conduct_create returns.
SetContent(p) ==
  /\ pc[p] = "cSet"
  /\ content' = [content EXCEPT ![ino[p]] = "ready"]
  /\ stored'  = [stored EXCEPT ![ino[p]] = SizeStored(size_mmap[p])]
  /\ Goto(p, "created")
  /\ UNCHANGED <<dir, size, conds>>

\* A system call, or the initialisation of mutex and conditions, fails.
CreateFails(p) == pc[p] \in Creating /\ Clean(p, TRUE)

-----------------------------------------------------------------------------
(* conduct_open, conduct_close, conduct_destroy                            *)

OpenFile(p, n) ==
  /\ pc[p] = "idle"
  /\ dir[n] # NoFile
  /\ name' = [name EXCEPT ![p] = n]
  /\ ino'  = [ino EXCEPT ![p] = dir[n]]
  /\ Goto(p, "oStat")
  /\ UNCHANGED <<files, mapped, size_mmap>>

Stat(p) ==
  /\ pc[p] = "oStat"
  /\ size_mmap' = [size_mmap EXCEPT ![p] = size[ino[p]]]
  /\ Goto(p, "oMap")
  /\ UNCHANGED <<files, name, ino, mapped>>

\* mmap refuses length 0, the length of a file that is still being created.
Map(p) ==
  /\ pc[p] = "oMap"
  /\ IF size_mmap[p] > 0
     THEN /\ mapped' = [mapped EXCEPT ![p] = size_mmap[p]]
          /\ Goto(p, "oRead")
          /\ UNCHANGED <<files, name, ino, size_mmap>>
     ELSE Clean(p, FALSE)

\* Under the mutex, which can be locked as soon as the file has bytes: zeros
\* are an unlocked mutex.
ReadSize(p) ==
  /\ pc[p] = "oRead"
  /\ size_mmap' = [size_mmap EXCEPT ![p] = stored[ino[p]]]
  /\ Goto(p, "opened")
  /\ UNCHANGED <<files, name, ino, mapped>>

\* A destroyed mutex may refuse to be locked.
LockFails(p) ==
  /\ pc[p] = "oRead"
  /\ content[ino[p]] = "destroyed"
  /\ Clean(p, FALSE)

\* munmap with length 0 fails, and the mapping stays for good.
Close(p)   == pc[p] \in Open /\ Clean(p, FALSE)
Destroy(p) == pc[p] \in Open /\ p \in MayDestroy /\ Clean(p, TRUE)

Killed(p) == pc[p] # "idle" /\ Freed(p) /\ UNCHANGED files

-----------------------------------------------------------------------------
CreateStep(p) ==
  \/ CreateFile(p) \/ StatNew(p) \/ SetSize(p) \/ MapNew(p)
  \/ InitContent(p) \/ SetContent(p)
OpenStep(p) == Stat(p) \/ Map(p) \/ ReadSize(p) \/ LockFails(p)

Next == \E p \in Proc :
  \/ \E n \in Name : OpenFile(p, n)
  \/ \E n \in Name, s \in Sizes : Create(p, n, s)
  \/ CreateStep(p) \/ CreateFails(p) \/ OpenStep(p)
  \/ Close(p) \/ Destroy(p) \/ Killed(p)

Spec == Init /\ [][Next]_vars

-----------------------------------------------------------------------------
(* Properties.                                                             *)

\* The regime of the theorems: conduct.c, and each name has one process that
\* creates under it.  Anybody may open and destroy.
OneCreator ==
  /\ UnlinkFirst
  /\ \A p, q \in Proc : p # q => MayCreate[p] \cap MayCreate[q] = {}

\* No access of a process to its conduit is an access behind the end of the
\* file, whoever creates the conduit anew or dies on the way.
MappingsInsideFiles ==
  \A p \in Proc : mapped[p] > 0 => mapped[p] <= size[ino[p]]

\* A created conduit keeps its name until a process that has it destroys it: in
\* between conduct_open finds it, as the child of conduct_torture.c:115-117
\* expects.
KeepsItsName ==
  [][\A p \in Proc :
       /\ pc[p] = "created" /\ pc'[p] = "created"
       /\ dir[name[p]] = ino[p] /\ dir'[name[p]] # ino[p]
       => \E q \in Proc : ino[q] = ino[p] /\ ino'[q] # ino[p]]_vars

\* The size conduct_open reads (`necessary for conduct_open function',
\* conduct.c:56) is what munmap needs, or 0 if conduct_create was not done.
SizeSeen ==
  \A p \in Proc : pc[p] \in Open => size_mmap[p] \in {0, mapped[p]}

\* A conduit that somebody has open is never initialised again: creating a
\* conduit of the same name leaves its users the old one.
NeverInitialisedAgain ==
  [][\A p \in Proc : pc[p] \in Open /\ content[ino[p]] = "ready"
                       => content'[ino[p]] \in {"ready", "destroyed"}]_vars
=============================================================================
