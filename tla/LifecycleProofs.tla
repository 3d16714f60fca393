-------------------------- MODULE LifecycleProofs --------------------------
(***************************************************************************)
(* In conduct.c, mappings stay inside their files, the size a conduit      *)
(* stores is that of its mappings, and no conduit in use is initialised    *)
(* again, for any number of processes, names, files and sizes, as long as  *)
(* no two processes create under one name.                                 *)
(***************************************************************************)
EXTENDS Lifecycle, TLAPS

States == {"idle"} \cup Creating \cup Opening \cup Open

Types ==
  /\ dir     \in [Name -> Inode \cup {NoFile}]
  /\ size    \in [Inode -> Nat]
  /\ content \in [Inode -> {"zero", "init", "ready", "destroyed"}]
  /\ stored  \in [Inode -> Nat]
  /\ pc      \in [Proc -> States]
  /\ name    \in [Proc -> Name \cup {NoFile}]
  /\ ino     \in [Proc -> Inode \cup {NoFile}]
  /\ mapped  \in [Proc -> Nat]
  /\ size_mmap \in [Proc -> Nat]

\* What p knows of its file at each place.
Place(p) ==
  /\ pc[p] \in {"idle", "cOpen", "cStat", "cSize", "cMap", "oStat", "oMap"} => mapped[p] = 0
  /\ pc[p] \in {"cInit", "cSet", "oRead"} => mapped[p] > 0
  /\ pc[p] \notin {"idle", "cOpen"} => ino[p] \in Inode
  /\ pc[p] = "cOpen" => name[p] \in MayCreate[p] /\ dir[name[p]] = NoFile
  /\ pc[p] \in {"cOpen", "cStat", "cSize", "cMap"} => size_mmap[p] > 0
  /\ pc[p] \in {"cStat", "cSize"} => size[ino[p]] = 0
  /\ pc[p] = "cMap"  => size_mmap[p] = size[ino[p]]
  /\ pc[p] \in {"cInit", "cSet"} => size_mmap[p] = mapped[p]
  /\ pc[p] \in {"cStat", "cSize", "cMap", "cInit"} => content[ino[p]] # "ready"
  /\ pc[p] = "oMap" => size_mmap[p] \in {0, size[ino[p]]}
  /\ pc[p] \in Open => size_mmap[p] \in {0, mapped[p]}
  /\ mapped[p] > 0 => mapped[p] = size[ino[p]]

\* A file under creation has one creator.
Created(p) == pc[p] \in {"cStat", "cSize", "cMap", "cInit", "cSet"}

IInv ==
  /\ Types
  /\ \A p \in Proc : Place(p)
  /\ \A p, q \in Proc : p # q /\ Created(p) /\ Created(q) => ino[p] # ino[q]
  /\ \A i \in Inode : stored[i] \in {0, size[i]}

-----------------------------------------------------------------------------
\* The processes but q keep what they have.
OthersKeep(q) ==
  \A p \in Proc \ {q} :
    /\ pc'[p] = pc[p] /\ name'[p] = name[p] /\ ino'[p] = ino[p]
    /\ mapped'[p] = mapped[p] /\ size_mmap'[p] = size_mmap[p]

\* A process whose file and name others leave alone knows what it knew.
LEMMA PlaceKept ==
  ASSUME LifecycleAssumption, Types, NEW q \in Proc, OthersKeep(q),
         NEW p \in Proc, p # q, Place(p),
         pc[p] = "cOpen" => dir'[name[p]] = NoFile,
         pc[p] \notin {"idle", "cOpen"} =>
           /\ size'[ino[p]] = size[ino[p]]
           /\ content[ino[p]] # "ready" /\ Created(p) => content'[ino[p]] # "ready"
  PROVE  Place(p)'
<1>1. /\ pc'[p] = pc[p] /\ name'[p] = name[p] /\ ino'[p] = ino[p]
      /\ mapped'[p] = mapped[p] /\ size_mmap'[p] = size_mmap[p]
  BY DEF OthersKeep
<1>2. mapped[p] > 0 => pc[p] \notin {"idle", "cOpen"}
  BY DEF Place, Types
<1>. QED  BY <1>1, <1>2 DEF Place, Created, Open

\* A step of q that changes no file, but for unlinked names and what
\* initialisation and destruction leave in struct content.
LEMMA LocalStep ==
  ASSUME LifecycleAssumption, IInv, Types', NEW q \in Proc, OthersKeep(q), Place(q)',
         UNCHANGED <<size, stored>>,
         \A n \in Name : dir'[n] \in {dir[n], NoFile},
         \A i \in Inode : content'[i] \in {content[i], "init", "destroyed"},
         Created(q)' => Created(q) /\ ino'[q] = ino[q]
  PROVE  IInv'
<1>1. ASSUME NEW p \in Proc PROVE Place(p)'
  <2>1. CASE p = q  BY <2>1
  <2>2. CASE p # q
    <3>1. Place(p) /\ Types  BY DEF IInv
    <3>2. pc[p] = "cOpen" => dir'[name[p]] = NoFile
      BY <3>1 DEF Place, LifecycleAssumption
    <3>3. pc[p] \notin {"idle", "cOpen"} =>
            /\ size'[ino[p]] = size[ino[p]]
            /\ content[ino[p]] # "ready" /\ Created(p) => content'[ino[p]] # "ready"
      BY <3>1 DEF Place
    <3>. QED  BY <2>2, <3>1, <3>2, <3>3, PlaceKept
  <2>. QED  BY <2>1, <2>2
<1>2. ASSUME NEW p \in Proc, NEW r \in Proc, p # r, Created(p)', Created(r)'
      PROVE  ino'[p] # ino'[r]
  <2>1. /\ Created(p) /\ ino'[p] = ino[p]
        /\ Created(r) /\ ino'[r] = ino[r]
    BY <1>2 DEF OthersKeep, Created
  <2>. QED  BY <1>2, <2>1 DEF IInv
<1>3. \A i \in Inode : stored'[i] \in {0, size'[i]}  BY DEF IInv
<1>. QED  BY <1>1, <1>2, <1>3 DEF IInv

\* clean_Conduct.
LEMMA CleanInv ==
  ASSUME LifecycleAssumption, IInv, NEW q \in Proc, NEW destroy \in BOOLEAN,
         Clean(q, destroy)
  PROVE  IInv'
<1>. USE DEF LifecycleAssumption
<1>1. Types /\ Place(q)  BY DEF IInv
<1>2. /\ pc' = [pc EXCEPT ![q] = "idle"]
      /\ name' = [name EXCEPT ![q] = NoFile] /\ ino' = [ino EXCEPT ![q] = NoFile]
      /\ mapped' = [mapped EXCEPT ![q] = 0] /\ size_mmap' = [size_mmap EXCEPT ![q] = 0]
      /\ UNCHANGED <<size, stored>>
  BY DEF Clean, Freed, Goto
<1>3. /\ dir' \in [Name -> Inode \cup {NoFile}]
      /\ \A n \in Name : dir'[n] \in {dir[n], NoFile}
  BY <1>1 DEF Clean, UnlinkedAt, Unlinked, Types
<1>4. /\ content' \in [Inode -> {"zero", "init", "ready", "destroyed"}]
      /\ \A i \in Inode : content'[i] \in {content[i], "init", "destroyed"}
  BY <1>1 DEF Clean, Types
<1>5. Types'  BY <1>1, <1>2, <1>3, <1>4 DEF Types, States
<1>6. OthersKeep(q)  BY <1>1, <1>2 DEF Types, OthersKeep
<1>7. pc'[q] = "idle" /\ mapped'[q] = 0  BY <1>1, <1>2 DEF Types
<1>8. Place(q)' /\ ~Created(q)'  BY <1>7 DEF Place, Created, Open
<1>. QED  BY <1>2, <1>3, <1>4, <1>5, <1>6, <1>8, LocalStep

\* The other steps of q alone, that leave the length of all files.
LEMMA LocalInv ==
  ASSUME LifecycleAssumption, OneCreator, IInv, NEW q \in Proc,
         \/ \E n \in Name, s \in Sizes : Create(q, n, s)
         \/ \E n \in Name : OpenFile(q, n)
         \/ StatNew(q) \/ MapNew(q) \/ InitContent(q) \/ Stat(q) \/ ReadSize(q)
         \/ Map(q) /\ size_mmap[q] > 0
         \/ Killed(q)
  PROVE  IInv'
<1>. USE DEF LifecycleAssumption
<1>1. Types /\ Place(q)  BY DEF IInv
<1>2. ASSUME NEW n \in Name, NEW s \in Sizes, Create(q, n, s) PROVE IInv'
  <2>1. Types'
    BY <1>1, <1>2 DEF Create, Goto, Types, States, Creating, BeforeOpen, Unlinked
  <2>2. OthersKeep(q) /\ UNCHANGED <<size, stored, content>>
    BY <1>1, <1>2 DEF Create, Goto, Types, OthersKeep
  <2>3. \A m \in Name : dir'[m] \in {dir[m], NoFile}
    BY <1>1, <1>2 DEF Create, BeforeOpen, Unlinked, Types
  <2>4. /\ pc'[q] = "cOpen" /\ mapped'[q] = 0 /\ name'[q] = n /\ size_mmap'[q] = s
        /\ n \in MayCreate[q] /\ dir'[n] = NoFile
    BY <1>1, <1>2 DEF Create, Goto, Types, Place, OneCreator, BeforeOpen, Unlinked
  <2>5. s > 0  OBVIOUS
  <2>6. Place(q)' /\ ~Created(q)'  BY <2>4, <2>5 DEF Place, Created, Open
  <2>. QED  BY <2>1, <2>2, <2>3, <2>6, LocalStep
<1>3. ASSUME NEW n \in Name, OpenFile(q, n) PROVE IInv'
  <2>1. Types' /\ OthersKeep(q) /\ UNCHANGED files
    BY <1>1, <1>3 DEF OpenFile, Goto, Types, States, Opening, OthersKeep, files
  <2>2. pc'[q] = "oStat" /\ mapped'[q] = 0 /\ ino'[q] \in Inode
    BY <1>1, <1>3 DEF OpenFile, Goto, Types, Place
  <2>3. Place(q)' /\ ~Created(q)'  BY <2>2 DEF Place, Created, Open
  <2>. QED  BY <2>1, <2>3, LocalStep DEF files
<1>4. CASE MapNew(q)
  <2>1. Types' /\ OthersKeep(q) /\ UNCHANGED files /\ ino' = ino
    BY <1>1, <1>4 DEF MapNew, Goto, Types, States, Creating, OthersKeep, files
  <2>2. /\ pc[q] = "cMap" /\ pc'[q] = "cInit" /\ mapped'[q] = size_mmap[q]
        /\ size_mmap' = size_mmap
    BY <1>1, <1>4 DEF MapNew, Goto, Types
  <2>3. Place(q)'  BY <1>1, <2>1, <2>2 DEF Place, Open, files
  <2>4. Created(q)  BY <2>2 DEF Created
  <2>. QED  BY <2>1, <2>3, <2>4, LocalStep DEF files
<1>10. CASE StatNew(q)
  <2>a. size_mmap[q] \in Nat /\ size_mmap[q] > 0 /\ size[ino[q]] = 0 /\ pc[q] = "cStat"
    BY <1>1, <1>10 DEF StatNew, Types, Place
  <2>b. size_mmap[q] >= size[ino[q]]  BY <2>a
  <2>1. /\ pc[q] = "cStat" /\ pc'[q] = "cSize"
        /\ pc' = [pc EXCEPT ![q] = "cSize"] /\ UNCHANGED <<files, conds>>
    BY <1>1, <1>10, <2>a, <2>b DEF StatNew, Goto, Types
  <2>2. Types' /\ OthersKeep(q)
    BY <1>1, <2>1 DEF Types, States, Creating, OthersKeep, files, conds
  <2>3. Place(q)'  BY <1>1, <2>1 DEF Place, Open, files, conds
  <2>4. Created(q)  BY <2>1 DEF Created
  <2>. QED  BY <2>1, <2>2, <2>3, <2>4, LocalStep DEF files, conds
<1>5. CASE InitContent(q)
  <2>1. Types' /\ OthersKeep(q) /\ UNCHANGED <<dir, size, stored, conds>>
    BY <1>1, <1>5 DEF InitContent, Goto, Types, States, Creating, OthersKeep, conds
  <2>2. /\ pc[q] = "cInit" /\ pc'[q] = "cSet"
        /\ \A i \in Inode : content'[i] \in {content[i], "init"}
    BY <1>1, <1>5 DEF InitContent, Goto, Types
  <2>3. Place(q)'  BY <1>1, <2>1, <2>2 DEF Place, Open, conds
  <2>4. Created(q)  BY <2>2 DEF Created
  <2>. QED  BY <2>1, <2>2, <2>3, <2>4, LocalStep DEF conds
<1>6. CASE Stat(q)
  <2>1. Types' /\ OthersKeep(q) /\ UNCHANGED files
    BY <1>1, <1>6 DEF Stat, Goto, Types, States, Opening, OthersKeep, files, Place
  <2>2. /\ pc[q] = "oStat" /\ pc'[q] = "oMap" /\ size_mmap'[q] = size[ino[q]]
        /\ ino' = ino /\ mapped' = mapped
    BY <1>1, <1>6 DEF Stat, Goto, Types
  <2>3. Place(q)' /\ ~Created(q)'  BY <1>1, <2>1, <2>2 DEF Place, Created, Open, files
  <2>. QED  BY <2>1, <2>3, LocalStep DEF files
<1>7. CASE ReadSize(q)
  <2>1. Types' /\ OthersKeep(q) /\ UNCHANGED files
    BY <1>1, <1>7 DEF ReadSize, Goto, Types, States, Open, OthersKeep, files, Place
  <2>2. /\ pc[q] = "oRead" /\ pc'[q] = "opened" /\ size_mmap'[q] = stored[ino[q]]
        /\ ino' = ino /\ mapped' = mapped
    BY <1>1, <1>7 DEF ReadSize, Goto, Types
  <2>3. /\ ino[q] \in Inode /\ mapped[q] > 0 /\ mapped[q] = size[ino[q]]
        /\ stored[ino[q]] \in {0, mapped[q]}
    BY <1>1, <2>2 DEF Place, IInv
  <2>4. Place(q)' /\ ~Created(q)'
    BY <2>1, <2>2, <2>3 DEF Place, Created, Open, files
  <2>. QED  BY <2>1, <2>4, LocalStep DEF files
<1>8. CASE Map(q) /\ size_mmap[q] > 0
  <2>1. Types' /\ OthersKeep(q) /\ UNCHANGED files
    BY <1>1, <1>8 DEF Map, Goto, Types, States, Opening, OthersKeep, files
  <2>2. /\ pc[q] = "oMap" /\ pc'[q] = "oRead" /\ mapped'[q] = size_mmap[q]
        /\ ino' = ino /\ size_mmap' = size_mmap
    BY <1>1, <1>8 DEF Map, Goto, Types
  <2>3. Place(q)' /\ ~Created(q)'
    BY <1>1, <1>8, <2>1, <2>2 DEF Place, Created, Open, files
  <2>. QED  BY <2>1, <2>3, LocalStep DEF files
<1>9. CASE Killed(q)
  <2>1. Types' /\ OthersKeep(q) /\ UNCHANGED files
    BY <1>1, <1>9 DEF Killed, Freed, Goto, Types, States, OthersKeep, files
  <2>2. pc'[q] = "idle" /\ mapped'[q] = 0
    BY <1>1, <1>9 DEF Killed, Freed, Goto, Types
  <2>3. Place(q)' /\ ~Created(q)'  BY <2>2 DEF Place, Created, Open
  <2>. QED  BY <2>1, <2>3, LocalStep DEF files
<1>. QED  BY <1>2, <1>3, <1>4, <1>5, <1>6, <1>7, <1>8, <1>9, <1>10

\* A new file is nobody else's: its name led nowhere, since only q creates
\* under it and unlinked it.
LEMMA CreateFileInv ==
  ASSUME LifecycleAssumption, OneCreator, IInv, NEW q \in Proc, CreateFile(q)
  PROVE  IInv'
<1>. USE DEF LifecycleAssumption
<1>1. Types /\ Place(q)  BY DEF IInv
<1>2. /\ pc[q] = "cOpen" /\ name[q] \in MayCreate[q] /\ name[q] \in Name
      /\ dir[name[q]] = NoFile
  BY <1>1 DEF CreateFile, Place
<1>3. PICK i \in Inode :
        /\ ~InUse(i)
        /\ dir'     = [dir EXCEPT ![name[q]] = i]
        /\ ino'     = [ino EXCEPT ![q] = i]
        /\ size'    = [size EXCEPT ![i] = 0]
        /\ content' = [content EXCEPT ![i] = "zero"]
        /\ stored'  = [stored EXCEPT ![i] = 0]
  BY <1>2 DEF CreateFile
<1>4. pc' = [pc EXCEPT ![q] = "cStat"] /\ UNCHANGED <<name, mapped, size_mmap>>
  BY DEF CreateFile, Goto
<1>5. Types'  BY <1>1, <1>2, <1>3, <1>4 DEF Types, States, Creating
<1>6. OthersKeep(q)  BY <1>1, <1>3, <1>4 DEF Types, OthersKeep
<1>7. \A p \in Proc : ino[p] # i  BY <1>3 DEF InUse
<1>8. Place(q)'  BY <1>1, <1>2, <1>3, <1>4 DEF Place, Types, Open
<1>9. ASSUME NEW p \in Proc, p # q PROVE Place(p)'
  <2>1. Place(p)  BY DEF IInv
  <2>2. pc[p] = "cOpen" => dir'[name[p]] = NoFile
    <3>. SUFFICES ASSUME pc[p] = "cOpen" PROVE dir'[name[p]] = NoFile  OBVIOUS
    <3>1. name[p] \in MayCreate[p] /\ name[p] \in Name /\ dir[name[p]] = NoFile
      BY <2>1 DEF Place
    <3>2. name[p] # name[q]  BY <1>2, <1>9, <3>1 DEF OneCreator
    <3>. QED  BY <1>1, <1>3, <3>1, <3>2 DEF Types
  <2>3. pc[p] \notin {"idle", "cOpen"} =>
          /\ size'[ino[p]] = size[ino[p]]
          /\ content[ino[p]] # "ready" /\ Created(p) => content'[ino[p]] # "ready"
    BY <1>1, <1>3, <1>7, <2>1 DEF Types, Place
  <2>. QED  BY <1>1, <1>6, <1>9, <2>1, <2>2, <2>3, PlaceKept
<1>10. ASSUME NEW p \in Proc, NEW r \in Proc, p # r, Created(p)', Created(r)'
       PROVE  ino'[p] # ino'[r]
  <2>1. \A x \in Proc \ {q} : ino'[x] = ino[x] /\ (Created(x)' <=> Created(x))
    BY <1>6 DEF OthersKeep, Created
  <2>2. ino'[q] = i  BY <1>1, <1>3 DEF Types
  <2>3. CASE p = q  BY <1>7, <1>10, <2>1, <2>2, <2>3
  <2>4. CASE r = q  BY <1>7, <1>10, <2>1, <2>2, <2>4
  <2>5. CASE p # q /\ r # q  BY <1>10, <2>1, <2>5 DEF IInv
  <2>. QED  BY <2>3, <2>4, <2>5
<1>11. \A j \in Inode : stored'[j] \in {0, size'[j]}  BY <1>1, <1>3 DEF Types, IInv
<1>. QED  BY <1>5, <1>8, <1>9, <1>10, <1>11 DEF IInv

\* Nobody else has more of the file than its length, 0.
LEMMA SetSizeInv ==
  ASSUME LifecycleAssumption, IInv, NEW q \in Proc, SetSize(q)
  PROVE  IInv'
<1>. USE DEF LifecycleAssumption
<1>1. Types /\ Place(q)  BY DEF IInv
<1>2. /\ pc[q] = "cSize" /\ ino[q] \in Inode /\ size[ino[q]] = 0
      /\ size_mmap[q] \in Nat /\ size_mmap[q] > 0 /\ mapped[q] = 0
      /\ content[ino[q]] # "ready"
  BY <1>1 DEF SetSize, Place, Types
<1>3. /\ size' = [size EXCEPT ![ino[q]] = size_mmap[q]]
      /\ pc' = [pc EXCEPT ![q] = "cMap"]
      /\ UNCHANGED <<dir, content, stored, name, ino, mapped, size_mmap>>
  BY <1>2 DEF SetSize, Goto, conds
<1>4. Types' /\ OthersKeep(q)
  BY <1>1, <1>2, <1>3 DEF Types, States, Creating, OthersKeep
<1>5. Place(q)'  BY <1>1, <1>2, <1>3 DEF Types, Place, Open
<1>6. ASSUME NEW p \in Proc, p # q PROVE Place(p)'
  <2>1. Place(p)  BY DEF IInv
  <2>2. /\ pc'[p] = pc[p] /\ name'[p] = name[p] /\ ino'[p] = ino[p]
        /\ mapped'[p] = mapped[p] /\ size_mmap'[p] = size_mmap[p]
        /\ content' = content /\ dir' = dir
    BY <1>3, <1>4, <1>6 DEF OthersKeep
  <2>3. CASE pc[p] \notin {"idle", "cOpen"} /\ ino[p] = ino[q]
    <3>1. ~Created(p)  BY <1>2, <1>6, <2>3 DEF IInv, Created
    <3>2. mapped[p] = 0  BY <1>1, <1>2, <2>1, <2>3 DEF Place, Types
    <3>3. pc[p] = "oMap" => size_mmap[p] = 0  BY <1>2, <2>1, <2>3 DEF Place
    <3>. QED  BY <2>1, <2>2, <2>3, <3>1, <3>2, <3>3 DEF Place, Created, Open
  <2>4. CASE pc[p] \in {"idle", "cOpen"} \/ ino[p] # ino[q]
    <3>1. pc[p] \notin {"idle", "cOpen"} => size'[ino[p]] = size[ino[p]]
      BY <1>1, <1>2, <1>3, <2>1, <2>4 DEF Types, Place
    <3>2. pc[p] = "cOpen" => dir'[name[p]] = NoFile  BY <2>1, <2>2 DEF Place
    <3>. QED  BY <1>1, <1>4, <1>6, <2>1, <2>2, <3>1, <3>2, PlaceKept
  <2>. QED  BY <2>3, <2>4
<1>7. ASSUME NEW p \in Proc, NEW r \in Proc, p # r, Created(p)', Created(r)'
      PROVE  ino'[p] # ino'[r]
  <2>1. Created(p) /\ Created(r)
    BY <1>1, <1>2, <1>3, <1>7 DEF Types, Created
  <2>. QED  BY <1>3, <1>7, <2>1 DEF IInv
<1>8. \A i \in Inode : stored'[i] \in {0, size'[i]}
  <2>1. stored[ino[q]] = 0  BY <1>2 DEF IInv
  <2>. QED  BY <1>1, <1>2, <1>3, <2>1 DEF Types, IInv
<1>. QED  BY <1>4, <1>5, <1>6, <1>7, <1>8 DEF IInv

\* The creator stores the length of the file, and is the only one there.
LEMMA SetContentInv ==
  ASSUME LifecycleAssumption, IInv, NEW q \in Proc, SetContent(q)
  PROVE  IInv'
<1>. USE DEF LifecycleAssumption
<1>1. Types /\ Place(q)  BY DEF IInv
<1>2. /\ pc[q] = "cSet" /\ ino[q] \in Inode /\ mapped[q] > 0
      /\ size_mmap[q] = mapped[q] /\ mapped[q] = size[ino[q]]
  BY <1>1 DEF SetContent, Place
<1>3. /\ content' = [content EXCEPT ![ino[q]] = "ready"]
      /\ stored' = [stored EXCEPT ![ino[q]] = size_mmap[q]]
      /\ pc' = [pc EXCEPT ![q] = "created"]
      /\ UNCHANGED <<dir, size, name, ino, mapped, size_mmap>>
  BY DEF SetContent, SizeStored, Goto, conds
<1>4. Types' /\ OthersKeep(q)
  BY <1>1, <1>2, <1>3 DEF Types, States, Open, OthersKeep
<1>5. Place(q)'  BY <1>1, <1>2, <1>3 DEF Types, Place, Open
<1>6. ASSUME NEW p \in Proc, p # q PROVE Place(p)'
  <2>1. Place(p)  BY DEF IInv
  <2>2. Created(p) => ino[p] # ino[q]  BY <1>2, <1>6 DEF IInv, Created
  <2>3. pc[p] \notin {"idle", "cOpen"} =>
          /\ size'[ino[p]] = size[ino[p]]
          /\ content[ino[p]] # "ready" /\ Created(p) => content'[ino[p]] # "ready"
    BY <1>1, <1>3, <2>1, <2>2 DEF Types, Place
  <2>4. pc[p] = "cOpen" => dir'[name[p]] = NoFile  BY <1>3, <2>1 DEF Place
  <2>. QED  BY <1>1, <1>4, <1>6, <2>1, <2>3, <2>4, PlaceKept
<1>7. ASSUME NEW p \in Proc, NEW r \in Proc, p # r, Created(p)', Created(r)'
      PROVE  ino'[p] # ino'[r]
  <2>1. Created(p) /\ Created(r)
    BY <1>1, <1>2, <1>3, <1>7 DEF Types, Created
  <2>. QED  BY <1>3, <1>7, <2>1 DEF IInv
<1>8. \A i \in Inode : stored'[i] \in {0, size'[i]}
  BY <1>1, <1>2, <1>3 DEF Types, IInv
<1>. QED  BY <1>4, <1>5, <1>6, <1>7, <1>8 DEF IInv

-----------------------------------------------------------------------------
LEMMA InitInv == ASSUME LifecycleAssumption PROVE Init => IInv
<1>. SUFFICES ASSUME Init PROVE IInv  OBVIOUS
<1>1. Types  BY DEF Init, Types, States
<1>2. \A p \in Proc : pc[p] = "idle" /\ mapped[p] = 0  BY DEF Init
<1>4. ASSUME NEW p \in Proc PROVE Place(p) /\ ~Created(p)
  <2>1. pc[p] = "idle" /\ mapped[p] = 0 /\ ~(mapped[p] > 0)  BY <1>2
  <2>. QED  BY <2>1 DEF Place, Created, Open
<1>3. \A i \in Inode : stored[i] \in {0, size[i]}  BY DEF Init
<1>. QED  BY <1>1, <1>3, <1>4 DEF IInv

LEMMA StutterInv == ASSUME IInv, UNCHANGED vars PROVE IInv'
<1>. USE DEF vars, files, conds
<1>1. Types'  BY DEF IInv, Types
<1>2. \A p \in Proc : Place(p)' /\ (Created(p)' <=> Created(p))
  BY DEF IInv, Place, Created
<1>. QED  BY <1>1, <1>2 DEF IInv

\* The ways of a process to be rid of its conduit.
LEMMA Cleans ==
  ASSUME NEW q \in Proc,
         \/ CreateFails(q) \/ LockFails(q) \/ Close(q) \/ Destroy(q)
         \/ Map(q) /\ ~(size_mmap[q] > 0)
  PROVE  \E destroy \in BOOLEAN : Clean(q, destroy)
<1>. QED  BY DEF CreateFails, LockFails, Close, Destroy, Map

LEMMA NextInv ==
  ASSUME LifecycleAssumption, OneCreator
  PROVE  IInv /\ [Next]_vars => IInv'
<1>. SUFFICES ASSUME IInv, [Next]_vars PROVE IInv'  OBVIOUS
<1>1. CASE UNCHANGED vars  BY <1>1, StutterInv
<1>2. CASE Next
  <2>1. PICK q \in Proc :
          \/ \E n \in Name : OpenFile(q, n)
          \/ \E n \in Name, s \in Sizes : Create(q, n, s)
          \/ CreateStep(q) \/ CreateFails(q) \/ OpenStep(q)
          \/ Close(q) \/ Destroy(q) \/ Killed(q)
    BY <1>2 DEF Next
  <2>3. CASE \/ \E n \in Name, s \in Sizes : Create(q, n, s)
             \/ \E n \in Name : OpenFile(q, n)
             \/ StatNew(q) \/ MapNew(q) \/ InitContent(q) \/ Stat(q) \/ ReadSize(q)
             \/ Map(q) /\ size_mmap[q] > 0
             \/ Killed(q)
    BY <2>3, LocalInv
  <2>4. CASE CreateFile(q)  BY <2>4, CreateFileInv
  <2>5. CASE SetSize(q)  BY <2>5, SetSizeInv
  <2>6. CASE SetContent(q)  BY <2>6, SetContentInv
  <2>7. CASE \/ CreateFails(q) \/ LockFails(q) \/ Close(q) \/ Destroy(q)
             \/ Map(q) /\ ~(size_mmap[q] > 0)
    <3>1. PICK destroy \in BOOLEAN : Clean(q, destroy)  BY <2>7, Cleans
    <3>. QED  BY <3>1, CleanInv
  <2>. QED  BY <2>1, <2>3, <2>4, <2>5, <2>6, <2>7 DEF CreateStep, OpenStep
<1>. QED  BY <1>1, <1>2

\* The inductive invariant: what each process knows of its file, one creator
\* for each file under creation, and the size stored in each file.
THEOREM LifecycleInvariant == ASSUME OneCreator PROVE Spec => []IInv
<1>1. Init => IInv  BY InitInv, LifecycleAssumption
<1>2. IInv /\ [Next]_vars => IInv'  BY NextInv, LifecycleAssumption
<1>. QED  BY <1>1, <1>2, PTL DEF Spec

\* With conduct.c's unlink before the open, no process ever has a mapping that
\* is longer than its file, whoever creates, destroys or dies.
THEOREM NoAccessBehindTheFile == ASSUME OneCreator PROVE Spec => []MappingsInsideFiles
<1>1. IInv => MappingsInsideFiles
  <2>. SUFFICES ASSUME IInv, NEW p \in Proc, mapped[p] > 0 PROVE mapped[p] <= size[ino[p]]
    BY DEF MappingsInsideFiles
  <2>1. mapped[p] \in Nat /\ mapped[p] = size[ino[p]]  BY DEF IInv, Types, Place
  <2>. QED  BY <2>1
<1>. QED  BY <1>1, LifecycleInvariant, PTL

\* What conduct_open reads from the file is the length of its mapping, or 0
\* from a conduit that is not finished.
THEOREM SizeIsOfTheMapping == ASSUME OneCreator PROVE Spec => []SizeSeen
<1>1. IInv => SizeSeen  BY DEF IInv, Place, SizeSeen
<1>. QED  BY <1>1, LifecycleInvariant, PTL

\* Creating, closing, destroying and dying never make a conduit in use new.
THEOREM UsersKeepTheirConduit == ASSUME OneCreator PROVE Spec => NeverInitialisedAgain
<1>1. ASSUME IInv, Next, NEW p \in Proc, pc[p] \in Open, content[ino[p]] = "ready"
      PROVE  content'[ino[p]] \in {"ready", "destroyed"}
  <2>. DEFINE i == ino[p]
  <2>1. i \in Inode /\ Types  BY <1>1 DEF IInv, Place, Open
  <2>2. InUse(i)  BY DEF InUse
  <2>3. PICK q \in Proc :
          \/ \E n \in Name : OpenFile(q, n)
          \/ \E n \in Name, s \in Sizes : Create(q, n, s)
          \/ CreateStep(q) \/ CreateFails(q) \/ OpenStep(q)
          \/ Close(q) \/ Destroy(q) \/ Killed(q)
    BY <1>1 DEF Next
  <2>4. Place(q)  BY <1>1 DEF IInv
  <2>5. CASE CreateFile(q)
    <3>1. PICK j \in Inode : /\ j = dir[name[q]] \/ (dir[name[q]] = NoFile /\ ~InUse(j))
                            /\ content' = [content EXCEPT ![j] = "zero"]
      BY <2>5 DEF CreateFile
    <3>2. dir[name[q]] = NoFile  BY <2>4, <2>5 DEF CreateFile, Place
    <3>3. j # i  BY <2>2, <3>1, <3>2, LifecycleAssumption DEF LifecycleAssumption
    <3>. QED  BY <1>1, <2>1, <3>1, <3>3 DEF Types
  <2>6. CASE InitContent(q)
    <3>1. content[ino[q]] # "ready"  BY <2>4, <2>6 DEF InitContent, Place
    <3>. QED  BY <1>1, <2>1, <2>6, <3>1 DEF InitContent, Types
  <2>7. CASE SetContent(q)  BY <1>1, <2>1, <2>7 DEF SetContent, Types
  <2>8. CASE \/ CreateFails(q) \/ LockFails(q) \/ Close(q) \/ Destroy(q)
             \/ Map(q) /\ ~(size_mmap[q] > 0)
    <3>1. PICK destroy \in BOOLEAN : Clean(q, destroy)  BY <2>8, Cleans
    <3>. QED  BY <1>1, <2>1, <3>1 DEF Clean, Types
  <2>9. CASE \/ \E n \in Name : OpenFile(q, n)
             \/ \E n \in Name, s \in Sizes : Create(q, n, s)
             \/ StatNew(q) \/ SetSize(q) \/ MapNew(q)
             \/ Stat(q) \/ ReadSize(q) \/ Killed(q)
             \/ Map(q) /\ size_mmap[q] > 0
    <3>1. UNCHANGED content
      BY <2>9 DEF OpenFile, Create, StatNew, SetSize, MapNew, Stat, ReadSize,
                  Killed, Map, files
    <3>. QED  BY <1>1, <3>1
  <2>. QED  BY <2>3, <2>5, <2>6, <2>7, <2>8, <2>9 DEF CreateStep, OpenStep
<1>2. IInv /\ [Next]_vars =>
        [\A p \in Proc : pc[p] \in Open /\ content[ino[p]] = "ready"
                           => content'[ino[p]] \in {"ready", "destroyed"}]_vars
  BY <1>1
<1>. QED  BY <1>2, LifecycleInvariant, PTL DEF Spec, NeverInitialisedAgain
=============================================================================
