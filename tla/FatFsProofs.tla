----------------------------- MODULE FatFsProofs -----------------------------
(***************************************************************************)
(* What the functions of FatFs below the interface keep (move_window,      *)
(* get_fat, create_chain, dir_find, ...), for every geometry, number of    *)
(* clusters, set of names, and any fault at any access.                    *)
(*                                                                         *)
(* The FAT is a function of the cluster and a chain a path in it, which a  *)
(* proof would follow by induction over the path.  A certificate does away *)
(* with that: it gives each cluster an owner and its place in the owner's  *)
(* chain, and each name the owner of its chain (Certificate, Chained).     *)
(* That two chains do not meet is then what a cluster's having one owner   *)
(* says, and each write of a FAT entry changes the certificate at one      *)
(* place.                                                                  *)
(*                                                                         *)
(*   Holds     FAT, directory, open files and certificate agree            *)
(*   InOrder   Holds of what the window shows, and the medium by itself    *)
(*             would be mounted without harm (Fine): the invariant of all  *)
(*             steps inside a call, errors and power cuts included         *)
(*   Vol       InOrder for some certificate: between the calls             *)
(*   Hand      InOrder while a call works on one FIL, its pointer parked   *)
(*                                                                         *)
(* Each function of ff.c has its lemmas: what it leaves of the invariant   *)
(* for each way it may end.                                                *)
(***************************************************************************)
EXTENDS FatFs, FiniteSetTheorems, WellFoundedInduction, TLAPS

-------------------------------------------------------------------------------
(* Types: what a sector, a directory entry, an open file and a machine of FatFs may
   hold, and what f_mount's view of the medium (window over disk) is *)

\* The bytes of a cluster.
Bytes == CSize * SS

\* The result codes the calls give.
Result == {"FR_OK", "FR_DISK_ERR", "FR_INT_ERR", "FR_NO_FILE", "FR_DENIED", "FR_EXIST"}
Mode == {"READ", "WRITE", "CREATE_NEW", "CREATE_ALWAYS", "OPEN_ALWAYS"}
FaultKind == {"none", "error", "late", "power"}

\* The three kinds of sectors.
FatSector == [0 .. PerFat - 1 -> 0 .. n_fatent]
DirEntry == [name : Name \union {NoName}, end : BOOLEAN, size : Nat, clust : {0} \union Cluster]
DirSector == [0 .. PerDir - 1 -> DirEntry]
DataSector == [0 .. SS - 1 -> Nat]
AnySector == FatSector \union DirSector \union DataSector

\* What sector x of the medium may hold, by the region it lies in.
SectorOf(x) == IF x = 0 \/ x >= database THEN DataSector ELSE IF x < dirbase THEN FatSector ELSE DirSector

\* A medium whose every sector is of its region's kind.
Medium == {d \in [Sector -> AnySector] : \A x \in Sector : d[x] \in SectorOf(x)}

\* A FIL that is open.
OpenFile == [open : {TRUE}, mode : SUBSET Mode, err : Result, slot : 0 .. NRootDir - 1,
             dirty : BOOLEAN, written : BOOLEAN, fptr : Nat, fsize : Nat,
             sclust : {0} \union Cluster, clust : {0} \union Cluster, dsect : Sector, buf : DataSector]
File == OpenFile \union {NoFile}

\* The states a call runs in: volume object, medium, FIL of the caller, result.
Machines == [mounted : BOOLEAN, win : AnySector \union {<<>>}, winsect : Int, wflag : BOOLEAN,
            last_clust : Int, free_clust : Int, fuse : Nat, fault : FaultKind, disk : Medium,
            fp : File, off : BOOLEAN, res : Result, val : Int, data : Seq(Nat)]

\* The medium as the volume object sees it: the window over what is on the disk.
Seen(m) == [x \in Sector |-> IF m.wflag /\ m.winsect = x THEN m.win ELSE m.disk[x]]

\* The window is a FAT or directory sector, and clean unless wflag is set.
Windowed(m) ==
    /\ m.winsect \in 0 .. database - 1 \union {Unknown}
    /\ m.wflag => m.winsect \in fatbase .. database - 1
    /\ m.winsect # Unknown => m.win \in SectorOf(m.winsect)
    /\ ~m.wflag /\ m.winsect # Unknown => m.win = m.disk[m.winsect]
Sound(m) == m \in Machines /\ Windowed(m)

\* No fault comes any more
Quiet(m) == m.fuse = 0 /\ ~m.off

\* w is m after accesses of the medium that change nothing of what the volume holds
Passes(m, w) ==
    /\ Sound(w)
    /\ Seen(w) = Seen(m)
    /\ w.disk \in {m.disk, Seen(m)}
    /\ w.fp = m.fp /\ w.mounted = m.mounted /\ w.free_clust = m.free_clust /\ w.data = m.data
    /\ Quiet(m) => Quiet(w)
\* What an access answers
Answers(m, w) == w.res \in {"FR_OK", "FR_DISK_ERR"} /\ (Quiet(m) => w.res = "FR_OK")
\* The window shows sect
Shows(w, sect) == w.winsect = sect /\ w.win = Seen(w)[sect]

\* The FAT as a function of the cluster, the root directory as one of the slot.
Table == [Cluster -> 0 .. n_fatent]
Folder == [0 .. NRootDir - 1 -> DirEntry]
Dir(s) == [i \in 0 .. NRootDir - 1 |-> Slot(s, i)]

\* Nothing lies behind the end of the directory, and no name is there twice.
DirOK(D) ==
    /\ \A i, j \in 0 .. NRootDir - 1 : D[i].end /\ i <= j => D[j].end /\ D[j].name = NoName
    /\ \A i, j \in 0 .. NRootDir - 1 : D[i].name = D[j].name /\ D[i].name # NoName => i = j

\* The entry that bears name n.
Entry(D, n) ==
    IF \E i \in 0 .. NRootDir - 1 : D[i].name = n
    THEN D[CHOOSE i \in 0 .. NRootDir - 1 : D[i].name = n] ELSE Blank(FALSE)

\* First cluster and size of each name: those of its FIL while it is open.
Root(D, o) == [n \in Name |-> IF o[n].open THEN o[n].sclust ELSE Entry(D, n).clust]
Size(D, o) == [n \in Name |-> IF o[n].open THEN o[n].fsize ELSE Entry(D, n).size]

\* Who owns each cluster, at which place of its chain it stands, how long the chain of each owner
\* is, and which owner's chain is that of a name
Certificate == [own : [Cluster -> Name \union {NoName}], idx : [Cluster -> Nat],
                len : [Name -> Nat], al : [Name -> Name]]

\* The certificate q orders the clusters: chain own[c] has len clusters, c is the
\* idx[c]-th of it, and the FAT leads from each to the next and ends behind the last.
Chained(F, q) ==
    /\ \A c \in Cluster : q.own[c] # NoName =>
          /\ q.idx[c] < q.len[q.own[c]]
          /\ q.idx[c] + 1 = q.len[q.own[c]] => F[c] = EndOfChain
          /\ q.idx[c] + 1 # q.len[q.own[c]] =>
                F[c] \in Cluster /\ q.own[F[c]] = q.own[c] /\ q.idx[F[c]] = q.idx[c] + 1
    /\ \A c, d \in Cluster : q.own[c] = q.own[d] /\ q.own[c] # NoName /\ q.idx[c] = q.idx[d] => c = d

\* A name's file starts at index 0 of the chain q.al[n], which is long enough for it.
RootedAt(q, n, root, size) ==
    \/ root = 0 /\ size = 0
    \/ root \in Cluster /\ q.own[root] = q.al[n] /\ q.idx[root] = 0 /\ size <= q.len[q.al[n]] * Bytes

\* A medium in order by itself: what f_mount would find there, the names of L apart.
Fine(s, L) ==
    /\ DirOK(Dir(s))
    /\ \E q \in Certificate :
          /\ Chained(Fat(s), q)
          /\ \A n \in Name \ L : RootedAt(q, n, Entry(Dir(s), n).clust, Entry(Dir(s), n).size)
          /\ \A n, k \in Name \ L : q.al[n] = q.al[k] => n = k

\* Only the two names of a broken-off rename may share a chain.
Apart(q, R, T) ==
    /\ \A n, k \in Name : q.al[n] = q.al[k] => n = k \/ {n, k} \in T
    /\ \A n \in Name : R[n] = 0 /\ (\A k \in Name : {n, k} \notin T) =>
                       \A c \in Cluster : q.own[c] # q.al[n]

\* X is a chain let go: owned by none, and led by the FAT only into itself.
Closed(F, q, X) == \A c \in X : c \in Cluster /\ q.own[c] = NoName /\ (F[c] \in Cluster => F[c] \in X)

\* Every name has its chain under q.
Held(F, q, R, Z, T, X) ==
    /\ Chained(F, q)
    /\ \A n \in Name : RootedAt(q, n, R[n], Z[n])
    /\ Apart(q, R, T)
    /\ Closed(F, q, X)

\* The file pointer stands inside, or at the end of, cluster clust of the file's chain.
PosOK(q, n, p) == p.open /\ p.err = "FR_OK" =>
    \/ p.fptr = 0
    \/ p.clust \in Cluster /\ q.own[p.clust] = q.al[n]
       /\ q.idx[p.clust] * Bytes < p.fptr /\ p.fptr <= (q.idx[p.clust] + 1) * Bytes

\* The entry on the medium holds no more than the open file has.
Fits(e, p) == (e.clust = p.sclust /\ e.size <= p.fsize) \/ (e.clust = 0 /\ e.size = 0)
\* The buffer of a file holds a sector of the data area when it is to be written back or read on
BufOK(p) == p.dirty \/ (p.err = "FR_OK" /\ p.fptr % SS # 0) => p.dsect >= database

\* An open file knows its entry's slot, and an entry not marked written fits.
FiledAt(D, n, p, L) == p.open =>
    /\ D[p.slot].name = n
    /\ n \notin L \/ ~p.written => Fits(D[p.slot], p)
    /\ BufOK(p)
Filed(D, o, L) == \A n \in Name : FiledAt(D, n, o[n], L)

\* The names of a broken-off rename are loose.
Twinned(T, L) == \A n, k \in Name : {n, k} \in T => n \in L

\* FAT F, directory D, open files o and certificate q fit together; L are the loose
\* names, T the pairs of names that a rename left with one chain, X a chain let go.
Holds(F, D, o, L, T, X, q) ==
    /\ F \in Table /\ D \in Folder /\ o \in [Name -> File] /\ q \in Certificate
    /\ Twinned(T, L)
    /\ DirOK(D) /\ Filed(D, o, L)
    /\ Held(F, q, Root(D, o), Size(D, o), T, X)
    /\ \A n \in Name : PosOK(q, n, o[n])

\* The invariant of the calls: what is seen holds together under q, and what is on
\* the disk is by itself in order.
InOrder(m, o, L, T, X, q) ==
    /\ Sound(m) /\ m.mounted
    /\ Fine(m.disk, L)
    /\ Holds(Fat(Seen(m)), Dir(Seen(m)), o, L, T, X, q)

\* The regions of the volume follow each other.
LEMMA LayoutFacts ==
    /\ n_fatent \in Nat /\ n_fatent = NClust + 2 /\ Cluster \subseteq Nat
    /\ dirbase \in Nat /\ database \in Nat /\ fatbase < dirbase /\ dirbase < database /\ fatbase = 1
    /\ \A c \in 0 .. n_fatent - 1 : FatSect(c) \in fatbase .. dirbase - 1 /\ c % PerFat \in 0 .. PerFat - 1
    /\ \A i \in 0 .. NRootDir - 1 : DirSect(i) \in dirbase .. database - 1 /\ i % PerDir \in 0 .. PerDir - 1
<1> USE FatFsAssumption
<1>1. n_fatent \in Nat /\ n_fatent = NClust + 2 /\ n_fatent > 2
  BY DEF n_fatent
<1>2. Cluster \subseteq Nat
  BY <1>1 DEF Cluster
<1>3. (n_fatent + PerFat - 1) \div PerFat \in Nat /\ (n_fatent + PerFat - 1) \div PerFat >= 1
  BY <1>1, SMTT(30)
<1>4. \A c \in 0 .. n_fatent - 1 : c \div PerFat \in Nat /\ c \div PerFat < (n_fatent + PerFat - 1) \div PerFat
  BY <1>1, SMTT(30)
<1>5. NRootDir \div PerDir \in Nat /\ NRootDir = PerDir * (NRootDir \div PerDir)
  BY SMTT(30)
<1>6. \A i \in 0 .. NRootDir - 1 : i \div PerDir \in Nat /\ i \div PerDir < NRootDir \div PerDir
  BY <1>5, SMTT(30)
<1>7. NRootDir \div PerDir >= 1
  BY <1>5
<1>8. \A c \in 0 .. n_fatent - 1 : c % PerFat \in 0 .. PerFat - 1
  BY <1>1
<1>9. \A i \in 0 .. NRootDir - 1 : i % PerDir \in 0 .. PerDir - 1
  OBVIOUS
<1>10. fatbase = 1 /\ dirbase = 1 + ((n_fatent + PerFat - 1) \div PerFat)
       /\ database = dirbase + (NRootDir \div PerDir)
  BY DEF fatbase, dirbase, database
<1>11. \A c : FatSect(c) = 1 + (c \div PerFat)
  BY DEF FatSect, fatbase
<1>12. \A i : DirSect(i) = dirbase + (i \div PerDir)
  BY DEF DirSect
<1>13. dirbase \in Nat /\ database \in Nat /\ fatbase < dirbase /\ dirbase < database
  BY <1>3, <1>5, <1>7, <1>10
<1>14. \A c \in 0 .. n_fatent - 1 : FatSect(c) \in fatbase .. dirbase - 1
  BY <1>3, <1>4, <1>10, <1>11
<1>15. \A i \in 0 .. NRootDir - 1 : DirSect(i) \in dirbase .. database - 1
  BY <1>5, <1>6, <1>10, <1>12, <1>13
<1> QED BY <1>1, <1>2, <1>8, <1>9, <1>10, <1>13, <1>14, <1>15, SMTT(30)

\* The sectors are the numbers below the end of the data region.
LEMMA SectorFacts ==
    /\ Sector = 0 .. (database + NClust * CSize - 1) /\ NClust * CSize \in Nat \ {0}
    /\ \A x \in 0 .. database - 1 : x \in Sector
    /\ \A x \in Sector : x \in Nat
    /\ Unknown \notin Sector /\ Unknown = -1
<1> USE FatFsAssumption, LayoutFacts
<1>1. NClust * CSize \in Nat \ {0}
  BY SMTT(30)
<1>2. Sector = 0 .. (database + NClust * CSize - 1)
  BY DEF Sector
<1>3. Unknown = -1
  BY DEF Unknown
<1>4. \A x \in Sector : x \in Nat /\ x # -1
  BY <1>1, <1>2
<1>5. ASSUME NEW x \in 0 .. database - 1 PROVE x \in Sector
  <2> DEFINE s == NClust * CSize
  <2>1. s \in Nat \ {0}
    BY <1>1
  <2>2. Sector = 0 .. (database + s - 1)
    BY <1>2
  <2> HIDE DEF s
  <2> QED BY <2>1, <2>2
<1> QED BY <1>1, <1>2, <1>3, <1>4, <1>5

\* An access to the medium changes only the fuse and the result.
LEMMA AccessFacts ==
    ASSUME NEW m \in Machines
    PROVE  LET w == Access(m) IN
           /\ w \in Machines
           /\ w.disk = m.disk /\ w.fp = m.fp /\ w.mounted = m.mounted /\ w.last_clust = m.last_clust
           /\ w.free_clust = m.free_clust /\ w.data = m.data /\ w.val = m.val /\ w.fault = m.fault
           /\ w.win = m.win /\ w.winsect = m.winsect /\ w.wflag = m.wflag
           /\ w.res \in {"FR_OK", "FR_DISK_ERR"}
           /\ Quiet(m) => Quiet(w) /\ w.res = "FR_OK"
<1> DEFINE hit == m.fuse = 1
           fuse == IF m.fuse = 0 THEN 0 ELSE m.fuse - 1
           off == m.off \/ (hit /\ m.fault = "power")
           res == IF hit \/ m.off THEN "FR_DISK_ERR" ELSE "FR_OK"
<1>1. Access(m) = [m EXCEPT !.fuse = fuse, !.off = off, !.res = res]
  BY Zenon DEF Access, Machines
<1>2. fuse \in Nat
  BY DEF Machines
<1>3. off \in BOOLEAN
  BY Zenon
<1>4. res \in {"FR_OK", "FR_DISK_ERR"}
  BY Zenon
<1>5. res \in Result
  <2> HIDE DEF res
  <2> QED BY <1>4 DEF Result
<1>6. Quiet(m) => fuse = 0 /\ ~off /\ res = "FR_OK"
  <2> SUFFICES ASSUME Quiet(m) PROVE fuse = 0 /\ ~off /\ res = "FR_OK"
    OBVIOUS
  <2>1. m.fuse = 0 /\ ~m.off /\ ~hit
    BY DEF Quiet
  <2> QED BY <2>1, Zenon
<1>7. LET w == Access(m) IN
           /\ w \in Machines
           /\ w.disk = m.disk /\ w.fp = m.fp /\ w.mounted = m.mounted /\ w.last_clust = m.last_clust
           /\ w.free_clust = m.free_clust /\ w.data = m.data /\ w.val = m.val /\ w.fault = m.fault
           /\ w.win = m.win /\ w.winsect = m.winsect /\ w.wflag = m.wflag
           /\ w.res = res /\ w.fuse = fuse /\ w.off = off
  <2> HIDE DEF hit, fuse, off, res
  <2> QED BY <1>1, <1>2, <1>3, <1>5 DEF Machines
<1> HIDE DEF hit, fuse, off, res
<1> QED BY <1>4, <1>6, <1>7, Zenon DEF Quiet

-------------------------------------------------------------------------------
(* Rounds: a loop of ff.c is Loop, a function on 0 .. n, and keeps what each of its
   rounds keeps. The sets S[k] say what holds after k rounds *)

\* A set of natural numbers has a least element.
LEMMA NatMinimum ==
    ASSUME NEW P, P \subseteq Nat, P # {}
    PROVE  \E x \in P : \A y \in P : x <= y
<1> DEFINE R == OpToRel(<, Nat)
<1>1. IsWellFoundedOn(R, Nat)
  BY NatLessThanWellFounded
<1>2. \A x \in Nat, y \in Nat : y < x => <<y, x>> \in R
  BY DEF OpToRel
<1> HIDE DEF R
<1>3. \E x \in P : \A y \in P : ~ (<<y, x>> \in R)
  BY <1>1, WFMin
<1>4. PICK x \in P : \A y \in P : ~ (<<y, x>> \in R)
  BY <1>3
<1>5. ASSUME NEW y \in P
      PROVE  x <= y
  <2>1. x \in Nat /\ y \in Nat
    OBVIOUS
  <2>2. ~ (y < x)
    BY <1>2, <1>4, <2>1
  <2> QED BY <2>1, <2>2
<1> QED BY <1>5

\* Induction, for a set of natural numbers.
LEMMA NatInduct ==
    ASSUME NEW P, 0 \in P, \A n \in Nat : n \in P => n + 1 \in P
    PROVE  Nat \subseteq P
<1> SUFFICES ASSUME Nat \ P /= {} PROVE FALSE
  OBVIOUS
<1>1. PICK x \in Nat \ P : \A y \in Nat \ P : x <= y
  BY NatMinimum
<1>2. x /= 0 /\ x - 1 \in Nat
  BY <1>1
<1>3. x - 1 \in P
  BY <1>1, <1>2
<1> QED BY <1>1, <1>2, <1>3

\* A property of each round's state holds along the run.
LEMMA RunInduct ==
    ASSUME NEW n \in Nat, NEW S, NEW r, r[0] \in S[0],
           \A k \in 1 .. n : r[k - 1] \in S[k - 1] => r[k] \in S[k]
    PROVE  \A k \in 0 .. n : r[k] \in S[k]
<1> DEFINE P == {k \in Nat : k <= n => r[k] \in S[k]}
<1>1. 0 \in P
  OBVIOUS
<1>2. ASSUME NEW k \in Nat, k \in P PROVE k + 1 \in P
  <2>1. k + 1 <= n => k + 1 \in 1 .. n /\ (k + 1) - 1 = k
    OBVIOUS
  <2> QED BY <1>2, <2>1
<1>3. Nat \subseteq P
  <2> HIDE DEF P
  <2> QED BY <1>1, <1>2, NatInduct
<1> QED BY <1>3

\* Rounds g lead from each set of S to the next, and r is the run of them from m on, which exists
Steady(n, S, g) == \A k \in 1 .. n : \A w \in S[k - 1] : g[<<w, k>>] \in S[k]

\* r is a run of n rounds from m, each the value of g.
RunOf(n, S, m, g, r) ==
    /\ r = [k \in 0 .. n |-> IF k = 0 THEN m ELSE g[<<r[k - 1], k>>]]
    /\ \A k \in 0 .. n : r[k] \in S[k]

\* Such a run exists when each round leads from S[k - 1] into S[k].
LEMMA RunExists ==
    ASSUME NEW n \in Nat, NEW S, NEW m, m \in S[0], NEW g, Steady(n, S, g)
    PROVE  \E r : RunOf(n, S, m, g, r)
<1>0. \A k \in 1 .. n : \A w \in S[k - 1] : g[<<w, k>>] \in S[k]
  BY DEF Steady
<1> DEFINE Upto(l, r) == /\ r = [k \in 0 .. l |-> IF k = 0 THEN m ELSE g[<<r[k - 1], k>>]]
                         /\ \A k \in 0 .. l : r[k] \in S[k]
<1> DEFINE P == {l \in Nat : l <= n => \E r : Upto(l, r)}
<1>1. 0 \in P
  <2>1. Upto(0, [k \in 0 .. 0 |-> m])
    OBVIOUS
  <2> QED BY <2>1
<1>2. ASSUME NEW l \in Nat, l \in P PROVE l + 1 \in P
  <2> SUFFICES ASSUME l + 1 <= n PROVE \E r : Upto(l + 1, r)
    OBVIOUS
  <2>1. l <= n
    OBVIOUS
  <2>2. PICK r : Upto(l, r)
    BY <1>2, <2>1
  <2> DEFINE e == [k \in 0 .. l + 1 |-> IF k = l + 1 THEN g[<<r[l], l + 1>>] ELSE r[k]]
  <2>3. \A k \in 0 .. l : e[k] = r[k]
    OBVIOUS
  <2>4. r[l] \in S[l] /\ l + 1 \in 1 .. n /\ (l + 1) - 1 = l
    BY <2>2
  <2>5. e[l + 1] = g[<<r[l], l + 1>>] /\ e[l + 1] \in S[l + 1]
    BY <1>0, <2>4
  <2>6. \A k \in 0 .. l : r[k] = IF k = 0 THEN m ELSE g[<<r[k - 1], k>>]
    <3>1. r = [k \in 0 .. l |-> IF k = 0 THEN m ELSE g[<<r[k - 1], k>>]]
      BY <2>2
    <3> QED BY <3>1
  <2>7. \A k \in 0 .. l + 1 : e[k] = IF k = 0 THEN m ELSE g[<<e[k - 1], k>>]
    <3> TAKE k \in 0 .. l + 1
    <3>1. CASE k = l + 1
      <4>1. k - 1 = l /\ k # 0 /\ e[k - 1] = r[l]
        BY <3>1, <2>3
      <4> QED BY <3>1, <4>1, <2>5
    <3>2. CASE k # l + 1
      <4>1. k \in 0 .. l
        BY <3>2
      <4>2. k # 0 => k - 1 \in 0 .. l
        BY <4>1
      <4> HIDE DEF e
      <4> QED BY <4>1, <4>2, <2>3, <2>6
    <3> QED BY <3>1, <3>2
  <2>8. e = [k \in 0 .. l + 1 |-> IF k = 0 THEN m ELSE g[<<e[k - 1], k>>]]
    <3>1. e = [k \in 0 .. l + 1 |-> e[k]]
      OBVIOUS
    <3> HIDE DEF e
    <3> QED BY <2>7, <3>1, Zenon
  <2>9. \A k \in 0 .. l + 1 : e[k] \in S[k]
    <3> HIDE DEF e
    <3>1. \A k \in 0 .. l : e[k] \in S[k]
      BY <2>2, <2>3
    <3>2. \A k \in 0 .. l + 1 : k = l + 1 \/ k \in 0 .. l
      OBVIOUS
    <3> QED BY <3>1, <3>2, <2>5
  <2>10. Upto(l + 1, e)
    <3> HIDE DEF e
    <3> QED BY <2>8, <2>9, Zenon
  <2> HIDE DEF e, Upto
  <2> QED BY <2>10
<1>3. Nat \subseteq P
  <2> HIDE DEF P
  <2> QED BY <1>1, <1>2, NatInduct
<1>4. \E r : Upto(n, r)
  <2> HIDE DEF Upto
  <2> QED BY <1>3
<1> QED BY <1>4, Zenon DEF RunOf

-------------------------------------------------------------------------------
(* The window (move_window, sync_window, sync_fs): it never changes what is seen *)

\* The view is a medium, and the window's sector is what the window holds.
LEMMA SeenFacts ==
    ASSUME NEW m, Sound(m)
    PROVE  /\ Seen(m) \in Medium /\ DOMAIN Seen(m) = Sector
           /\ ~m.wflag => Seen(m) = m.disk
           /\ \A x \in Sector : m.winsect = x => Seen(m)[x] = m.win
           /\ \A x \in Sector : m.winsect # x => Seen(m)[x] = m.disk[x]
           /\ \A x \in Sector : x >= database => Seen(m)[x] = m.disk[x]
<1> USE LayoutFacts, SectorFacts
<1>1. m.disk \in Medium /\ m.disk \in [Sector -> AnySector] /\ \A x \in Sector : m.disk[x] \in SectorOf(x)
  BY DEF Sound, Machines, Medium
<1>2. \A x \in Sector : Seen(m)[x] = IF m.wflag /\ m.winsect = x THEN m.win ELSE m.disk[x]
  BY Zenon DEF Seen
<1>3. \A x \in Sector : Seen(m)[x] \in SectorOf(x)
  <2> TAKE x \in Sector
  <2>1. CASE m.wflag /\ m.winsect = x
    <3>1. x # Unknown
      OBVIOUS
    <3>2. m.win \in SectorOf(x)
      BY <2>1, <3>1 DEF Sound, Windowed
    <3> QED BY <2>1, <3>2, <1>2, Zenon
  <2>2. CASE ~(m.wflag /\ m.winsect = x)
    BY <2>2, <1>1, <1>2, Zenon
  <2> QED BY <2>1, <2>2, Zenon
<1>4. \A x \in Sector : SectorOf(x) \subseteq AnySector
  BY DEF SectorOf, AnySector
<1>5. Seen(m) \in Medium /\ DOMAIN Seen(m) = Sector
  <2>1. Seen(m) = [x \in Sector |-> Seen(m)[x]]
    BY Zenon DEF Seen
  <2> QED BY <1>3, <1>4, <2>1, Zenon DEF Medium
<1>6. ~m.wflag => Seen(m) = m.disk
  <2>1. m.disk = [x \in Sector |-> m.disk[x]]
    BY <1>1
  <2>2. ASSUME ~m.wflag PROVE \A x \in Sector : Seen(m)[x] = m.disk[x]
    BY <2>2, <1>2, Zenon
  <2>3. Seen(m) = [x \in Sector |-> Seen(m)[x]]
    BY Zenon DEF Seen
  <2> QED BY <2>1, <2>2, <2>3, Zenon
<1>7. \A x \in Sector : m.winsect = x => Seen(m)[x] = m.win
  <2> TAKE x \in Sector
  <2>1. CASE m.wflag
    BY <2>1, <1>2, Zenon
  <2>2. CASE ~m.wflag
    <3>1. x # Unknown
      OBVIOUS
    <3>2. m.winsect = x => m.win = m.disk[x]
      BY <2>2, <3>1, Zenon DEF Sound, Windowed
    <3> QED BY <3>2, <2>2, <1>2, Zenon
  <2> QED BY <2>1, <2>2, Zenon
<1>8. \A x \in Sector : m.winsect # x => Seen(m)[x] = m.disk[x]
  BY <1>2, Zenon
<1>9. \A x \in Sector : x >= database => Seen(m)[x] = m.disk[x]
  <2> TAKE x \in Sector
  <2> SUFFICES ASSUME x >= database PROVE m.winsect # x
    BY <1>8, Zenon
  <2>1. m.winsect \in 0 .. database - 1 \union {Unknown}
    BY DEF Sound, Windowed
  <2> QED BY <2>1
<1> QED BY <1>5, <1>6, <1>7, <1>8, <1>9

\* A step that leaves the view alone, twice, or not at all.
LEMMA PassesTrans ==
    ASSUME NEW m, NEW w, NEW u, Passes(m, w), Passes(w, u)
    PROVE  Passes(m, u)
<1>1. Seen(u) = Seen(m) /\ Seen(w) = Seen(m)
  BY Zenon DEF Passes
<1>2. u.disk \in {m.disk, Seen(m)}
  BY <1>1 DEF Passes
<1> QED BY <1>1, <1>2, Zenon DEF Passes

LEMMA PassesRefl ==
    ASSUME NEW m, Sound(m)
    PROVE  Passes(m, m)
BY Zenon DEF Passes

\* What m and w share decides what the calls see
LEMMA SameSeen ==
    ASSUME NEW m, NEW w, w.disk = m.disk, w.win = m.win, w.winsect = m.winsect, w.wflag = m.wflag
    PROVE  Seen(w) = Seen(m) /\ (Windowed(m) => Windowed(w))
BY Zenon DEF Seen, Windowed

\* Accesses, results and values leave the view alone.
LEMMA AccessPasses ==
    ASSUME NEW m, Sound(m)
    PROVE  LET w == Access(m) IN
           /\ Passes(m, w) /\ Answers(m, w) /\ w.val = m.val
           /\ w.disk = m.disk /\ w.win = m.win /\ w.winsect = m.winsect /\ w.wflag = m.wflag
<1>1. m \in Machines
  BY DEF Sound
<1>2. LET w == Access(m) IN
           /\ w \in Machines
           /\ w.disk = m.disk /\ w.fp = m.fp /\ w.mounted = m.mounted /\ w.last_clust = m.last_clust
           /\ w.free_clust = m.free_clust /\ w.data = m.data /\ w.val = m.val /\ w.fault = m.fault
           /\ w.win = m.win /\ w.winsect = m.winsect /\ w.wflag = m.wflag
           /\ w.res \in {"FR_OK", "FR_DISK_ERR"}
           /\ Quiet(m) => Quiet(w) /\ w.res = "FR_OK"
  BY <1>1, AccessFacts
<1>3. Seen(Access(m)) = Seen(m) /\ Windowed(Access(m))
  BY <1>2, SameSeen DEF Sound
<1> QED BY <1>2, <1>3, Zenon DEF Passes, Sound, Answers

LEMMA ReturnFacts ==
    ASSUME NEW m, Sound(m), NEW r \in Result
    PROVE  LET w == Return(m, r) IN
           /\ Passes(m, w) /\ w.res = r /\ w.val = m.val /\ w.disk = m.disk
           /\ w.win = m.win /\ w.winsect = m.winsect /\ w.wflag = m.wflag
<1>1. m \in Machines
  BY DEF Sound
<1> DEFINE w == Return(m, r)
<1>2. /\ w \in Machines
      /\ w.disk = m.disk /\ w.fp = m.fp /\ w.mounted = m.mounted
      /\ w.free_clust = m.free_clust /\ w.data = m.data /\ w.val = m.val /\ w.res = r
      /\ w.win = m.win /\ w.winsect = m.winsect /\ w.wflag = m.wflag /\ w.fuse = m.fuse /\ w.off = m.off
  BY <1>1 DEF Return, Machines
<1> HIDE DEF w
<1>3. Seen(w) = Seen(m) /\ Windowed(w)
  BY <1>2, SameSeen DEF Sound
<1>4. Passes(m, w)
  BY <1>2, <1>3, Zenon DEF Passes, Sound, Quiet
<1> QED BY <1>2, <1>4 DEF w

LEMMA ValueFacts ==
    ASSUME NEW m, Sound(m), NEW x \in Int
    PROVE  LET w == Value(m, x) IN
           /\ Passes(m, w) /\ w.res = m.res /\ w.val = x /\ w.disk = m.disk
           /\ w.win = m.win /\ w.winsect = m.winsect /\ w.wflag = m.wflag
<1>1. m \in Machines
  BY DEF Sound
<1> DEFINE w == Value(m, x)
<1>2. /\ w \in Machines
      /\ w.disk = m.disk /\ w.fp = m.fp /\ w.mounted = m.mounted
      /\ w.free_clust = m.free_clust /\ w.data = m.data /\ w.val = x /\ w.res = m.res
      /\ w.win = m.win /\ w.winsect = m.winsect /\ w.wflag = m.wflag /\ w.fuse = m.fuse /\ w.off = m.off
  BY <1>1 DEF Value, Machines
<1> HIDE DEF w
<1>3. Seen(w) = Seen(m) /\ Windowed(w)
  BY <1>2, SameSeen DEF Sound
<1>4. Passes(m, w)
  BY <1>2, <1>3, Zenon DEF Passes, Sound, Quiet
<1> QED BY <1>2, <1>4 DEF w

\* sync_window leaves the view alone, and the window clean when it succeeds.
LEMMA SyncWindowFacts ==
    ASSUME NEW m, Sound(m)
    PROVE  LET w == sync_window(m) IN
           /\ Passes(m, w) /\ Answers(m, w) /\ w.val = m.val
           /\ w.res = "FR_OK" => ~w.wflag /\ w.winsect = m.winsect
<1> USE LayoutFacts, SectorFacts
<1>1. CASE ~m.wflag
  <2>1. sync_window(m) = Return(m, "FR_OK")
    BY <1>1, Zenon DEF sync_window
  <2>2. "FR_OK" \in Result
    BY DEF Result
  <2> DEFINE w == Return(m, "FR_OK")
  <2>3. Passes(m, w) /\ w.res = "FR_OK" /\ w.val = m.val /\ w.winsect = m.winsect /\ w.wflag = m.wflag
    BY <2>2, ReturnFacts, Zenon
  <2> HIDE DEF w
  <2>4. Answers(m, w)
    BY <2>3 DEF Answers
  <2> QED BY <1>1, <2>1, <2>3, <2>4, Zenon DEF w
<1>2. CASE m.wflag
  <2> DEFINE d == disk_write(m, m.winsect, <<m.win>>)
  <2>1. sync_window(m) = IF d.res = "FR_OK" THEN [d EXCEPT !.wflag = FALSE] ELSE d
    BY <1>2, Zenon DEF sync_window, IfOk
  <2> DEFINE a == Access(m)
  <2>2. Passes(m, a) /\ Answers(m, a) /\ a.val = m.val /\ a \in Machines
           /\ a.disk = m.disk /\ a.win = m.win /\ a.winsect = m.winsect /\ a.wflag = m.wflag
    <3>1. Passes(m, a) /\ Answers(m, a) /\ a.val = m.val
           /\ a.disk = m.disk /\ a.win = m.win /\ a.winsect = m.winsect /\ a.wflag = m.wflag
      BY AccessPasses
    <3> HIDE DEF a
    <3> QED BY <3>1, Zenon DEF Passes, Sound
  <2>3. m.winsect \in fatbase .. database - 1 /\ m.winsect \in Sector
    BY <1>2 DEF Sound, Windowed
  <2>4. \A x \in Sector : (x - m.winsect + 1 \in 1 .. 1) <=> x = m.winsect
    BY <2>3
  <2> DEFINE s == [x \in Sector |-> IF x - m.winsect + 1 \in 1 .. Len(<<m.win>>)
                                    THEN <<m.win>>[x - m.winsect + 1] ELSE a.disk[x]]
  <2>5. s = Seen(m)
    <3>1. Len(<<m.win>>) = 1
      OBVIOUS
    <3>2. \A x \in Sector : x = m.winsect => <<m.win>>[x - m.winsect + 1] = m.win
      BY <2>3
    <3> HIDE DEF a
    <3>3. \A x \in Sector : s[x] = IF m.wflag /\ m.winsect = x THEN m.win ELSE m.disk[x]
      BY <1>2, <2>4, <2>2, <3>1, <3>2, Zenon
    <3>4. \A x \in Sector : s[x] = Seen(m)[x]
      BY <3>3, Zenon DEF Seen
    <3>5. DOMAIN Seen(m) = Sector /\ Seen(m) = [x \in Sector |-> Seen(m)[x]]
      BY Zenon DEF Seen
    <3>6. s = [x \in Sector |-> s[x]]
      BY Zenon
    <3> HIDE DEF s
    <3> QED BY <3>4, <3>5, <3>6, Zenon
  <2>6. d = a \/ d = [a EXCEPT !.disk = Seen(m)]
    <3>1. d = IF ~Lands(m) THEN a ELSE [a EXCEPT !.disk = s]
      BY Zenon DEF disk_write
    <3> HIDE DEF s, d, a
    <3> QED BY <2>5, <3>1, Zenon
  <2>7. d.disk \in {m.disk, Seen(m)} /\ d.fp = a.fp /\ d.mounted = a.mounted /\ d.free_clust = a.free_clust
        /\ d.data = a.data /\ d.val = a.val /\ d.res = a.res /\ d.win = a.win /\ d.winsect = a.winsect
        /\ d.wflag = a.wflag /\ d.fuse = a.fuse /\ d.off = a.off /\ d \in Machines
    <3>1. Seen(m) \in Medium
      BY SeenFacts
    <3> HIDE DEF d, a, s
    <3>2. CASE d = a
      BY <3>2, <2>2, Zenon
    <3>3. CASE d = [a EXCEPT !.disk = Seen(m)]
      BY <3>1, <3>3, <2>2 DEF Machines
    <3> QED BY <3>2, <3>3, <2>6
  <2>8. Seen(d) = Seen(m) /\ Windowed(d)
    <3> HIDE DEF d, a, s
    <3>1. \A x \in Sector : Seen(m)[x] = IF m.wflag /\ m.winsect = x THEN m.win ELSE m.disk[x]
      BY Zenon DEF Seen
    <3>2. \A x \in Sector : d.disk[x] = m.disk[x] \/ d.disk[x] = Seen(m)[x]
      BY <2>7
    <3>3. Seen(d) = [x \in Sector |-> IF m.winsect = x THEN m.win ELSE d.disk[x]]
      BY <1>2, <2>2, <2>7, Zenon DEF Seen
    <3>4. \A x \in Sector : Seen(d)[x] = Seen(m)[x]
      BY <3>1, <3>2, <3>3, <1>2, Zenon
    <3>5. Seen(m) = [x \in Sector |-> Seen(m)[x]] /\ Seen(d) = [x \in Sector |-> Seen(d)[x]]
      BY Zenon DEF Seen
    <3>6. Windowed(d)
      BY <1>2, <2>2, <2>7, Zenon DEF Windowed, Sound
    <3> QED BY <3>4, <3>5, <3>6, Zenon
  <2>9. Passes(m, d) /\ Answers(m, d) /\ d.val = m.val /\ d.wflag /\ d.winsect = m.winsect
    <3> HIDE DEF d, a, s
    <3> QED BY <1>2, <2>2, <2>7, <2>8, Zenon DEF Passes, Answers, Sound, Quiet
  <2>10. CASE d.res # "FR_OK"
    BY <2>1, <2>9, <2>10, Zenon
  <2>11. CASE d.res = "FR_OK"
    <3> DEFINE w == [d EXCEPT !.wflag = FALSE]
    <3>1. d = [a EXCEPT !.disk = Seen(m)]
      <4>1. Lands(m)
        <5>1. d.res = Access(m).res
          BY <2>7
        <5>2. d.res = IF m.fuse = 1 \/ m.off THEN "FR_DISK_ERR" ELSE "FR_OK"
          <6>1. m \in Machines
            BY DEF Sound
          <6> HIDE DEF d
          <6> QED BY <5>1, <6>1, Zenon DEF Access, Machines
        <5> HIDE DEF d
        <5>3. ~(m.fuse = 1 \/ m.off)
          BY <2>11, <5>2
        <5> QED BY <5>3, Zenon DEF Lands
      <4>2. d = IF ~Lands(m) THEN a ELSE [a EXCEPT !.disk = s]
        BY Zenon DEF disk_write
      <4> HIDE DEF s, d, a
      <4> QED BY <2>5, <4>1, <4>2, Zenon
    <3>2. d.disk = Seen(m)
      <4> HIDE DEF d, a, s
      <4> QED BY <3>1, <2>2 DEF Machines
    <3>3. /\ w \in Machines
          /\ w.disk = Seen(m) /\ w.fp = d.fp /\ w.mounted = d.mounted
          /\ w.free_clust = d.free_clust /\ w.data = d.data /\ w.val = d.val /\ w.res = d.res
          /\ w.win = d.win /\ w.winsect = d.winsect /\ w.wflag = FALSE /\ w.fuse = d.fuse /\ w.off = d.off
      <4>1. d \in Machines
        BY <2>7
      <4> HIDE DEF d, a, s
      <4> QED BY <4>1, <3>2 DEF Machines
    <3> HIDE DEF w, d, a, s
    <3>4. Seen(w) = Seen(m)
      <4>1. \A x \in Sector : Seen(w)[x] = Seen(m)[x]
        BY <3>3, Zenon DEF Seen
      <4>2. Seen(m) = [x \in Sector |-> Seen(m)[x]] /\ Seen(w) = [x \in Sector |-> Seen(w)[x]]
        BY Zenon DEF Seen
      <4> QED BY <4>1, <4>2, Zenon
    <3>5. Windowed(w)
      <4>1. w.winsect \in 0 .. database - 1 \union {Unknown}
        BY <2>9, <3>3 DEF Windowed, Sound
      <4>2. w.winsect # Unknown => w.win \in SectorOf(w.winsect)
        BY <2>8, <3>3, Zenon DEF Windowed
      <4>3. w.winsect # Unknown => w.win = w.disk[w.winsect]
        <5>1. Seen(m)[m.winsect] = m.win
          BY <2>3, SeenFacts
        <5> QED BY <5>1, <2>2, <2>7, <2>9, <3>3, Zenon
      <4> QED BY <4>1, <4>2, <4>3, <3>3, Zenon DEF Windowed
    <3>6. Passes(m, w) /\ Answers(m, w) /\ w.val = m.val /\ w.wflag = FALSE /\ w.winsect = m.winsect
      BY <2>9, <3>3, <3>4, <3>5, Zenon DEF Passes, Answers, Sound, Quiet
    <3>7. sync_window(m) = w
      BY <2>1, <2>11, Zenon DEF w
    <3> QED BY <3>6, <3>7, Zenon
  <2> QED BY <2>10, <2>11
<1> QED BY <1>1, <1>2

\* A clean window may be filled with another sector.
LEMMA FetchedFacts ==
    ASSUME NEW m, Sound(m), ~m.wflag, NEW sect \in 0 .. database - 1
    PROVE  LET w == Fetched(m, sect) IN
           /\ Passes(m, w) /\ w.res = m.res /\ w.val = m.val
           /\ w.res = "FR_OK" => Shows(w, sect)
<1> USE LayoutFacts, SectorFacts
<1>1. sect \in Sector /\ sect # Unknown
  OBVIOUS
<1>2. m.disk[sect] \in SectorOf(sect) /\ SectorOf(sect) \subseteq AnySector
  BY <1>1 DEF Sound, Machines, Medium, SectorOf, AnySector
<1> DEFINE w == Fetched(m, sect)
<1>3. /\ w \in Machines
      /\ w.disk = m.disk /\ w.fp = m.fp /\ w.mounted = m.mounted /\ w.wflag = m.wflag
      /\ w.free_clust = m.free_clust /\ w.data = m.data /\ w.val = m.val /\ w.res = m.res
      /\ w.fuse = m.fuse /\ w.off = m.off
      /\ m.res = "FR_OK" => w.win = m.disk[sect] /\ w.winsect = sect
      /\ m.res # "FR_OK" => w.win = <<>> /\ w.winsect = Unknown
  <2>1. m \in Machines
    BY DEF Sound
  <2>2. Unknown \in Int /\ sect \in Int
    OBVIOUS
  <2>3. CASE m.res = "FR_OK"
    <3>1. w = [m EXCEPT !.win = m.disk[sect], !.winsect = sect]
      BY <2>3, Zenon DEF Fetched
    <3> HIDE DEF w
    <3>2. m.disk[sect] \in AnySector \union {<<>>}
      BY <1>2
    <3> DEFINE x == m.disk[sect]
    <3> HIDE DEF x
    <3>3. w = [m EXCEPT !.win = x, !.winsect = sect] /\ x \in AnySector \union {<<>>}
      BY <3>1, <3>2 DEF x
    <3>4. w.win = x
      BY <2>1, <3>3 DEF Machines
    <3> QED BY <2>1, <2>2, <2>3, <3>3, <3>4 DEF Machines, x
  <2>4. CASE m.res # "FR_OK"
    <3>1. w = [m EXCEPT !.win = <<>>, !.winsect = Unknown]
      BY <2>4, Zenon DEF Fetched
    <3> HIDE DEF w
    <3>2. <<>> \in AnySector \union {<<>>}
      OBVIOUS
    <3> QED BY <2>1, <2>2, <2>4, <3>1, <3>2 DEF Machines
  <2> QED BY <2>3, <2>4
<1> HIDE DEF w
<1>4. ~w.wflag
  BY <1>3, Zenon
<1>5. Windowed(w)
  <2>1. CASE m.res = "FR_OK"
    BY <2>1, <1>1, <1>2, <1>3, <1>4 DEF Windowed
  <2>2. CASE m.res # "FR_OK"
    <3>1. w.winsect = Unknown
      BY <2>2, <1>3
    <3> QED BY <3>1, <1>4 DEF Windowed
  <2> QED BY <2>1, <2>2
<1>6. Sound(w)
  BY <1>3, <1>5 DEF Sound
<1>7. Seen(w) = w.disk /\ Seen(m) = m.disk
  BY <1>4, <1>6, SeenFacts
<1>8. Passes(m, w)
  BY <1>3, <1>6, <1>7, Zenon DEF Passes, Quiet
<1>9. w.res = "FR_OK" => Shows(w, sect)
  BY <1>3, <1>7, Zenon DEF Shows
<1> QED BY <1>3, <1>8, <1>9 DEF w

LEMMA AnswersTrans ==
    ASSUME NEW m, NEW w, NEW u, Passes(m, w), Answers(w, u)
    PROVE  Answers(m, u)
BY Zenon DEF Passes, Answers

\* move_window leaves the view alone and shows the sector when it succeeds.
LEMMA MoveWindowFacts ==
    ASSUME NEW m, Sound(m), NEW sect \in 0 .. database - 1
    PROVE  LET w == move_window(m, sect) IN
           /\ Passes(m, w) /\ Answers(m, w) /\ w.val = m.val
           /\ w.res = "FR_OK" => Shows(w, sect)
<1> USE LayoutFacts, SectorFacts
<1>0. sect \in Sector /\ "FR_OK" \in Result
  BY DEF Result
<1>1. CASE sect = m.winsect
  <2> DEFINE w == Return(m, "FR_OK")
  <2>1. move_window(m, sect) = w
    BY <1>1, Zenon DEF move_window
  <2>2. Passes(m, w) /\ w.res = "FR_OK" /\ w.val = m.val /\ w.winsect = m.winsect /\ w.wflag = m.wflag /\ w.win = m.win
    BY <1>0, ReturnFacts, Zenon
  <2> HIDE DEF w
  <2>3. Answers(m, w)
    BY <2>2 DEF Answers
  <2>4. Seen(w)[sect] = m.win
    BY <1>0, <1>1, <2>2, SeenFacts DEF Passes
  <2> QED BY <1>1, <2>1, <2>2, <2>3, <2>4, Zenon DEF Shows
<1>2. CASE sect # m.winsect
  <2> DEFINE s == sync_window(m)
             a == Access(s)
             f == Fetched(a, sect)
  <2>1. move_window(m, sect) = IF s.res = "FR_OK" THEN f ELSE s
    BY <1>2, Zenon DEF move_window, IfOk, disk_read
  <2>2. Passes(m, s) /\ Answers(m, s) /\ s.val = m.val /\ (s.res = "FR_OK" => ~s.wflag)
    BY SyncWindowFacts
  <2>3. Sound(s)
    BY <2>2, Zenon DEF Passes
  <2>4. Passes(s, a) /\ Answers(s, a) /\ a.val = s.val /\ a.wflag = s.wflag
    <3> HIDE DEF s
    <3> QED BY <2>3, AccessPasses
  <2>5. Sound(a)
    BY <2>4, Zenon DEF Passes
  <2>6. CASE s.res = "FR_OK"
    <3>1. ~a.wflag
      BY <2>2, <2>4, <2>6, Zenon
    <3>2. Passes(a, f) /\ f.res = a.res /\ f.val = a.val /\ (f.res = "FR_OK" => Shows(f, sect))
      <4> HIDE DEF a
      <4> QED BY <2>5, <3>1, FetchedFacts
    <3> HIDE DEF s, a, f
    <3>3. Passes(m, a)
      BY <2>2, <2>4, PassesTrans
    <3>4. Passes(m, f)
      BY <3>3, <3>2, PassesTrans
    <3>5. Answers(m, f)
      BY <2>2, <2>4, <3>2, <2>6, Zenon DEF Answers, Passes
    <3> QED BY <2>1, <2>2, <2>4, <2>6, <3>2, <3>4, <3>5, Zenon
  <2>7. CASE s.res # "FR_OK"
    BY <2>1, <2>2, <2>7, Zenon
  <2> QED BY <2>6, <2>7
<1> QED BY <1>1, <1>2

\* sync_fs leaves the view alone, and the disk is the view when it succeeds.
LEMMA SyncFsFacts ==
    ASSUME NEW m, Sound(m)
    PROVE  LET w == sync_fs(m) IN
           /\ Passes(m, w) /\ Answers(m, w) /\ w.val = m.val
           /\ w.res = "FR_OK" => w.disk = Seen(m) /\ ~w.wflag
<1> DEFINE s == sync_window(m)
           a == Access(s)
<1>1. sync_fs(m) = IF s.res = "FR_OK" THEN a ELSE s
  BY Zenon DEF sync_fs, IfOk
<1>2. Passes(m, s) /\ Answers(m, s) /\ s.val = m.val /\ (s.res = "FR_OK" => ~s.wflag)
  BY SyncWindowFacts
<1>3. Sound(s)
  BY <1>2, Zenon DEF Passes
<1>4. Passes(s, a) /\ Answers(s, a) /\ a.val = s.val /\ a.wflag = s.wflag /\ a.disk = s.disk
  <2> HIDE DEF s
  <2> QED BY <1>3, AccessPasses
<1>5. ~s.wflag => s.disk = Seen(m)
  <2> HIDE DEF s, a
  <2> QED BY <1>2, <1>3, SeenFacts, Zenon DEF Passes
<1> HIDE DEF s, a
<1>6. Passes(m, a)
  BY <1>2, <1>4, PassesTrans
<1>7. CASE s.res = "FR_OK"
  <2>1. Answers(m, a)
    BY <1>2, <1>4, AnswersTrans
  <2> QED BY <1>1, <1>2, <1>4, <1>5, <1>6, <1>7, <2>1, Zenon
<1>8. CASE s.res # "FR_OK"
  BY <1>1, <1>2, <1>8, Zenon
<1> QED BY <1>7, <1>8

-------------------------------------------------------------------------------
(* InOrder: the invariant of the calls, and how it passes from state to state *)

LEMMA BytesNat == Bytes \in Nat \ {0}
BY FatFsAssumption, SMTT(30) DEF Bytes

\* The marks of the FAT are no clusters.
LEMMA ClusterFacts ==
    /\ EndOfChain \notin Cluster /\ 0 \notin Cluster /\ EndOfChain \in 0 .. n_fatent
    /\ Cluster \subseteq 0 .. n_fatent /\ DiskErr \notin Cluster /\ 1 \notin Cluster
    /\ DiskErr \in Int /\ DiskErr = n_fatent + 1 /\ EndOfChain = n_fatent
BY LayoutFacts DEF Cluster, EndOfChain, DiskErr

\* FAT and directory of a medium, entry by entry.
LEMMA DirSectorType ==
    ASSUME NEW s \in Medium
    PROVE  /\ Fat(s) \in Table /\ Dir(s) \in Folder
           /\ \A c \in Cluster : Fat(s)[c] = s[FatSect(c)][c % PerFat]
           /\ \A i \in 0 .. NRootDir - 1 : Dir(s)[i] = s[DirSect(i)][i % PerDir]
<1> USE LayoutFacts, SectorFacts
<1>1. ASSUME NEW c \in Cluster PROVE s[FatSect(c)][c % PerFat] \in 0 .. n_fatent
  <2>1. c \in 0 .. n_fatent - 1
    BY DEF Cluster
  <2>2. FatSect(c) \in fatbase .. dirbase - 1 /\ c % PerFat \in 0 .. PerFat - 1
    BY <2>1
  <2>3. FatSect(c) \in Sector /\ SectorOf(FatSect(c)) = FatSector
    BY <2>2 DEF SectorOf
  <2>4. s[FatSect(c)] \in FatSector
    BY <2>3 DEF Medium
  <2> HIDE DEF FatSect
  <2> QED BY <2>2, <2>4 DEF FatSector
<1>2. ASSUME NEW i \in 0 .. NRootDir - 1 PROVE s[DirSect(i)][i % PerDir] \in DirEntry
  <2>2. DirSect(i) \in dirbase .. database - 1 /\ i % PerDir \in 0 .. PerDir - 1
    OBVIOUS
  <2>3. DirSect(i) \in Sector /\ SectorOf(DirSect(i)) = DirSector
    BY <2>2 DEF SectorOf
  <2>4. s[DirSect(i)] \in DirSector
    BY <2>3 DEF Medium
  <2> QED BY <2>2, <2>4 DEF DirSector
<1> QED BY <1>1, <1>2, Zenon DEF Table, Folder, Fat, Dir, Slot

\* The entry of a name has a type, and its slot when the directory is in order.
LEMMA EntryType ==
    ASSUME NEW D \in Folder, NEW n \in Name
    PROVE  /\ Entry(D, n).clust \in {0} \union Cluster /\ Entry(D, n).size \in Nat
           /\ \A i \in 0 .. NRootDir - 1 : DirOK(D) /\ D[i].name = n => Entry(D, n) = D[i]
           /\ (\A i \in 0 .. NRootDir - 1 : D[i].name # n) => Entry(D, n) = Blank(FALSE)
<1>1. CASE \E i \in 0 .. NRootDir - 1 : D[i].name = n
  <2> DEFINE j == CHOOSE i \in 0 .. NRootDir - 1 : D[i].name = n
  <2>1. j \in 0 .. NRootDir - 1 /\ D[j].name = n
    BY <1>1
  <2>2. Entry(D, n) = D[j]
    BY <1>1, Zenon DEF Entry
  <2> HIDE DEF j
  <2>3. D[j] \in DirEntry
    BY <2>1 DEF Folder
  <2>4. n # NoName
    BY FatFsAssumption
  <2>5. ASSUME NEW i \in 0 .. NRootDir - 1, DirOK(D), D[i].name = n PROVE i = j
    BY <2>1, <2>4, <2>5 DEF DirOK
  <2> QED BY <1>1, <2>2, <2>3, <2>5 DEF DirEntry
<1>2. CASE ~ \E i \in 0 .. NRootDir - 1 : D[i].name = n
  <2>1. Entry(D, n) = Blank(FALSE)
    BY <1>2, Zenon DEF Entry
  <2> QED BY <1>2, <2>1 DEF Blank
<1> QED BY <1>1, <1>2

\* Root and Size are those of the FIL or of the entry.
LEMMA RootType ==
    ASSUME NEW D \in Folder, NEW o \in [Name -> File]
    PROVE  /\ Root(D, o) \in [Name -> {0} \union Cluster] /\ Size(D, o) \in [Name -> Nat]
           /\ \A n \in Name : ~o[n].open => Root(D, o)[n] = Entry(D, n).clust /\ Size(D, o)[n] = Entry(D, n).size
           /\ \A n \in Name : o[n].open => Root(D, o)[n] = o[n].sclust /\ Size(D, o)[n] = o[n].fsize
           /\ \A n \in Name : o[n].open => o[n] \in OpenFile
<1>1. \A n \in Name : o[n].open => o[n] \in OpenFile
  <2> TAKE n \in Name
  <2>1. o[n] \in OpenFile \/ o[n] = NoFile
    BY DEF File
  <2> QED BY <2>1 DEF NoFile
<1>2. \A n \in Name : o[n].open => o[n].sclust \in {0} \union Cluster /\ o[n].fsize \in Nat
  BY <1>1 DEF OpenFile
<1>3. \A n \in Name : Entry(D, n).clust \in {0} \union Cluster /\ Entry(D, n).size \in Nat
  BY EntryType
<1> QED BY <1>1, <1>2, <1>3, Zenon DEF Root, Size

\* What holds together with the open files is in order without them.
LEMMA HeldFine ==
    ASSUME NEW s, NEW o, NEW L, NEW T, NEW X, NEW q,
           Holds(Fat(s), Dir(s), o, L, T, X, q)
    PROVE  Fine(s, L)
<1> DEFINE D == Dir(s)
           F == Fat(s)
<1>1. D \in Folder /\ o \in [Name -> File] /\ q \in Certificate /\ DirOK(D) /\ Filed(D, o, L)
      /\ Held(F, q, Root(D, o), Size(D, o), T, X) /\ Twinned(T, L)
  BY DEF Holds
<1>2. ASSUME NEW n \in Name \ L PROVE RootedAt(q, n, Entry(D, n).clust, Entry(D, n).size)
  <2>1. RootedAt(q, n, Root(D, o)[n], Size(D, o)[n])
    BY <1>1 DEF Held
  <2> HIDE DEF D
  <2>2. CASE ~o[n].open
    BY <1>1, <2>1, <2>2, RootType
  <2>3. CASE o[n].open
    <3>1. o[n] \in OpenFile /\ Root(D, o)[n] = o[n].sclust /\ Size(D, o)[n] = o[n].fsize
      BY <1>1, <2>3, RootType
    <3>2. D[o[n].slot].name = n /\ Fits(D[o[n].slot], o[n]) /\ o[n].slot \in 0 .. NRootDir - 1
      BY <1>1, <2>3, <3>1 DEF Filed, FiledAt, OpenFile
    <3>3. Entry(D, n) = D[o[n].slot]
      BY <1>1, <3>2, EntryType
    <3> DEFINE e == Entry(D, n)
    <3>4. Fits(e, o[n])
      BY <3>2, <3>3
    <3>5. e.size \in Nat /\ o[n].fsize \in Nat
      BY <1>1, <3>1, EntryType DEF OpenFile
    <3> DEFINE b == q.len[q.al[n]] * Bytes
    <3>6. b \in Nat
      <4>1. q.len[q.al[n]] \in Nat
        BY <1>1 DEF Certificate
      <4> QED BY <4>1, BytesNat
    <3>7. RootedAt(q, n, o[n].sclust, o[n].fsize)
      BY <2>1, <3>1
    <3> HIDE DEF e, b
    <3>8. RootedAt(q, n, e.clust, e.size)
      <4>1. CASE e.clust = 0 /\ e.size = 0
        BY <4>1 DEF RootedAt
      <4>2. CASE e.clust = o[n].sclust /\ e.size <= o[n].fsize
        <5>1. CASE o[n].sclust = 0 /\ o[n].fsize = 0
          BY <4>2, <5>1, <3>5 DEF RootedAt
        <5>2. CASE o[n].sclust \in Cluster /\ q.own[o[n].sclust] = q.al[n] /\ q.idx[o[n].sclust] = 0 /\ o[n].fsize <= b
          <6>1. e.size <= b
            BY <4>2, <5>2, <3>5, <3>6
          <6> QED BY <4>2, <5>2, <6>1, Zenon DEF RootedAt, b
        <5> QED BY <5>1, <5>2, <3>7, Zenon DEF RootedAt, b
      <4> QED BY <4>1, <4>2, <3>4, Zenon DEF Fits
    <3> QED BY <3>8 DEF e
  <2> QED BY <2>2, <2>3, Zenon
<1>3. \A n, k \in Name \ L : q.al[n] = q.al[k] => n = k
  <2> SUFFICES ASSUME NEW n \in Name \ L, NEW k \in Name \ L, q.al[n] = q.al[k], n # k
               PROVE  FALSE
    OBVIOUS
  <2>1. {n, k} \in T
    BY <1>1 DEF Held, Apart
  <2> QED BY <1>1, <2>1, Zenon DEF Twinned
<1> HIDE DEF D, F
<1> QED BY <1>1, <1>2, <1>3, Zenon DEF Fine, Held, D, F

\* Fewer names must fit when more are loose.
LEMMA FineMore ==
    ASSUME NEW s, NEW L, NEW M, Fine(s, L), L \subseteq M
    PROVE  Fine(s, M)
<1>1. PICK q \in Certificate :
          /\ Chained(Fat(s), q)
          /\ \A n \in Name \ L : RootedAt(q, n, Entry(Dir(s), n).clust, Entry(Dir(s), n).size)
          /\ \A n, k \in Name \ L : q.al[n] = q.al[k] => n = k
  BY Zenon DEF Fine
<1>2. \A n \in Name \ M : n \in Name \ L
  OBVIOUS
<1> QED BY <1>1, <1>2, Zenon DEF Fine

\* A step keeps InOrder when the new view holds together and the disk is old or as seen.
LEMMA InOrderStep ==
    ASSUME NEW m, NEW w, NEW o, NEW L, NEW T, NEW X, NEW q, InOrder(m, o, L, T, X, q),
           Sound(w), w.mounted, w.disk \in {m.disk, Seen(m)},
           NEW o1, NEW L1, NEW T1, NEW X1, NEW q1, L \subseteq L1,
           Holds(Fat(Seen(w)), Dir(Seen(w)), o1, L1, T1, X1, q1)
    PROVE  InOrder(w, o1, L1, T1, X1, q1)
<1>1. Fine(m.disk, L)
  BY DEF InOrder
<1>2. Fine(Seen(m), L)
  <2>1. Holds(Fat(Seen(m)), Dir(Seen(m)), o, L, T, X, q)
    BY DEF InOrder
  <2> QED BY <2>1, HeldFine
<1>3. Fine(w.disk, L)
  BY <1>1, <1>2
<1>4. Fine(w.disk, L1)
  BY <1>3, FineMore
<1> QED BY <1>4 DEF InOrder

\* A step that leaves the view alone keeps InOrder.
LEMMA InOrderPasses ==
    ASSUME NEW m, NEW w, NEW o, NEW L, NEW T, NEW X, NEW q, InOrder(m, o, L, T, X, q), Passes(m, w)
    PROVE  InOrder(w, o, L, T, X, q)
<1>1. Sound(w) /\ w.mounted = m.mounted /\ w.disk \in {m.disk, Seen(m)} /\ Seen(w) = Seen(m)
  BY DEF Passes
<1>2. m.mounted /\ Holds(Fat(Seen(m)), Dir(Seen(m)), o, L, T, X, q)
  BY DEF InOrder
<1>3. Holds(Fat(Seen(w)), Dir(Seen(w)), o, L, T, X, q)
  BY <1>1, <1>2
<1>4. w.mounted
  BY <1>1, <1>2, Zenon
<1> QED BY <1>1, <1>3, <1>4, InOrderStep

-------------------------------------------------------------------------------
(* What the FAT operations do to the certificate *)

\* A name without a first cluster owns no cluster, the two names of a broken-off rename apart.
Silent(r, S, T) ==
    \A k \in Name : S[k] = 0 /\ (\A j \in Name : {k, j} \notin T) => \A c \in Cluster : r.own[c] # r.al[k]

\* The chains of a new ownership stay apart if no empty file comes to own a cluster.
LEMMA ApartFrom ==
    ASSUME NEW q, NEW r, NEW R, NEW S, NEW T, Apart(q, R, T), r.al = q.al, Silent(r, S, T)
    PROVE  Apart(r, S, T)
BY Zenon DEF Apart, Silent

\* The entry of a cluster no chain owns may be written.
LEMMA ChainedMore ==
    ASSUME NEW F \in Table, NEW q \in Certificate, Chained(F, q), NEW c \in Cluster, q.own[c] = NoName, NEW x
    PROVE  Chained([F EXCEPT ![c] = x], q)
<1> DEFINE G == [F EXCEPT ![c] = x]
<1>1. \A d \in Cluster : q.own[d] # NoName => G[d] = F[d]
  BY DEF Table
<1> HIDE DEF G
<1> QED BY <1>1, Zenon DEF Chained, G

\* So may it under Holds, when it leads nowhere.
LEMMA PutUnowned ==
    ASSUME NEW F, NEW D, NEW o, NEW L, NEW T, NEW X, NEW q, Holds(F, D, o, L, T, X, q),
           NEW c \in Cluster, q.own[c] = NoName, NEW x \in 0 .. n_fatent, x \notin Cluster
    PROVE  Holds([F EXCEPT ![c] = x], D, o, L, T, X, q)
<1> DEFINE G == [F EXCEPT ![c] = x]
<1>1. F \in Table /\ q \in Certificate /\ Held(F, q, Root(D, o), Size(D, o), T, X)
  BY DEF Holds
<1>2. Chained(G, q)
  BY <1>1, ChainedMore DEF Held
<1>3. G \in Table
  BY <1>1 DEF Table
<1>4. Closed(G, q, X)
  <2>1. \A d \in Cluster : G[d] = IF d = c THEN x ELSE F[d]
    BY <1>1 DEF Table
  <2> HIDE DEF G
  <2> QED BY <1>1, <2>1 DEF Held, Closed
<1> HIDE DEF G
<1>5. Held(G, q, Root(D, o), Size(D, o), T, X)
  BY <1>1, <1>2, <1>4, Zenon DEF Held
<1> QED BY <1>3, <1>5, Zenon DEF Holds, G

\* One open file may change within its chain.
LEMMA FileChange ==
    ASSUME NEW F, NEW D, NEW o, NEW L, NEW T, NEW X, NEW q, Holds(F, D, o, L, T, X, q),
           NEW n \in Name, NEW p \in File, NEW L1, L \subseteq L1,
           NEW z, z = (IF p.open THEN p.fsize ELSE Entry(D, n).size),
           (IF p.open THEN p.sclust ELSE Entry(D, n).clust) = Root(D, o)[n],
           RootedAt(q, n, Root(D, o)[n], z), FiledAt(D, n, p, L1), PosOK(q, n, p)
    PROVE  Holds(F, D, [o EXCEPT ![n] = p], L1, T, X, q)
<1> DEFINE o1 == [o EXCEPT ![n] = p]
<1>1. /\ F \in Table /\ D \in Folder /\ o \in [Name -> File] /\ q \in Certificate
      /\ Twinned(T, L) /\ DirOK(D) /\ Filed(D, o, L) /\ Held(F, q, Root(D, o), Size(D, o), T, X)
      /\ \A k \in Name : PosOK(q, k, o[k])
  BY DEF Holds
<1>2. o1 \in [Name -> File] /\ o1[n] = p /\ \A k \in Name : k # n => o1[k] = o[k]
  BY <1>1
<1> HIDE DEF o1
<1>3. Twinned(T, L1)
  BY <1>1 DEF Twinned
<1>4. Filed(D, o1, L1)
  <2> SUFFICES ASSUME NEW k \in Name PROVE FiledAt(D, k, o1[k], L1)
    BY Zenon DEF Filed
  <2>1. CASE k = n
    BY <2>1, <1>2
  <2>2. CASE k # n
    <3>1. FiledAt(D, k, o[k], L)
      BY <1>1, Zenon DEF Filed
    <3> QED BY <2>2, <1>2, <3>1 DEF FiledAt
  <2> QED BY <2>1, <2>2
<1>5. \A k \in Name : PosOK(q, k, o1[k])
  BY <1>1, <1>2
<1>6. Root(D, o1) = Root(D, o) /\ \A k \in Name : Size(D, o1)[k] = IF k = n THEN z ELSE Size(D, o)[k]
  <2>1. \A k \in Name : Root(D, o1)[k] = Root(D, o)[k]
    <3> TAKE k \in Name
    <3>1. CASE k = n
      BY <3>1, <1>2, Zenon DEF Root
    <3>2. CASE k # n
      BY <3>2, <1>2, Zenon DEF Root
    <3> QED BY <3>1, <3>2
  <2>2. Root(D, o1) = [k \in Name |-> Root(D, o1)[k]] /\ Root(D, o) = [k \in Name |-> Root(D, o)[k]]
    BY Zenon DEF Root
  <2>3. ASSUME NEW k \in Name PROVE Size(D, o1)[k] = IF k = n THEN z ELSE Size(D, o)[k]
    <3>1. CASE k = n
      BY <3>1, <1>2, Zenon DEF Size
    <3>2. CASE k # n
      BY <3>2, <1>2, Zenon DEF Size
    <3> QED BY <3>1, <3>2
  <2>4. Root(D, o1) = Root(D, o)
    BY <2>1, <2>2, Zenon
  <2> QED BY <2>3, <2>4
<1>7. \A k \in Name : RootedAt(q, k, Root(D, o1)[k], Size(D, o1)[k])
  BY <1>1, <1>6 DEF Held
<1>8. Held(F, q, Root(D, o1), Size(D, o1), T, X)
  BY <1>1, <1>6, <1>7, Zenon DEF Held
<1> QED BY <1>1, <1>2, <1>3, <1>4, <1>5, <1>8, Zenon DEF Holds, o1

\* Multiples of the cluster size.
LEMMA LenBytes ==
    ASSUME NEW a \in Nat, NEW b \in Nat, a <= b
    PROVE  a * Bytes <= b * Bytes /\ a * Bytes \in Nat /\ (a < b => a * Bytes < b * Bytes)
           /\ (a + 1) * Bytes = a * Bytes + Bytes /\ (a < b => (a + 1) * Bytes <= b * Bytes)
<1> DEFINE B == Bytes
<1>1. B \in Nat /\ B > 0
  BY BytesNat
<1> HIDE DEF B
<1>2. a * B <= b * B /\ a * B \in Nat /\ (a < b => a * B < b * B)
      /\ (a + 1) * B = a * B + B /\ (a < b => (a + 1) * B <= b * B)
  BY <1>1, SMTT(30)
<1> QED BY <1>2 DEF B

\* Where a certificate only grows, what stands in a chain keeps its place
Grows(q, r) ==
    /\ r.al = q.al
    /\ \A c \in Cluster : q.own[c] # NoName =>
          r.own[c] = q.own[c] /\ r.idx[c] = q.idx[c] /\ q.len[q.own[c]] <= r.len[q.own[c]]

\* A longer chain still holds the files and their pointers.
LEMMA GrowsKeeps ==
    ASSUME NEW q \in Certificate, NEW r \in Certificate, Grows(q, r), NEW n \in Name
    PROVE  /\ \A p \in File : PosOK(q, n, p) => PosOK(r, n, p)
           /\ \A root \in {0} \union Cluster, size \in Nat : RootedAt(q, n, root, size) => RootedAt(r, n, root, size)
<1>1. q.al[n] \in Name /\ q.al[n] # NoName /\ r.al[n] = q.al[n]
  BY FatFsAssumption DEF Certificate, Grows
<1>2. ASSUME NEW p \in File, PosOK(q, n, p) PROVE PosOK(r, n, p)
  <2>1. \A c \in Cluster : q.own[c] = q.al[n] => r.own[c] = r.al[n] /\ r.idx[c] = q.idx[c]
    BY <1>1 DEF Grows
  <2> QED BY <1>2, <2>1, Zenon DEF PosOK
<1>3. ASSUME NEW root \in {0} \union Cluster, NEW size \in Nat, RootedAt(q, n, root, size) PROVE RootedAt(r, n, root, size)
  <2>1. CASE root = 0 /\ size = 0
    BY <2>1 DEF RootedAt
  <2>2. CASE root \in Cluster /\ q.own[root] = q.al[n] /\ q.idx[root] = 0 /\ size <= q.len[q.al[n]] * Bytes
    <3>1. r.own[root] = r.al[n] /\ r.idx[root] = 0
      BY <1>1, <2>2 DEF Grows
    <3>2. q.len[q.al[n]] \in Nat /\ r.len[q.al[n]] \in Nat /\ q.len[q.al[n]] <= r.len[q.al[n]]
      BY <1>1, <2>2 DEF Grows, Certificate
    <3> DEFINE x == q.len[q.al[n]] * Bytes
               y == r.len[q.al[n]] * Bytes
    <3>3. x <= y /\ x \in Nat /\ y \in Nat
      BY <3>2, LenBytes
    <3>4. size <= x
      BY <2>2
    <3> HIDE DEF x, y
    <3>5. size <= y
      BY <3>3, <3>4
    <3> QED BY <1>1, <2>2, <3>1, <3>5 DEF RootedAt, y
  <2> QED BY <2>1, <2>2, <1>3 DEF RootedAt
<1> QED BY <1>2, <1>3

\* The last cluster t of the chain of n gets a successor
LEMMA LinkTail ==
    ASSUME NEW F, NEW D, NEW o, NEW L, NEW T, NEW X, NEW q, Holds(F, D, o, L, T, X, q),
           NEW n \in Name, NEW t \in Cluster, q.own[t] = q.al[n], F[t] = EndOfChain,
           NEW u \in Cluster, q.own[u] = NoName, F[u] = EndOfChain, u \notin X
    PROVE  \E r : /\ Holds([F EXCEPT ![t] = u], D, o, L, T, X, r) /\ Grows(q, r)
                  /\ r.own[u] = q.al[n] /\ r.idx[u] = q.idx[t] + 1
<1> DEFINE G == [F EXCEPT ![t] = u]
           a == q.al[n]
           r == [own |-> [q.own EXCEPT ![u] = a], idx |-> [q.idx EXCEPT ![u] = q.idx[t] + 1],
                 len |-> [q.len EXCEPT ![a] = @ + 1], al |-> q.al]
<1>1. /\ F \in Table /\ D \in Folder /\ o \in [Name -> File] /\ q \in Certificate
      /\ Twinned(T, L) /\ DirOK(D) /\ Filed(D, o, L) /\ Held(F, q, Root(D, o), Size(D, o), T, X)
      /\ \A k \in Name : PosOK(q, k, o[k])
  BY DEF Holds
<1>2. a \in Name /\ a # NoName /\ q.idx[t] \in Nat /\ t # u /\ q.len[a] \in Nat
  BY <1>1, FatFsAssumption DEF Certificate
<1>3. r \in Certificate
  BY <1>1, <1>2 DEF Certificate
<1>4. /\ \A c \in Cluster : c # u => r.own[c] = q.own[c] /\ r.idx[c] = q.idx[c]
      /\ r.own[u] = a /\ r.idx[u] = q.idx[t] + 1
      /\ \A b \in Name : r.len[b] = IF b = a THEN q.len[b] + 1 ELSE q.len[b]
      /\ r.al = q.al
  BY <1>1, <1>2 DEF Certificate
<1>5. /\ \A c \in Cluster : G[c] = IF c = t THEN u ELSE F[c]
      /\ G \in Table
  BY <1>1, <1>2, ClusterFacts DEF Table
<1> HIDE DEF r, G
<1>6. Chained(F, q) /\ q.idx[t] + 1 = q.len[a]
  <2>1. Chained(F, q)
    BY <1>1 DEF Held
  <2> QED BY <1>2, <2>1, ClusterFacts DEF Chained
<1>7. Chained(G, r)
  <2>1. ASSUME NEW c \in Cluster, r.own[c] # NoName
        PROVE /\ r.idx[c] < r.len[r.own[c]]
              /\ r.idx[c] + 1 = r.len[r.own[c]] => G[c] = EndOfChain
              /\ r.idx[c] + 1 # r.len[r.own[c]] =>
                   G[c] \in Cluster /\ r.own[G[c]] = r.own[c] /\ r.idx[G[c]] = r.idx[c] + 1
    <3>1. CASE c = u
      <4>1. r.own[c] = a /\ r.len[a] = q.len[a] + 1 /\ r.idx[c] = q.len[a] /\ G[c] = EndOfChain
        BY <3>1, <1>2, <1>4, <1>5, <1>6
      <4> QED BY <4>1, <1>2
    <3>2. CASE c = t
      <4>1. r.own[c] = a /\ r.idx[c] = q.idx[t] /\ r.len[a] = q.len[a] + 1 /\ G[c] = u
        BY <3>2, <1>2, <1>4, <1>5
      <4> QED BY <4>1, <1>2, <1>4, <1>6
    <3>3. CASE c # u /\ c # t
      <4>1. r.own[c] = q.own[c] /\ r.idx[c] = q.idx[c] /\ G[c] = F[c] /\ q.own[c] \in Name
        BY <3>3, <1>1, <1>4, <1>5, <2>1 DEF Certificate
      <4>2. /\ q.idx[c] < q.len[q.own[c]]
            /\ q.idx[c] + 1 = q.len[q.own[c]] => F[c] = EndOfChain
            /\ q.idx[c] + 1 # q.len[q.own[c]] =>
                  F[c] \in Cluster /\ q.own[F[c]] = q.own[c] /\ q.idx[F[c]] = q.idx[c] + 1
        BY <4>1, <1>6, <2>1 DEF Chained
      <4>3. q.own[c] = a => q.idx[c] + 1 # q.len[a]
        BY <3>3, <1>2, <1>6, <4>1, <1>1 DEF Chained, Certificate
      <4>4. q.idx[c] \in Nat /\ q.len[q.own[c]] \in Nat
        BY <1>1, <4>1 DEF Certificate
      <4>5. CASE q.own[c] = a
        <5>1. F[c] \in Cluster /\ q.own[F[c]] = a /\ q.idx[F[c]] = q.idx[c] + 1
          BY <4>2, <4>3, <4>5
        <5>2. F[c] # u
          BY <5>1, <1>2
        <5>3. r.len[a] = q.len[a] + 1
          BY <1>2, <1>4
        <5>4. r.idx[c] < r.len[a] /\ r.idx[c] + 1 # r.len[a]
          BY <4>1, <4>2, <4>4, <4>5, <5>3
        <5> QED BY <4>1, <4>5, <5>1, <5>2, <5>4, <1>4
      <4>6. CASE q.own[c] # a
        <5>1. r.len[q.own[c]] = q.len[q.own[c]]
          BY <4>1, <4>6, <1>4
        <5>2. F[c] \in Cluster /\ q.own[F[c]] = q.own[c] => F[c] # u
          BY <4>1, <1>1, FatFsAssumption DEF Certificate
        <5> QED BY <4>1, <4>2, <5>1, <5>2, <1>4
      <4> QED BY <4>5, <4>6
    <3> QED BY <3>1, <3>2, <3>3
  <2>2. ASSUME NEW c \in Cluster, NEW d \in Cluster, r.own[c] = r.own[d], r.own[c] # NoName, r.idx[c] = r.idx[d]
        PROVE  c = d
    <3>1. \A e \in Cluster : e # u /\ q.own[e] = a => q.idx[e] # q.idx[t] + 1
      BY <1>2, <1>6 DEF Chained
    <3> QED BY <2>2, <3>1, <1>4, <1>6 DEF Chained
  <2> QED BY <2>1, <2>2, Zenon DEF Chained
<1>8. Grows(q, r)
  BY <1>4, <1>1, <1>2 DEF Grows, Certificate
<1>9. Held(G, r, Root(D, o), Size(D, o), T, X)
  <2>1. \A k \in Name : RootedAt(r, k, Root(D, o)[k], Size(D, o)[k])
    <3> TAKE k \in Name
    <3>1. RootedAt(q, k, Root(D, o)[k], Size(D, o)[k])
      BY <1>1 DEF Held
    <3>2. Root(D, o)[k] \in {0} \union Cluster /\ Size(D, o)[k] \in Nat
      BY <1>1, RootType
    <3> QED BY <1>1, <1>3, <1>8, <3>1, <3>2, GrowsKeeps
  <2>2. Apart(r, Root(D, o), T)
    <3>1. Apart(q, Root(D, o), T)
      BY <1>1 DEF Held
    <3>2. ASSUME NEW k \in Name, Root(D, o)[k] = 0, \A j \in Name : {k, j} \notin T, NEW c \in Cluster
          PROVE  r.own[c] # r.al[k]
      <4>1. \A d \in Cluster : q.own[d] # q.al[k]
        BY <3>1, <3>2, Zenon DEF Apart
      <4> QED BY <4>1, <1>4
    <3>3. Silent(r, Root(D, o), T)
      BY <3>2, Zenon DEF Silent
    <3> QED BY <3>1, <3>3, <1>4, ApartFrom
  <2>3. Closed(G, r, X)
    <3>1. Closed(F, q, X)
      BY <1>1 DEF Held
    <3>2. t \notin X
      BY <3>1, <1>2 DEF Closed
    <3> QED BY <3>1, <3>2, <1>4, <1>5 DEF Closed
  <2> QED BY <1>7, <2>1, <2>2, <2>3, Zenon DEF Held
<1>10. \A k \in Name : PosOK(r, k, o[k])
  <2> TAKE k \in Name
  <2>1. o[k] \in File /\ PosOK(q, k, o[k])
    BY <1>1
  <2> QED BY <2>1, <1>1, <1>3, <1>8, GrowsKeeps
<1>11. Holds(G, D, o, L, T, X, r)
  BY <1>1, <1>3, <1>5, <1>9, <1>10, Zenon DEF Holds
<1> QED BY <1>4, <1>8, <1>11 DEF G

\* The new cluster u becomes the chain of the open file n, which had none
\* p is the object e of a file with u as its first cluster, its position as yet unknown
Rooted(e, p, u) ==
    /\ p \in OpenFile /\ p.open /\ p.sclust = u /\ p.fsize = e.fsize /\ p.slot = e.slot
    /\ p.written = e.written /\ p.dirty = e.dirty /\ p.dsect = e.dsect /\ p.err # "FR_OK"

\* The open files with one of them replaced.
With(o, n, p) == [o EXCEPT ![n] = p]

\* An open file without a chain takes a cluster of its own.
LEMMA NewRoot ==
    ASSUME NEW F, NEW D, NEW o, NEW L, NEW T, NEW X, NEW q, Holds(F, D, o, L, T, X, q),
           NEW n \in Name, o[n].open, o[n].sclust = 0, \A k \in Name : {n, k} \notin T,
           NEW u \in Cluster, q.own[u] = NoName, F[u] = EndOfChain, u \notin X,
           NEW p, Rooted(o[n], p, u)
    PROVE  \E r : /\ Holds(F, D, With(o, n, p), L, T, X, r) /\ Grows(q, r)
                  /\ r.own[u] = q.al[n] /\ r.idx[u] = 0
<1> DEFINE a == q.al[n]
           r == [own |-> [q.own EXCEPT ![u] = a], idx |-> [q.idx EXCEPT ![u] = 0],
                 len |-> [q.len EXCEPT ![a] = 1], al |-> q.al]
           o1 == [o EXCEPT ![n] = p]
<1>0. /\ p \in OpenFile /\ p.open /\ p.sclust = u /\ p.fsize = o[n].fsize /\ p.slot = o[n].slot
      /\ p.written = o[n].written /\ p.dirty = o[n].dirty /\ p.dsect = o[n].dsect /\ p.err # "FR_OK"
  BY Zenon DEF Rooted
<1>1. /\ F \in Table /\ D \in Folder /\ o \in [Name -> File] /\ q \in Certificate
      /\ Twinned(T, L) /\ DirOK(D) /\ Filed(D, o, L) /\ Held(F, q, Root(D, o), Size(D, o), T, X)
      /\ \A k \in Name : PosOK(q, k, o[k])
  BY DEF Holds
<1>2. a \in Name /\ a # NoName
  BY <1>1, FatFsAssumption DEF Certificate
<1>3. r \in Certificate
  BY <1>1, <1>2 DEF Certificate
<1>4. /\ \A c \in Cluster : c # u => r.own[c] = q.own[c] /\ r.idx[c] = q.idx[c]
      /\ r.own[u] = a /\ r.idx[u] = 0
      /\ \A b \in Name : r.len[b] = IF b = a THEN 1 ELSE q.len[b]
      /\ r.al = q.al
  BY <1>1, <1>2 DEF Certificate
<1> HIDE DEF r
<1>5. Chained(F, q) /\ Apart(q, Root(D, o), T) /\ Closed(F, q, X)
  BY <1>1 DEF Held
<1>6. o[n] \in OpenFile /\ Root(D, o)[n] = 0
  BY <1>1, RootType
<1>7. \A c \in Cluster : q.own[c] # a
  BY <1>5, <1>6 DEF Apart
<1>8. \A k \in Name : k # n => q.al[k] # a
  BY <1>5 DEF Apart
<1>9. Chained(F, r)
  <2>1. ASSUME NEW c \in Cluster, r.own[c] # NoName
        PROVE /\ r.idx[c] < r.len[r.own[c]]
              /\ r.idx[c] + 1 = r.len[r.own[c]] => F[c] = EndOfChain
              /\ r.idx[c] + 1 # r.len[r.own[c]] =>
                   F[c] \in Cluster /\ r.own[F[c]] = r.own[c] /\ r.idx[F[c]] = r.idx[c] + 1
    <3>1. CASE c = u
      BY <3>1, <1>2, <1>4
    <3>2. CASE c # u
      <4>1. r.own[c] = q.own[c] /\ r.idx[c] = q.idx[c] /\ q.own[c] \in Name /\ q.own[c] # a
        BY <3>2, <1>1, <1>4, <1>7, <2>1 DEF Certificate
      <4>2. /\ q.idx[c] < q.len[q.own[c]]
            /\ q.idx[c] + 1 = q.len[q.own[c]] => F[c] = EndOfChain
            /\ q.idx[c] + 1 # q.len[q.own[c]] =>
                  F[c] \in Cluster /\ q.own[F[c]] = q.own[c] /\ q.idx[F[c]] = q.idx[c] + 1
        BY <4>1, <1>5, <2>1 DEF Chained
      <4>3. F[c] \in Cluster /\ q.own[F[c]] = q.own[c] => F[c] # u
        BY <4>1, FatFsAssumption
      <4> QED BY <4>1, <4>2, <4>3, <1>4
    <3> QED BY <3>1, <3>2
  <2>2. ASSUME NEW c \in Cluster, NEW d \in Cluster, r.own[c] = r.own[d], r.own[c] # NoName, r.idx[c] = r.idx[d]
        PROVE  c = d
    BY <2>2, <1>4, <1>5, <1>7 DEF Chained
  <2> QED BY <2>1, <2>2, Zenon DEF Chained
<1>10. Grows(q, r)
  <2>1. \A c \in Cluster : q.own[c] # NoName => q.own[c] \in Name /\ q.own[c] # a /\ c # u /\ q.len[q.own[c]] \in Nat
    BY <1>1, <1>7 DEF Certificate
  <2> QED BY <1>4, <2>1 DEF Grows
<1>12. o1 \in [Name -> File] /\ o1[n] = p /\ \A k \in Name : k # n => o1[k] = o[k]
  BY <1>0, <1>1 DEF File
<1> HIDE DEF o1
<1>13. \A k \in Name : /\ Root(D, o1)[k] = IF k = n THEN u ELSE Root(D, o)[k]
                       /\ Size(D, o1)[k] = Size(D, o)[k]
  <2> TAKE k \in Name
  <2>1. CASE k = n
    <3>1. Root(D, o1)[n] = p.sclust /\ Size(D, o1)[n] = p.fsize /\ Size(D, o)[n] = o[n].fsize
      BY <1>0, <1>1, <1>12, RootType
    <3> QED BY <1>0, <2>1, <3>1
  <2>2. CASE k # n
    <3>1. o1[k] = o[k]
      BY <2>2, <1>12
    <3>2. Root(D, o1)[k] = Root(D, o)[k] /\ Size(D, o1)[k] = Size(D, o)[k]
      BY <3>1, Zenon DEF Root, Size
    <3> QED BY <2>2, <3>2
  <2> QED BY <2>1, <2>2
<1>14. \A k \in Name : RootedAt(r, k, Root(D, o1)[k], Size(D, o1)[k])
  <2> TAKE k \in Name
  <2>0. RootedAt(q, k, Root(D, o)[k], Size(D, o)[k])
    BY <1>1 DEF Held
  <2>1. CASE k = n
    <3>1. Size(D, o)[n] = 0
      BY <2>0, <2>1, <1>6, ClusterFacts DEF RootedAt
    <3>2. r.len[r.al[n]] * Bytes = Bytes
      <4>1. r.len[r.al[n]] = 1
        BY <1>2, <1>4
      <4> QED BY <4>1, BytesNat
    <3> QED BY <2>1, <3>1, <3>2, <1>4, <1>13, BytesNat DEF RootedAt
  <2>2. CASE k # n
    <3>1. Root(D, o)[k] \in {0} \union Cluster /\ Size(D, o)[k] \in Nat
      BY <1>1, RootType
    <3>2. RootedAt(r, k, Root(D, o)[k], Size(D, o)[k])
      BY <2>0, <3>1, <1>1, <1>3, <1>10, GrowsKeeps
    <3> QED BY <2>2, <3>2, <1>13
  <2> QED BY <2>1, <2>2
<1>15. Apart(r, Root(D, o1), T)
  <2>1. ASSUME NEW k \in Name, Root(D, o1)[k] = 0, \A j \in Name : {k, j} \notin T, NEW c \in Cluster
        PROVE  r.own[c] # r.al[k]
    <3>1. k # n /\ Root(D, o)[k] = 0
      BY <2>1, <1>13, ClusterFacts
    <3>2. \A d \in Cluster : q.own[d] # q.al[k]
      BY <3>1, <2>1, <1>5, Zenon DEF Apart
    <3> QED BY <3>1, <3>2, <1>4, <1>8
  <2>2. Silent(r, Root(D, o1), T)
    BY <2>1, Zenon DEF Silent
  <2> QED BY <2>2, <1>4, <1>5, ApartFrom
<1>16. Closed(F, r, X)
  BY <1>4, <1>5 DEF Closed
<1>17. \A k \in Name : PosOK(r, k, o1[k])
  <2> TAKE k \in Name
  <2>1. PosOK(r, k, o[k])
    BY <1>1, <1>3, <1>10, GrowsKeeps
  <2>2. CASE k = n
    BY <1>0, <2>2, <1>12, Zenon DEF PosOK
  <2>3. CASE k # n
    BY <2>1, <2>3, <1>12
  <2> QED BY <2>2, <2>3
<1>18. Filed(D, o1, L)
  <2> SUFFICES ASSUME NEW k \in Name PROVE FiledAt(D, k, o1[k], L)
    BY Zenon DEF Filed
  <2>1. FiledAt(D, k, o[k], L)
    BY <1>1, Zenon DEF Filed
  <2>2. CASE k = n
    <3>1. Size(D, o)[n] = 0 /\ Size(D, o)[n] = o[n].fsize
      BY <1>1, <1>6, ClusterFacts, RootType DEF Held, RootedAt
    <3>2. o[n].slot \in 0 .. NRootDir - 1
      BY <1>6 DEF OpenFile
    <3>3. D[o[n].slot].size \in Nat
      BY <1>1, <3>2 DEF Folder, DirEntry
    <3>4. Fits(D[o[n].slot], o[n]) => Fits(D[o[n].slot], p)
      BY <1>0, <3>1, <3>3 DEF Fits
    <3>5. BufOK(o[n]) => BufOK(p)
      BY <1>0, Zenon DEF BufOK
    <3>6. FiledAt(D, n, o[n], L)
      BY <2>1, <2>2
    <3>7. FiledAt(D, n, p, L)
      BY <3>4, <3>5, <3>6, <1>0, Zenon DEF FiledAt
    <3> QED BY <2>2, <3>7, <1>12
  <2>3. CASE k # n
    BY <2>1, <2>3, <1>12
  <2> QED BY <2>2, <2>3
<1>19. Held(F, r, Root(D, o1), Size(D, o1), T, X)
  BY <1>9, <1>14, <1>15, <1>16, Zenon DEF Held
<1>20. Holds(F, D, o1, L, T, X, r)
  BY <1>1, <1>3, <1>12, <1>17, <1>18, <1>19, Zenon DEF Holds
<1> QED BY <1>4, <1>10, <1>20 DEF o1, With

\* What is no longer owned once the chain of a ends at place i
Behind(q, a, i) == {c \in Cluster : q.own[c] = a /\ q.idx[c] > i}

\* The chain of n ends at t from now on
CutShort(F, D, o, L, T, q, n, t, r) ==
    /\ Holds([F EXCEPT ![t] = EndOfChain], D, o, L, T, Behind(q, q.al[n], q.idx[t]), r)
    /\ r.own[t] = q.own[t] /\ r.al = q.al /\ r.idx = q.idx

\* A chain cut behind a cluster: the rest is let go (f_truncate).
LEMMA CutAt ==
    ASSUME NEW F, NEW D, NEW o, NEW L, NEW T, NEW q, Holds(F, D, o, L, T, {}, q),
           NEW n \in Name, o[n].open, \A k \in Name : {n, k} \notin T,
           NEW t \in Cluster, q.own[t] = q.al[n], o[n].clust = t, o[n].fsize <= (q.idx[t] + 1) * Bytes
    PROVE  \E r : CutShort(F, D, o, L, T, q, n, t, r)
<1> DEFINE G == [F EXCEPT ![t] = EndOfChain]
           a == q.al[n]
           X == Behind(q, a, q.idx[t])
           r == [own |-> [c \in Cluster |-> IF c \in X THEN NoName ELSE q.own[c]], idx |-> q.idx,
                 len |-> [q.len EXCEPT ![a] = q.idx[t] + 1], al |-> q.al]
<1>1. /\ F \in Table /\ D \in Folder /\ o \in [Name -> File] /\ q \in Certificate
      /\ Twinned(T, L) /\ DirOK(D) /\ Filed(D, o, L) /\ Held(F, q, Root(D, o), Size(D, o), T, {})
      /\ \A k \in Name : PosOK(q, k, o[k])
  BY DEF Holds
<1>2. a \in Name /\ a # NoName /\ q.idx[t] \in Nat
  BY <1>1, FatFsAssumption DEF Certificate
<1>3. r \in Certificate
  BY <1>1, <1>2 DEF Certificate
<1>4. /\ \A c \in Cluster : r.own[c] = IF c \in X THEN NoName ELSE q.own[c]
      /\ r.idx = q.idx /\ r.al = q.al
      /\ \A b \in Name : r.len[b] = IF b = a THEN q.idx[t] + 1 ELSE q.len[b]
  BY <1>1, <1>2 DEF Certificate
<1>5. /\ \A c \in Cluster : G[c] = IF c = t THEN EndOfChain ELSE F[c]
      /\ G \in Table
  BY <1>1, ClusterFacts DEF Table
<1>6. \A c \in Cluster : c \in X <=> q.own[c] = a /\ q.idx[c] > q.idx[t]
  BY DEF Behind
<1>7. X \subseteq Cluster /\ t \notin X
  BY <1>2 DEF Behind
<1> HIDE DEF r, G, X
<1>8. Chained(F, q) /\ Apart(q, Root(D, o), T)
  BY <1>1 DEF Held
<1>9. \A k \in Name : k # n => q.al[k] # a
  BY <1>8 DEF Apart
<1>10. \A c \in Cluster : q.own[c] # NoName => q.own[c] \in Name /\ q.idx[c] \in Nat /\ q.len[q.own[c]] \in Nat
  BY <1>1 DEF Certificate
<1>11. Chained(G, r)
  <2>1. ASSUME NEW c \in Cluster, r.own[c] # NoName
        PROVE /\ r.idx[c] < r.len[r.own[c]]
              /\ r.idx[c] + 1 = r.len[r.own[c]] => G[c] = EndOfChain
              /\ r.idx[c] + 1 # r.len[r.own[c]] =>
                   G[c] \in Cluster /\ r.own[G[c]] = r.own[c] /\ r.idx[G[c]] = r.idx[c] + 1
    <3>0. c \notin X /\ r.own[c] = q.own[c] /\ q.own[c] # NoName /\ r.idx[c] = q.idx[c]
      BY <2>1, <1>4
    <3>1. /\ q.idx[c] < q.len[q.own[c]]
          /\ q.idx[c] + 1 = q.len[q.own[c]] => F[c] = EndOfChain
          /\ q.idx[c] + 1 # q.len[q.own[c]] =>
                F[c] \in Cluster /\ q.own[F[c]] = q.own[c] /\ q.idx[F[c]] = q.idx[c] + 1
      BY <3>0, <1>8 DEF Chained
    <3>2. CASE q.own[c] = a
      <4>1. q.idx[c] <= q.idx[t] /\ r.len[r.own[c]] = q.idx[t] + 1 /\ q.idx[c] \in Nat
        BY <3>0, <3>2, <1>2, <1>4, <1>6, <1>10
      <4>2. CASE c = t
        BY <4>1, <4>2, <3>0, <1>2, <1>4, <1>5
      <4>3. CASE c # t
        <5>1. q.idx[c] # q.idx[t]
          BY <4>3, <3>2, <1>2, <1>8 DEF Chained
        <5>2. q.idx[t] < q.len[a]
          BY <1>2, <1>8 DEF Chained
        <5>3. q.len[a] \in Nat
          BY <1>2, <1>10
        <5>4. q.idx[c] + 1 # q.len[q.own[c]]
          BY <3>2, <4>1, <5>1, <5>2, <5>3, <1>2
        <5>5. F[c] \in Cluster /\ q.own[F[c]] = a /\ q.idx[F[c]] = q.idx[c] + 1 /\ G[c] = F[c]
          BY <3>1, <3>2, <4>3, <5>4, <1>5
        <5>6. F[c] \notin X
          BY <4>1, <5>1, <5>5, <1>2, <1>6
        <5> QED BY <3>0, <3>2, <4>1, <5>1, <5>5, <5>6, <1>2, <1>4
      <4> QED BY <4>2, <4>3
    <3>3. CASE q.own[c] # a
      <4>1. c # t /\ G[c] = F[c] /\ r.len[r.own[c]] = q.len[q.own[c]]
        BY <3>0, <3>3, <1>4, <1>5, <1>10
      <4>2. F[c] \in Cluster /\ q.own[F[c]] = q.own[c] => F[c] \notin X
        BY <3>3, <1>6
      <4> QED BY <3>0, <3>1, <4>1, <4>2, <1>4
    <3> QED BY <3>2, <3>3
  <2>2. ASSUME NEW c \in Cluster, NEW d \in Cluster, r.own[c] = r.own[d], r.own[c] # NoName, r.idx[c] = r.idx[d]
        PROVE  c = d
    <3>1. r.own[c] = q.own[c] /\ r.own[d] = q.own[d]
      BY <2>2, <1>4
    <3>2. q.own[c] = q.own[d] /\ q.own[c] # NoName /\ q.idx[c] = q.idx[d]
      BY <2>2, <3>1, <1>4
    <3> QED BY <3>2, <1>8, Zenon DEF Chained
  <2> QED BY <2>1, <2>2, Zenon DEF Chained
<1>12. ASSUME NEW k \in Name PROVE RootedAt(r, k, Root(D, o)[k], Size(D, o)[k])
  <2>0. RootedAt(q, k, Root(D, o)[k], Size(D, o)[k])
    BY <1>1 DEF Held
  <2>1. CASE k = n
    <3>1. Root(D, o)[n] = o[n].sclust /\ Size(D, o)[n] = o[n].fsize
      BY <1>1, RootType
    <3>2. CASE Root(D, o)[n] = 0 /\ Size(D, o)[n] = 0
      BY <2>1, <3>2 DEF RootedAt
    <3>3. CASE Root(D, o)[n] \in Cluster /\ q.own[Root(D, o)[n]] = a /\ q.idx[Root(D, o)[n]] = 0
      <4>1. Root(D, o)[n] \notin X
        BY <3>3, <1>2, <1>6
      <4>2. r.own[Root(D, o)[n]] = a /\ r.idx[Root(D, o)[n]] = 0 /\ r.al[n] = a /\ r.len[a] = q.idx[t] + 1
        BY <3>3, <4>1, <1>2, <1>4
      <4>3. Size(D, o)[n] <= r.len[r.al[n]] * Bytes
        BY <3>1, <4>2
      <4> QED BY <2>1, <3>3, <4>2, <4>3 DEF RootedAt
    <3> QED BY <2>0, <2>1, <3>2, <3>3 DEF RootedAt
  <2>2. CASE k # n
    <3>1. q.al[k] # a /\ q.al[k] \in Name
      BY <2>2, <1>1, <1>9 DEF Certificate
    <3>2. \A c \in Cluster : q.own[c] = q.al[k] => r.own[c] = q.own[c]
      BY <3>1, <1>4, <1>6
    <3>3. r.len[q.al[k]] = q.len[q.al[k]]
      BY <3>1, <1>4
    <3> QED BY <2>0, <3>1, <3>2, <3>3, <1>4, Zenon DEF RootedAt
  <2> QED BY <2>1, <2>2
<1>13. Apart(r, Root(D, o), T)
  <2>1. ASSUME NEW k \in Name, Root(D, o)[k] = 0, \A j \in Name : {k, j} \notin T, NEW c \in Cluster
        PROVE  r.own[c] # r.al[k]
    <3>1. \A d \in Cluster : q.own[d] # q.al[k]
      BY <2>1, <1>8, Zenon DEF Apart
    <3>2. q.al[k] # NoName
      BY <1>1, FatFsAssumption DEF Certificate
    <3> QED BY <3>1, <3>2, <1>4
  <2>2. Silent(r, Root(D, o), T)
    BY <2>1, Zenon DEF Silent
  <2> QED BY <2>2, <1>4, <1>8, ApartFrom
<1>14. Closed(G, r, X)
  <2> SUFFICES ASSUME NEW c \in X PROVE c \in Cluster /\ r.own[c] = NoName /\ (G[c] \in Cluster => G[c] \in X)
    BY Zenon DEF Closed
  <2>1. c \in Cluster /\ q.own[c] = a /\ q.idx[c] > q.idx[t] /\ c # t /\ G[c] = F[c] /\ r.own[c] = NoName
    BY <1>4, <1>5, <1>6, <1>7
  <2>2. F[c] \in Cluster => q.own[F[c]] = a /\ q.idx[F[c]] = q.idx[c] + 1
    BY <2>1, <1>2, <1>8, ClusterFacts DEF Chained
  <2>3. q.idx[c] \in Nat
    BY <2>1, <1>2, <1>10
  <2>4. F[c] \in Cluster => q.idx[F[c]] > q.idx[t]
    BY <2>1, <2>2, <2>3, <1>2
  <2> QED BY <2>1, <2>2, <2>4, <1>6
<1>15. ASSUME NEW k \in Name PROVE PosOK(r, k, o[k])
  <2>0. PosOK(q, k, o[k])
    BY <1>1
  <2>1. CASE k = n
    <3>1. r.own[t] = q.own[t] /\ r.idx[t] = q.idx[t]
      BY <1>4, <1>7
    <3> QED BY <2>0, <2>1, <3>1, <1>4 DEF PosOK
  <2>2. CASE k # n
    <3>1. q.al[k] # a
      BY <2>2, <1>9
    <3>2. \A c \in Cluster : q.own[c] = q.al[k] => r.own[c] = q.own[c]
      BY <3>1, <1>4, <1>6
    <3> QED BY <2>0, <3>2, <1>4, Zenon DEF PosOK
  <2> QED BY <2>1, <2>2
<1>16. Held(G, r, Root(D, o), Size(D, o), T, X)
  BY <1>11, <1>12, <1>13, <1>14, Zenon DEF Held
<1>17. Holds(G, D, o, L, T, X, r)
  BY <1>1, <1>3, <1>5, <1>15, <1>16, Zenon DEF Holds
<1>18. r.own[t] = q.own[t]
  BY <1>4, <1>7
<1> QED BY <1>4, <1>17, <1>18, Zenon DEF G, X, CutShort

-------------------------------------------------------------------------------
(* Chains given up (f_unlink, remove_chain) and entries rewritten in the directory *)

\* The clusters of some chains, and the certificate without them.
OwnedBy(q, A) == {c \in Cluster : q.own[c] \in A}
Without(q, A) == [q EXCEPT !.own = [c \in Cluster |-> IF q.own[c] \in A THEN NoName ELSE q.own[c]]]

\* A certificate stays one when chains are taken out of it.
LEMMA WithoutFacts ==
    ASSUME NEW F \in Table, NEW q \in Certificate, Chained(F, q), NEW A, A \subseteq Name
    PROVE  /\ Without(q, A) \in Certificate
           /\ Without(q, A).idx = q.idx /\ Without(q, A).len = q.len /\ Without(q, A).al = q.al
           /\ \A c \in Cluster : Without(q, A).own[c] = IF q.own[c] \in A THEN NoName ELSE q.own[c]
           /\ Chained(F, Without(q, A)) /\ Closed(F, Without(q, A), OwnedBy(q, A))
<1> DEFINE r == Without(q, A)
<1>1. r \in Certificate /\ r.idx = q.idx /\ r.len = q.len /\ r.al = q.al
      /\ \A c \in Cluster : r.own[c] = IF q.own[c] \in A THEN NoName ELSE q.own[c]
  BY DEF Certificate, Without
<1> HIDE DEF r
<1>2. NoName \notin A
  BY FatFsAssumption
<1>3. ASSUME NEW c \in Cluster, q.own[c] # NoName
      PROVE  /\ q.idx[c] < q.len[q.own[c]]
             /\ q.idx[c] + 1 = q.len[q.own[c]] => F[c] = EndOfChain
             /\ q.idx[c] + 1 # q.len[q.own[c]] =>
                   F[c] \in Cluster /\ q.own[F[c]] = q.own[c] /\ q.idx[F[c]] = q.idx[c] + 1
  BY <1>3, Zenon DEF Chained
<1>4. ASSUME NEW c \in Cluster, r.own[c] # NoName
      PROVE  /\ r.idx[c] < r.len[r.own[c]]
             /\ r.idx[c] + 1 = r.len[r.own[c]] => F[c] = EndOfChain
             /\ r.idx[c] + 1 # r.len[r.own[c]] =>
                   F[c] \in Cluster /\ r.own[F[c]] = r.own[c] /\ r.idx[F[c]] = r.idx[c] + 1
  <2>1. r.own[c] = q.own[c] /\ q.own[c] # NoName /\ q.own[c] \notin A
    BY <1>1, <1>4
  <2>2. F[c] \in Cluster /\ q.own[F[c]] = q.own[c] => r.own[F[c]] = q.own[c]
    BY <1>1, <2>1
  <2> QED BY <1>1, <1>3, <2>1, <2>2
<1>5. ASSUME NEW c \in Cluster, NEW d \in Cluster, r.own[c] = r.own[d], r.own[c] # NoName, r.idx[c] = r.idx[d]
      PROVE  c = d
  <2>1. q.own[c] = q.own[d] /\ q.own[c] # NoName /\ q.idx[c] = q.idx[d]
    BY <1>1, <1>5
  <2> QED BY <2>1, Zenon DEF Chained
<1>6. Chained(F, r)
  BY <1>4, <1>5, Zenon DEF Chained
<1>7. Closed(F, r, OwnedBy(q, A))
  <2> SUFFICES ASSUME NEW c \in Cluster, q.own[c] \in A, F[c] \in Cluster PROVE q.own[F[c]] \in A
    BY <1>1 DEF Closed, OwnedBy
  <2> QED BY <1>2, <1>3, ClusterFacts
<1> QED BY <1>1, <1>6, <1>7 DEF r

\* The name n no longer leads to a chain; the clusters it led to are closed under the links
LEMMA RootedSame ==
    ASSUME NEW q, NEW r, NEW n, NEW root, NEW size, RootedAt(q, n, root, size),
           r.idx = q.idx, r.len = q.len, r.al = q.al,
           \A c \in Cluster : q.own[c] = q.al[n] => r.own[c] = q.own[c]
    PROVE  RootedAt(r, n, root, size)
<1>1. CASE root = 0 /\ size = 0
  BY <1>1, Zenon DEF RootedAt
<1>2. CASE root \in Cluster /\ q.own[root] = q.al[n] /\ q.idx[root] = 0 /\ size <= q.len[q.al[n]] * Bytes
  <2>1. r.own[root] = q.own[root]
    BY <1>2
  <2>2. r.own[root] = r.al[n] /\ r.idx[root] = 0
    BY <1>2, <2>1
  <2>3. r.len[r.al[n]] = q.len[q.al[n]]
    OBVIOUS
  <2>4. size <= r.len[r.al[n]] * Bytes
    BY <1>2, <2>3, Zenon
  <2> QED BY <1>2, <2>2, <2>4, Zenon DEF RootedAt
<1> QED BY <1>1, <1>2, Zenon DEF RootedAt

LEMMA DropRoot ==
    ASSUME NEW F, NEW D, NEW o, NEW L, NEW T, NEW q, Holds(F, D, o, L, T, {}, q),
           NEW n \in Name, \A k \in Name : {n, k} \notin T,
           NEW D1 \in Folder, NEW o1 \in [Name -> File], NEW L1, L \subseteq L1,
           DirOK(D1), Filed(D1, o1, L1),
           Root(D1, o1)[n] = 0, Size(D1, o1)[n] = 0,
           \A k \in Name : k # n => Root(D1, o1)[k] = Root(D, o)[k] /\ Size(D1, o1)[k] = Size(D, o)[k],
           \A k \in Name : k # n => o1[k] = o[k],
           o1[n].open => o1[n].fptr = 0
    PROVE  \E r : Holds(F, D1, o1, L1, T, OwnedBy(q, {q.al[n]}), r)
<1> DEFINE a == q.al[n]
           A == {a}
           r == Without(q, A)
           X == OwnedBy(q, A)
<1>1. /\ F \in Table /\ D \in Folder /\ o \in [Name -> File] /\ q \in Certificate
      /\ Twinned(T, L) /\ DirOK(D) /\ Filed(D, o, L) /\ Held(F, q, Root(D, o), Size(D, o), T, {})
      /\ \A k \in Name : PosOK(q, k, o[k])
  BY DEF Holds
<1>2. a \in Name /\ A \subseteq Name
  BY <1>1 DEF Certificate
<1>3. Chained(F, q) /\ Apart(q, Root(D, o), T) /\ \A k \in Name : RootedAt(q, k, Root(D, o)[k], Size(D, o)[k])
  BY <1>1 DEF Held
<1>4. /\ r \in Certificate /\ r.idx = q.idx /\ r.len = q.len /\ r.al = q.al
      /\ \A c \in Cluster : r.own[c] = IF q.own[c] \in A THEN NoName ELSE q.own[c]
      /\ Chained(F, r) /\ Closed(F, r, X)
  BY <1>1, <1>2, <1>3, WithoutFacts
<1>5. \A k \in Name : k # n => q.al[k] # a /\ q.al[k] # NoName
  <2> SUFFICES ASSUME NEW k \in Name, k # n PROVE q.al[k] # a /\ q.al[k] # NoName
    OBVIOUS
  <2>1. q.al[k] \in Name
    BY <1>1 DEF Certificate
  <2>2. q.al[n] = q.al[k] => n = k \/ {n, k} \in T
    BY <1>3, Zenon DEF Apart
  <2> QED BY <2>1, <2>2, FatFsAssumption
<1> HIDE DEF r, X
<1>6. \A k \in Name : k # n => \A c \in Cluster : q.own[c] = q.al[k] => r.own[c] = q.own[c]
  BY <1>4, <1>5
<1>7. \A k \in Name : RootedAt(r, k, Root(D1, o1)[k], Size(D1, o1)[k])
  <2> TAKE k \in Name
  <2>1. CASE k = n
    BY <2>1 DEF RootedAt
  <2>2. CASE k # n
    <3>1. RootedAt(q, k, Root(D, o)[k], Size(D, o)[k])
      BY <1>3
    <3>2. r.idx = q.idx /\ r.len = q.len /\ r.al = q.al
      BY <1>4
    <3>3. \A c \in Cluster : q.own[c] = q.al[k] => r.own[c] = q.own[c]
      BY <1>6, <2>2
    <3>4. RootedAt(r, k, Root(D, o)[k], Size(D, o)[k])
      BY <3>1, <3>2, <3>3, RootedSame
    <3>5. Root(D1, o1)[k] = Root(D, o)[k] /\ Size(D1, o1)[k] = Size(D, o)[k]
      BY <2>2
    <3> QED BY <3>4, <3>5, Zenon
  <2> QED BY <2>1, <2>2
<1>8. Apart(r, Root(D1, o1), T)
  <2>1. ASSUME NEW k \in Name, Root(D1, o1)[k] = 0, \A j \in Name : {k, j} \notin T, NEW c \in Cluster
        PROVE  r.own[c] # r.al[k]
    <3>1. CASE k = n
      <4>1. r.own[c] # a
        BY <1>2, <1>4, FatFsAssumption
      <4> QED BY <3>1, <4>1, <1>4
    <3>2. CASE k # n
      <4>1. \A d \in Cluster : q.own[d] # q.al[k]
        BY <2>1, <3>2, <1>3, Zenon DEF Apart
      <4> QED BY <3>2, <4>1, <1>4, <1>5
    <3> QED BY <3>1, <3>2
  <2>2. Silent(r, Root(D1, o1), T)
    BY <2>1, Zenon DEF Silent
  <2> QED BY <2>2, <1>3, <1>4, ApartFrom
<1>9. \A k \in Name : PosOK(r, k, o1[k])
  <2> TAKE k \in Name
  <2>1. CASE k = n
    BY <2>1 DEF PosOK
  <2>2. CASE k # n
    <3>1. PosOK(q, k, o[k]) /\ o1[k] = o[k]
      BY <1>1, <2>2
    <3>2. PosOK(r, k, o[k])
      BY <2>2, <3>1, <1>4, <1>6, Zenon DEF PosOK
    <3> QED BY <3>1, <3>2
  <2> QED BY <2>1, <2>2
<1>10. Held(F, r, Root(D1, o1), Size(D1, o1), T, X)
  BY <1>4, <1>7, <1>8, Zenon DEF Held
<1>11. Twinned(T, L1)
  BY <1>1 DEF Twinned
<1> QED BY <1>1, <1>4, <1>9, <1>10, <1>11, Zenon DEF Holds, X

\* D1 is the directory D with the entry e in slot i
Updated(D, i, e, D1) ==
    /\ D1 \in Folder /\ DirOK(D1) /\ D1[i] = e
    /\ \A j \in 0 .. NRootDir - 1 : j # i => D1[j] = D[j]
    /\ \A k \in Name : k = e.name => Entry(D1, k) = e
    /\ \A k \in Name : k # e.name /\ k # D[i].name => Entry(D1, k) = Entry(D, k)
    /\ \A k \in Name : k # e.name /\ k = D[i].name => Entry(D1, k) = Blank(FALSE)

\* A directory with one entry changed stays in order.
LEMMA DirUpdate ==
    ASSUME NEW D \in Folder, DirOK(D), NEW i \in 0 .. NRootDir - 1, NEW e \in DirEntry, ~e.end,
           \A j \in 0 .. NRootDir - 1 : j < i => ~D[j].end,
           \A j \in 0 .. NRootDir - 1 : j # i /\ D[j].name = e.name => e.name = NoName
    PROVE  Updated(D, i, e, [D EXCEPT ![i] = e])
<1> DEFINE D1 == [D EXCEPT ![i] = e]
           I == 0 .. NRootDir - 1
<1>0. NoName \notin Name /\ NRootDir \in Nat
  BY FatFsAssumption
<1>1. D1 \in Folder /\ D1[i] = e /\ \A j \in I : j # i => D1[j] = D[j]
  BY DEF Folder
<1> HIDE DEF D1
<1>2. DirOK(D1)
  <2>1. ASSUME NEW j \in I, NEW k \in I, D1[j].end, j <= k PROVE D1[k].end /\ D1[k].name = NoName
    <3>1. j # i /\ D[j].end
      <4>1. j # i
        BY <2>1, <1>1, Zenon
      <4> QED BY <4>1, <2>1, <1>1, Zenon
    <3>2. D[k].end /\ D[k].name = NoName
      BY <2>1, <3>1, Zenon DEF DirOK
    <3>3. k # i
      <4>1. ~(j < i)
        BY <3>1, Zenon
      <4> QED BY <2>1, <3>1, <4>1, <1>0
    <3>4. D1[k] = D[k]
      BY <3>3, <1>1
    <3> QED BY <3>2, <3>4, Zenon
  <2>2. ASSUME NEW j \in I, NEW k \in I, D1[j].name = D1[k].name, D1[j].name # NoName PROVE j = k
    <3>1. CASE j = i /\ k # i
      BY <2>2, <3>1, <1>1
    <3>2. CASE j # i /\ k = i
      BY <2>2, <3>2, <1>1
    <3>3. CASE j # i /\ k # i
      BY <2>2, <3>3, <1>1 DEF DirOK
    <3> QED BY <3>1, <3>2, <3>3
  <2> QED BY <2>1, <2>2, Zenon DEF DirOK
<1>3. \A k \in Name : k = e.name => Entry(D1, k) = e
  BY <1>1, <1>2, EntryType
<1>4. ASSUME NEW k \in Name, k # e.name, k # D[i].name PROVE Entry(D1, k) = Entry(D, k)
  <2>1. CASE \E j \in I : D[j].name = k
    <3>1. PICK j \in I : D[j].name = k
      BY <2>1
    <3>2. D1[j] = D[j]
      BY <3>1, <1>1, <1>4
    <3>3. Entry(D, k) = D[j]
      BY <3>1, EntryType
    <3>4. Entry(D1, k) = D1[j]
      BY <3>1, <3>2, <1>1, <1>2, EntryType
    <3> QED BY <3>2, <3>3, <3>4
  <2>2. CASE \A j \in I : D[j].name # k
    <3>1. \A j \in I : D1[j].name # k
      BY <2>2, <1>1, <1>4
    <3>2. Entry(D, k) = Blank(FALSE)
      BY <2>2, EntryType
    <3>3. Entry(D1, k) = Blank(FALSE)
      BY <3>1, <1>1, EntryType
    <3> QED BY <3>2, <3>3
  <2> QED BY <2>1, <2>2
<1>5. ASSUME NEW k \in Name, k # e.name, k = D[i].name PROVE Entry(D1, k) = Blank(FALSE)
  <2>1. \A j \in I : D1[j].name # k
    BY <1>0, <1>1, <1>5 DEF DirOK
  <2> QED BY <2>1, <1>1, EntryType
<1> QED BY <1>1, <1>2, <1>3, <1>4, <1>5, Zenon DEF D1, Updated

\* A volume that is mounted
LEMMA MountHolds ==
    ASSUME NEW s \in Medium, Fine(s, {}), NEW o \in [Name -> File], \A n \in Name : ~o[n].open
    PROVE  \E q : Holds(Fat(s), Dir(s), o, {}, {}, {}, q)
<1> DEFINE F == Fat(s)
           D == Dir(s)
<1>1. F \in Table /\ D \in Folder /\ DirOK(D)
  BY DirSectorType DEF Fine
<1>2. PICK q \in Certificate :
          /\ Chained(F, q)
          /\ \A n \in Name \ {} : RootedAt(q, n, Entry(D, n).clust, Entry(D, n).size)
          /\ \A n, k \in Name \ {} : q.al[n] = q.al[k] => n = k
  BY Zenon DEF Fine
<1> HIDE DEF F, D
<1> DEFINE A == {q.al[n] : n \in {k \in Name : Entry(D, k).clust = 0}}
           r == Without(q, A)
<1>3. A \subseteq Name
  BY <1>2 DEF Certificate
<1>4. /\ r \in Certificate /\ r.idx = q.idx /\ r.len = q.len /\ r.al = q.al
      /\ \A c \in Cluster : r.own[c] = IF q.own[c] \in A THEN NoName ELSE q.own[c]
      /\ Chained(F, r)
  <2> HIDE DEF A
  <2> QED BY <1>1, <1>2, <1>3, WithoutFacts
<1> HIDE DEF r
<1>5. \A n \in Name : Root(D, o)[n] = Entry(D, n).clust /\ Size(D, o)[n] = Entry(D, n).size
  BY <1>1, RootType
<1>6. \A n \in Name : RootedAt(r, n, Root(D, o)[n], Size(D, o)[n])
  <2> TAKE n \in Name
  <2>1. RootedAt(q, n, Entry(D, n).clust, Entry(D, n).size)
    BY <1>2
  <2>2. CASE Entry(D, n).clust = 0
    BY <2>1, <2>2, <1>5, ClusterFacts DEF RootedAt
  <2>3. CASE Entry(D, n).clust # 0
    <3>1. q.al[n] \notin A
      BY <2>3, <1>2
    <3> HIDE DEF A
    <3>2. Entry(D, n).clust \in Cluster /\ r.own[Entry(D, n).clust] = q.own[Entry(D, n).clust]
      BY <2>1, <2>3, <3>1, <1>4 DEF RootedAt
    <3> QED BY <2>1, <2>3, <3>2, <1>4, <1>5, Zenon DEF RootedAt
  <2> QED BY <2>2, <2>3
<1>7. Apart(r, Root(D, o), {})
  <2>1. ASSUME NEW n \in Name, Root(D, o)[n] = 0, NEW c \in Cluster PROVE r.own[c] # r.al[n]
    <3>1. q.al[n] \in A /\ q.al[n] # NoName
      BY <2>1, <1>2, <1>5, FatFsAssumption DEF Certificate
    <3> HIDE DEF A
    <3> QED BY <3>1, <1>4
  <2> QED BY <2>1, <1>2, <1>4 DEF Apart
<1>8. Held(F, r, Root(D, o), Size(D, o), {}, {})
  BY <1>4, <1>6, <1>7 DEF Held, Closed
<1>9. Filed(D, o, {}) /\ Twinned({}, {}) /\ \A n \in Name : PosOK(r, n, o[n])
  BY DEF Filed, FiledAt, Twinned, PosOK
<1> QED BY <1>1, <1>4, <1>8, <1>9, Zenon DEF Holds, F, D

-------------------------------------------------------------------------------
(* Directory entries: made, kept, filed, and emptied *)

\* The parts of Holds.
LEMMA HoldsParts ==
    ASSUME NEW F, NEW D, NEW o, NEW L, NEW T, NEW X, NEW q, Holds(F, D, o, L, T, X, q)
    PROVE  /\ F \in Table /\ D \in Folder /\ o \in [Name -> File] /\ q \in Certificate
           /\ Twinned(T, L) /\ DirOK(D) /\ Filed(D, o, L) /\ Held(F, q, Root(D, o), Size(D, o), T, X)
           /\ \A k \in Name : PosOK(q, k, o[k])
           /\ Chained(F, q) /\ Apart(q, Root(D, o), T) /\ Closed(F, q, X)
           /\ \A k \in Name : RootedAt(q, k, Root(D, o)[k], Size(D, o)[k])
BY DEF Holds, Held

\* Directory and open files may change while the chains stay the names'.
LEMMA DirChange ==
    ASSUME NEW F, NEW D, NEW o, NEW L, NEW T, NEW X, NEW q, Holds(F, D, o, L, T, X, q),
           NEW D1 \in Folder, DirOK(D1), NEW o1 \in [Name -> File], NEW L1, Filed(D1, o1, L1), Twinned(T, L1),
           \A k \in Name : Root(D1, o1)[k] = Root(D, o)[k] /\ Size(D1, o1)[k] = Size(D, o)[k],
           \A k \in Name : PosOK(q, k, o1[k])
    PROVE  Holds(F, D1, o1, L1, T, X, q)
<1>1. Held(F, q, Root(D, o), Size(D, o), T, X) /\ F \in Table /\ q \in Certificate
  BY HoldsParts
<1>2. Held(F, q, Root(D1, o1), Size(D1, o1), T, X)
  BY <1>1 DEF Held, Apart
<1> QED BY <1>1, <1>2, Zenon DEF Holds

\* Nothing need be known to be let go.
LEMMA HoldsPlain ==
    ASSUME NEW F, NEW D, NEW o, NEW L, NEW T, NEW X, NEW q, Holds(F, D, o, L, T, X, q)
    PROVE  Holds(F, D, o, L, T, {}, q)
BY DEF Holds, Held, Closed

\* A closed name without a twin need not be loose.
LEMMA HoldsLess ==
    ASSUME NEW F, NEW D, NEW o, NEW L, NEW T, NEW X, NEW q, Holds(F, D, o, L, T, X, q),
           NEW n \in Name, ~o[n].open, \A k \in Name : {n, k} \notin T
    PROVE  Holds(F, D, o, L \ {n}, T, X, q)
<1>1. Filed(D, o, L \ {n})
  <2> SUFFICES ASSUME NEW k \in Name, o[k].open PROVE FiledAt(D, k, o[k], L \ {n})
    BY Zenon DEF Filed, FiledAt
  <2>1. k # n
    OBVIOUS
  <2>2. FiledAt(D, k, o[k], L)
    BY HoldsParts DEF Filed
  <2> QED BY <2>1, <2>2 DEF FiledAt
<1>2. Twinned(T, L \ {n})
  BY HoldsParts DEF Twinned
<1> QED BY <1>1, <1>2, Zenon DEF Holds

\* An open file's slot bears its name.
LEMMA SlotOpen ==
    ASSUME NEW F, NEW D, NEW o, NEW L, NEW T, NEW X, NEW q, Holds(F, D, o, L, T, X, q), NEW n \in Name, o[n].open
    PROVE  /\ o[n].slot \in 0 .. NRootDir - 1 /\ D[o[n].slot].name = n /\ o[n] \in OpenFile
           /\ D[o[n].slot] \in DirEntry /\ Entry(D, n) = D[o[n].slot] /\ ~D[o[n].slot].end
           /\ \A j \in 0 .. NRootDir - 1 : j < o[n].slot => ~D[j].end
           /\ Root(D, o)[n] = o[n].sclust /\ Size(D, o)[n] = o[n].fsize
<1>1. D \in Folder /\ o \in [Name -> File] /\ DirOK(D) /\ Filed(D, o, L)
  BY HoldsParts
<1>2. o[n] \in OpenFile /\ Root(D, o)[n] = o[n].sclust /\ Size(D, o)[n] = o[n].fsize
  BY <1>1, RootType
<1>3. o[n].slot \in 0 .. NRootDir - 1 /\ D[o[n].slot].name = n
  BY <1>1, <1>2 DEF OpenFile, Filed, FiledAt
<1>4. D[o[n].slot] \in DirEntry /\ Entry(D, n) = D[o[n].slot]
  BY <1>1, <1>3, EntryType DEF Folder
<1>5. \A j \in 0 .. NRootDir - 1 : j <= o[n].slot => ~D[j].end
  BY <1>1, <1>3, FatFsAssumption DEF DirOK
<1>6. ~D[o[n].slot].end /\ \A j \in 0 .. NRootDir - 1 : j < o[n].slot => ~D[j].end
  BY <1>3, <1>5, FatFsAssumption
<1> QED BY <1>2, <1>3, <1>4, <1>6

\* An entry whose name is no open file's, at slot i, becomes e
LEMMA FiledKept ==
    ASSUME NEW F, NEW D, NEW o, NEW L, NEW T, NEW X, NEW q, Holds(F, D, o, L, T, X, q),
           NEW i \in 0 .. NRootDir - 1, \A k \in Name : o[k].open => D[i].name # k, NEW D1,
           \A j \in 0 .. NRootDir - 1 : j # i => D1[j] = D[j]
    PROVE  Filed(D1, o, L)
<1> SUFFICES ASSUME NEW k \in Name, o[k].open PROVE FiledAt(D1, k, o[k], L)
  BY Zenon DEF Filed, FiledAt
<1>1. o[k].slot \in 0 .. NRootDir - 1 /\ D[o[k].slot].name = k /\ FiledAt(D, k, o[k], L)
  BY SlotOpen, HoldsParts DEF Filed
<1>2. D1[o[k].slot] = D[o[k].slot]
  BY <1>1
<1> QED BY <1>1, <1>2, Zenon DEF FiledAt

\* A fresh entry that bears a name.
BlankOf(n) == [Blank(FALSE) EXCEPT !.name = n]

\* It is of no size and has no chain.
LEMMA BlankFacts ==
    ASSUME NEW n \in Name \union {NoName}
    PROVE  /\ BlankOf(n) \in DirEntry /\ BlankOf(n).name = n /\ BlankOf(n).clust = 0 /\ BlankOf(n).size = 0
           /\ ~BlankOf(n).end
           /\ Blank(FALSE) \in DirEntry /\ Blank(FALSE).name = NoName /\ Blank(FALSE).clust = 0
           /\ Blank(FALSE).size = 0 /\ ~Blank(FALSE).end
BY DEF BlankOf, Blank, DirEntry

\* A name entered into a free slot (dir_register).
LEMMA Register ==
    ASSUME NEW F, NEW D, NEW o, NEW L, NEW T, NEW X, NEW q, Holds(F, D, o, L, T, X, q),
           NEW i \in 0 .. NRootDir - 1, D[i].name = NoName,
           \A j \in 0 .. NRootDir - 1 : j < i => ~D[j].end,
           NEW n \in Name, \A j \in 0 .. NRootDir - 1 : D[j].name # n
    PROVE  Holds(F, [D EXCEPT ![i] = BlankOf(n)], o, L, T, X, q)
<1> DEFINE e == BlankOf(n)
           D1 == [D EXCEPT ![i] = e]
<1>1. D \in Folder /\ DirOK(D) /\ o \in [Name -> File] /\ Twinned(T, L) /\ \A k \in Name : PosOK(q, k, o[k])
  BY HoldsParts
<1>2. e \in DirEntry /\ e.name = n /\ e.clust = 0 /\ e.size = 0 /\ ~e.end
      /\ Blank(FALSE).clust = 0 /\ Blank(FALSE).size = 0
  BY BlankFacts
<1> HIDE DEF e
<1>3. /\ D1 \in Folder /\ DirOK(D1) /\ D1[i] = e
      /\ \A j \in 0 .. NRootDir - 1 : j # i => D1[j] = D[j]
      /\ \A k \in Name : k = e.name => Entry(D1, k) = e
      /\ \A k \in Name : k # e.name /\ k # D[i].name => Entry(D1, k) = Entry(D, k)
  <2>1. \A j \in 0 .. NRootDir - 1 : j # i /\ D[j].name = e.name => e.name = NoName
    BY <1>2
  <2>2. Updated(D, i, e, D1)
    BY <1>1, <1>2, <2>1, DirUpdate, Zenon
  <2> QED BY <2>2, Zenon DEF Updated
<1> HIDE DEF D1
<1>4. \A k \in Name : k # D[i].name
  BY FatFsAssumption
<1>5. Filed(D1, o, L)
  BY <1>3, <1>4, FiledKept
<1>6. \A k \in Name : Entry(D1, k).clust = Entry(D, k).clust /\ Entry(D1, k).size = Entry(D, k).size
  <2> TAKE k \in Name
  <2>1. CASE k = n
    <3>1. Entry(D, k) = Blank(FALSE)
      BY <2>1, <1>1, EntryType
    <3> QED BY <2>1, <3>1, <1>2, <1>3
  <2>2. CASE k # n
    BY <2>2, <1>2, <1>3, <1>4
  <2> QED BY <2>1, <2>2
<1>7. \A k \in Name : Root(D1, o)[k] = Root(D, o)[k] /\ Size(D1, o)[k] = Size(D, o)[k]
  BY <1>6, Zenon DEF Root, Size
<1>8. Holds(F, D1, o, L, T, X, q)
  BY <1>1, <1>3, <1>5, <1>7, DirChange
<1> QED BY <1>8 DEF D1, e

\* f_sync enters the size and the first cluster of n in its slot
LEMMA EnterHolds ==
    ASSUME NEW F, NEW D, NEW o, NEW L, NEW T, NEW X, NEW q, Holds(F, D, o, L, T, X, q),
           NEW n \in Name, o[n].open, \A k \in Name : {n, k} \notin T, NEW L1, L \ {n} \subseteq L1
    PROVE  Holds(F, [D EXCEPT ![o[n].slot] = [D[o[n].slot] EXCEPT !.size = o[n].fsize, !.clust = o[n].sclust]],
                 [o EXCEPT ![n].written = FALSE], L1, T, X, q)
<1> DEFINE i == o[n].slot
           e == [D[i] EXCEPT !.size = o[n].fsize, !.clust = o[n].sclust]
           D1 == [D EXCEPT ![i] = e]
           p == [o[n] EXCEPT !.written = FALSE]
           o1 == [o EXCEPT ![n].written = FALSE]
<1>1. D \in Folder /\ DirOK(D) /\ o \in [Name -> File] /\ Twinned(T, L) /\ \A k \in Name : PosOK(q, k, o[k])
      /\ Filed(D, o, L)
  BY HoldsParts
<1>2. /\ i \in 0 .. NRootDir - 1 /\ D[i].name = n /\ o[n] \in OpenFile /\ D[i] \in DirEntry /\ ~D[i].end
      /\ \A j \in 0 .. NRootDir - 1 : j < i => ~D[j].end
  BY SlotOpen
<1>3. e \in DirEntry /\ e.name = n /\ e.clust = o[n].sclust /\ e.size = o[n].fsize /\ ~e.end
  <2>1. e \in DirEntry /\ e.name = D[i].name /\ e.clust = o[n].sclust /\ e.size = o[n].fsize /\ e.end = D[i].end
    BY <1>2 DEF DirEntry, OpenFile
  <2> HIDE DEF e, i
  <2> QED BY <2>1, <1>2, Zenon
<1>4. p \in OpenFile /\ p.open /\ p.sclust = o[n].sclust /\ p.fsize = o[n].fsize /\ p.slot = i
      /\ p.fptr = o[n].fptr /\ p.err = o[n].err /\ p.clust = o[n].clust
      /\ p.dirty = o[n].dirty /\ p.dsect = o[n].dsect
  BY <1>2 DEF OpenFile
<1> HIDE DEF i, e
<1>5. o1 \in [Name -> File] /\ o1[n] = p /\ \A k \in Name : k # n => o1[k] = o[k]
  <2>1. p \in File
    BY <1>4 DEF File
  <2>2. o1 = [o EXCEPT ![n] = p]
    BY Zenon
  <2> HIDE DEF o1, p
  <2> QED BY <2>1, <2>2, <1>1
<1>6. /\ D1 \in Folder /\ DirOK(D1) /\ D1[i] = e
      /\ \A j \in 0 .. NRootDir - 1 : j # i => D1[j] = D[j]
      /\ \A k \in Name : k # e.name /\ k # D[i].name => Entry(D1, k) = Entry(D, k)
  <2>1. \A j \in 0 .. NRootDir - 1 : j # i /\ D[j].name = e.name => e.name = NoName
    BY <1>1, <1>2, <1>3 DEF DirOK
  <2>2. Updated(D, i, e, D1)
    BY <1>1, <1>2, <1>3, <2>1, DirUpdate, Zenon
  <2> QED BY <2>2, Zenon DEF Updated
<1> HIDE DEF D1, o1, p
<1>7. Filed(D1, o1, L1)
  <2> SUFFICES ASSUME NEW k \in Name, o1[k].open PROVE FiledAt(D1, k, o1[k], L1)
    BY Zenon DEF Filed, FiledAt
  <2>1. CASE k = n
    <3>1. FiledAt(D, n, o[n], L)
      BY <1>1 DEF Filed
    <3>2. e.size \in Int /\ e.size <= p.fsize
      BY <1>2, <1>3, <1>4 DEF OpenFile
    <3>3. Fits(D1[p.slot], p) /\ D1[p.slot].name = n
      BY <3>2, <1>3, <1>4, <1>6, Zenon DEF Fits
    <3>4. BufOK(p)
      <4>1. BufOK(o[n])
        BY <2>1, <3>1, <1>5, Zenon DEF FiledAt
      <4> QED BY <4>1, <1>4, Zenon DEF BufOK
    <3> QED BY <2>1, <3>3, <3>4, <1>5, Zenon DEF FiledAt
  <2>2. CASE k # n
    <3>1. o1[k] = o[k] /\ FiledAt(D, k, o[k], L) /\ o[k].slot \in 0 .. NRootDir - 1
      BY <2>2, <1>1, <1>5, SlotOpen DEF Filed
    <3>2. D1[o[k].slot] = D[o[k].slot]
      BY <2>2, <3>1, <1>2, <1>6 DEF FiledAt
    <3>3. k \in L => k \in L1
      BY <2>2
    <3> QED BY <3>1, <3>2, <3>3, Zenon DEF FiledAt
  <2> QED BY <2>1, <2>2
<1>8. Twinned(T, L1)
  BY <1>1 DEF Twinned
<1>9. \A k \in Name : Root(D1, o1)[k] = Root(D, o)[k] /\ Size(D1, o1)[k] = Size(D, o)[k]
  <2> TAKE k \in Name
  <2>1. CASE k = n
    <3>1. Root(D1, o1)[n] = p.sclust /\ Size(D1, o1)[n] = p.fsize
      BY <1>4, <1>5, <1>6, RootType
    <3> QED BY <2>1, <3>1, <1>4, SlotOpen
  <2>2. CASE k # n
    <3>1. Entry(D1, k) = Entry(D, k) /\ o1[k] = o[k]
      BY <2>2, <1>2, <1>3, <1>5, <1>6
    <3> QED BY <3>1, Zenon DEF Root, Size
  <2> QED BY <2>1, <2>2
<1>10. \A k \in Name : PosOK(q, k, o1[k])
  <2> TAKE k \in Name
  <2>1. PosOK(q, k, o[k])
    BY <1>1
  <2>2. CASE k = n
    BY <2>1, <2>2, <1>4, <1>5 DEF PosOK
  <2>3. CASE k # n
    BY <2>1, <2>3, <1>5
  <2> QED BY <2>2, <2>3
<1>11. Holds(F, D1, o1, L1, T, X, q)
  BY <1>5, <1>6, <1>7, <1>8, <1>9, <1>10, DirChange
<1> QED BY <1>11 DEF D1, e, i, o1

\* The entry of the closed file n, in slot i, no longer leads to a chain
LEMMA Vacate ==
    ASSUME NEW F, NEW D, NEW o, NEW L, NEW T, NEW q, Holds(F, D, o, L, T, {}, q),
           NEW n \in Name, ~o[n].open, \A k \in Name : {n, k} \notin T,
           NEW i \in 0 .. NRootDir - 1, D[i].name = n,
           NEW e \in DirEntry, ~e.end, e.clust = 0, e.size = 0, e.name \in {n, NoName}
    PROVE  \E r, X : /\ Holds(F, [D EXCEPT ![i] = e], o, L, T, X, r)
                     /\ D[i].clust # 0 => D[i].clust \in X
<1> DEFINE D1 == [D EXCEPT ![i] = e]
<1>1. D \in Folder /\ DirOK(D) /\ o \in [Name -> File]
      /\ \A k \in Name : RootedAt(q, k, Root(D, o)[k], Size(D, o)[k])
  BY HoldsParts
<1>2. ~D[i].end /\ \A j \in 0 .. NRootDir - 1 : j < i => ~D[j].end
  <2>1. n # NoName
    BY FatFsAssumption
  <2>2. \A j \in 0 .. NRootDir - 1 : j <= i => ~D[j].end
    BY <2>1, <1>1, Zenon DEF DirOK
  <2>3. i \in Int /\ i <= i
    OBVIOUS
  <2>4. \A j \in 0 .. NRootDir - 1 : j < i => j <= i
    OBVIOUS
  <2> QED BY <2>2, <2>3, <2>4, Zenon
<1>3. \A j \in 0 .. NRootDir - 1 : j # i /\ D[j].name = e.name => e.name = NoName
  BY <1>1, FatFsAssumption DEF DirOK
<1>4. /\ D1 \in Folder /\ DirOK(D1) /\ D1[i] = e
      /\ \A j \in 0 .. NRootDir - 1 : j # i => D1[j] = D[j]
      /\ \A k \in Name : k = e.name => Entry(D1, k) = e
      /\ \A k \in Name : k # e.name /\ k # D[i].name => Entry(D1, k) = Entry(D, k)
      /\ \A k \in Name : k # e.name /\ k = D[i].name => Entry(D1, k) = Blank(FALSE)
  <2>1. Updated(D, i, e, D1)
    BY <1>1, <1>2, <1>3, DirUpdate, Zenon
  <2> QED BY <2>1, Zenon DEF Updated
<1> HIDE DEF D1
<1>5. Entry(D1, n).clust = 0 /\ Entry(D1, n).size = 0
  <2>1. CASE e.name = n
    BY <2>1, <1>4
  <2>2. CASE e.name # n
    <3>1. Entry(D1, n) = Blank(FALSE)
      BY <2>2, <1>4
    <3> QED BY <3>1 DEF Blank
  <2> QED BY <2>1, <2>2
<1>6. \A k \in Name : k # n => Entry(D1, k) = Entry(D, k)
  BY <1>4, FatFsAssumption
<1>7. Filed(D1, o, L)
  BY <1>4, FiledKept
<1>8. Root(D1, o)[n] = 0 /\ Size(D1, o)[n] = 0
  BY <1>5, Zenon DEF Root, Size
<1>9. \A k \in Name : k # n => Root(D1, o)[k] = Root(D, o)[k] /\ Size(D1, o)[k] = Size(D, o)[k]
  BY <1>6, Zenon DEF Root, Size
<1>10. PICK r : Holds(F, D1, o, L, T, OwnedBy(q, {q.al[n]}), r)
  BY <1>1, <1>4, <1>7, <1>8, <1>9, DropRoot
<1>11. D[i].clust # 0 => D[i].clust \in OwnedBy(q, {q.al[n]})
  <2>1. Root(D, o)[n] = D[i].clust
    <3>1. Entry(D, n) = D[i]
      BY <1>1, EntryType
    <3>2. Root(D, o)[n] = Entry(D, n).clust
      BY <1>1, RootType
    <3> QED BY <3>1, <3>2
  <2> QED BY <2>1, <1>1 DEF RootedAt, OwnedBy
<1> QED BY <1>10, <1>11 DEF D1

-------------------------------------------------------------------------------
(* The two names of a rename *)

\* The directory D1 is D but for the names n and k, which lead to the chain of n or to none
Moved(D, D1, n, k) ==
    /\ \A j \in Name : j # n /\ j # k => Entry(D1, j) = Entry(D, j)
    /\ Entry(D, k).clust = 0 /\ Entry(D, k).size = 0
    /\ \A j \in {n, k} : \/ Entry(D1, j).clust = 0 /\ Entry(D1, j).size = 0
                         \/ Entry(D1, j).clust = Entry(D, n).clust /\ Entry(D1, j).size = Entry(D, n).size

\* In the middle of f_rename two names may lead to one chain
LEMMA TwinHolds ==
    ASSUME NEW F, NEW D, NEW o, NEW L, NEW T, NEW q, Holds(F, D, o, L, T, {}, q),
           NEW n \in Name, NEW k \in Name, n # k, ~o[n].open, ~o[k].open,
           \A j \in Name : {n, j} \notin T,
           NEW D1 \in Folder, DirOK(D1), NEW L1, L \union {n, k} \subseteq L1, Filed(D1, o, L1),
           Moved(D, D1, n, k)
    PROVE  \E r : Holds(F, D1, o, L1, T \union {{n, k}}, {}, r)
<1> DEFINE r == [q EXCEPT !.al[k] = q.al[n]]
           T1 == T \union {{n, k}}
<1>1. /\ F \in Table /\ D \in Folder /\ o \in [Name -> File] /\ q \in Certificate
      /\ Twinned(T, L) /\ Chained(F, q) /\ Apart(q, Root(D, o), T)
      /\ \A j \in Name : PosOK(q, j, o[j])
      /\ \A j \in Name : RootedAt(q, j, Root(D, o)[j], Size(D, o)[j])
  BY HoldsParts
<1>2. r \in Certificate /\ r.own = q.own /\ r.idx = q.idx /\ r.len = q.len
      /\ \A j \in Name : r.al[j] = IF j = k THEN q.al[n] ELSE q.al[j]
  BY <1>1 DEF Certificate
<1> HIDE DEF r
<1>3. Chained(F, r)
  BY <1>1, <1>2 DEF Chained
<1>4. \A j \in Name : j # n /\ j # k => Root(D1, o)[j] = Root(D, o)[j] /\ Size(D1, o)[j] = Size(D, o)[j]
  BY Zenon DEF Moved, Root, Size
<1>5. \A j \in {n, k} : Root(D1, o)[j] = Entry(D1, j).clust /\ Size(D1, o)[j] = Entry(D1, j).size
  BY <1>1, RootType
<1>6. Root(D, o)[n] = Entry(D, n).clust /\ Size(D, o)[n] = Entry(D, n).size
  BY <1>1, RootType
<1>7. \A j \in Name : RootedAt(r, j, Root(D1, o)[j], Size(D1, o)[j])
  <2> TAKE j \in Name
  <2>1. CASE j # n /\ j # k
    <3>1. RootedAt(q, j, Root(D, o)[j], Size(D, o)[j])
      BY <1>1
    <3> QED BY <2>1, <3>1, <1>2, <1>4, Zenon DEF RootedAt
  <2>2. CASE j \in {n, k}
    <3>1. r.al[j] = q.al[n]
      BY <2>2, <1>2
    <3>2. RootedAt(q, n, Entry(D, n).clust, Entry(D, n).size)
      BY <1>1, <1>6
    <3>3. CASE Entry(D1, j).clust = 0 /\ Entry(D1, j).size = 0
      BY <2>2, <3>3, <1>5 DEF RootedAt
    <3>4. CASE Entry(D1, j).clust = Entry(D, n).clust /\ Entry(D1, j).size = Entry(D, n).size
      <4>1. RootedAt(r, j, Entry(D, n).clust, Entry(D, n).size)
        BY <3>1, <3>2, <1>2, Zenon DEF RootedAt
      <4> QED BY <2>2, <3>4, <4>1, <1>5
    <3> QED BY <2>2, <3>3, <3>4 DEF Moved
  <2> QED BY <2>1, <2>2
<1>8. Apart(r, Root(D1, o), T1)
  <2>1. ASSUME NEW a \in Name, NEW b \in Name, r.al[a] = r.al[b] PROVE a = b \/ {a, b} \in T1
    <3>1. \A j \in Name : q.al[n] = q.al[j] => n = j
      BY <1>1 DEF Apart
    <3>2. CASE a = k
      BY <2>1, <3>1, <3>2, <1>2
    <3>3. CASE b = k
      <4>1. a = b \/ a = n
        BY <2>1, <3>1, <3>3, <1>2
      <4> QED BY <3>3, <4>1
    <3>4. CASE a # k /\ b # k
      BY <2>1, <3>4, <1>1, <1>2 DEF Apart
    <3> QED BY <3>2, <3>3, <3>4
  <2>2. ASSUME NEW a \in Name, Root(D1, o)[a] = 0, \A b \in Name : {a, b} \notin T1, NEW c \in Cluster
        PROVE  r.own[c] # r.al[a]
    <3>1. a # n /\ a # k
      <4>1. {n, k} \in T1 /\ {k, n} \in T1
        <5>1. {k, n} = {n, k}
          OBVIOUS
        <5> QED BY <5>1
      <4> QED BY <2>2, <4>1
    <3>2. Root(D, o)[a] = 0 /\ \A b \in Name : {a, b} \notin T
      BY <2>2, <3>1, <1>4
    <3>3. q.own[c] # q.al[a]
      BY <3>2, <1>1, Zenon DEF Apart
    <3> QED BY <3>1, <3>3, <1>2
  <2> QED BY <2>1, <2>2, Zenon DEF Apart
<1>9. \A j \in Name : PosOK(r, j, o[j])
  <2> TAKE j \in Name
  <2>1. CASE j = k
    BY <2>1 DEF PosOK
  <2>2. CASE j # k
    <3>1. PosOK(q, j, o[j])
      BY <1>1
    <3> QED BY <2>2, <3>1, <1>2, Zenon DEF PosOK
  <2> QED BY <2>1, <2>2
<1>10. Twinned(T1, L1)
  <2> SUFFICES ASSUME NEW a \in Name, NEW b \in Name, {a, b} \in T1 PROVE a \in L1
    BY DEF Twinned
  <2>1. CASE {a, b} \in T
    BY <2>1, <1>1 DEF Twinned
  <2>2. CASE {a, b} = {n, k}
    BY <2>2
  <2> QED BY <2>1, <2>2
<1>11. Held(F, r, Root(D1, o), Size(D1, o), T1, {})
  BY <1>3, <1>7, <1>8 DEF Held, Closed
<1> QED BY <1>1, <1>2, <1>9, <1>10, <1>11, Zenon DEF Holds

\* After f_rename k leads to the chain that was that of n
LEMMA MovedHolds ==
    ASSUME NEW F, NEW D, NEW o, NEW L, NEW T, NEW q, Holds(F, D, o, L, T, {}, q),
           NEW n \in Name, NEW k \in Name, n # k, ~o[n].open, ~o[k].open,
           \A j \in Name : {n, j} \notin T /\ {k, j} \notin T,
           NEW D1 \in Folder, DirOK(D1), Filed(D1, o, L),
           Moved(D, D1, n, k), Entry(D1, n).clust = 0, Entry(D1, n).size = 0,
           Entry(D1, k).clust = Entry(D, n).clust
    PROVE  \E r : Holds(F, D1, o, L, T, {}, r)
<1> DEFINE r == [q EXCEPT !.al = [j \in Name |-> IF j = k THEN q.al[n] ELSE IF j = n THEN q.al[k] ELSE q.al[j]]]
<1>1. /\ F \in Table /\ D \in Folder /\ o \in [Name -> File] /\ q \in Certificate
      /\ Twinned(T, L) /\ Chained(F, q) /\ Apart(q, Root(D, o), T)
      /\ \A j \in Name : PosOK(q, j, o[j])
      /\ \A j \in Name : RootedAt(q, j, Root(D, o)[j], Size(D, o)[j])
  BY HoldsParts
<1>2. r \in Certificate /\ r.own = q.own /\ r.idx = q.idx /\ r.len = q.len
      /\ \A j \in Name : r.al[j] = IF j = k THEN q.al[n] ELSE IF j = n THEN q.al[k] ELSE q.al[j]
  BY <1>1 DEF Certificate
<1> HIDE DEF r
<1>3. Chained(F, r)
  BY <1>1, <1>2 DEF Chained
<1>4. \A j \in Name : j # n /\ j # k => Root(D1, o)[j] = Root(D, o)[j] /\ Size(D1, o)[j] = Size(D, o)[j]
  BY Zenon DEF Moved, Root, Size
<1>5. \A j \in {n, k} : Root(D1, o)[j] = Entry(D1, j).clust /\ Size(D1, o)[j] = Entry(D1, j).size
  BY <1>1, RootType
<1>6. \A j \in {n, k} : Root(D, o)[j] = Entry(D, j).clust /\ Size(D, o)[j] = Entry(D, j).size
  BY <1>1, RootType
<1>7. \A j \in Name : RootedAt(r, j, Root(D1, o)[j], Size(D1, o)[j])
  <2> TAKE j \in Name
  <2>1. CASE j # n /\ j # k
    <3>1. RootedAt(q, j, Root(D, o)[j], Size(D, o)[j])
      BY <1>1
    <3> QED BY <2>1, <3>1, <1>2, <1>4, Zenon DEF RootedAt
  <2>2. CASE j = n
    BY <2>2, <1>5 DEF RootedAt
  <2>3. CASE j = k
    <3>1. r.al[j] = q.al[n]
      BY <2>3, <1>2
    <3>2. RootedAt(q, n, Entry(D, n).clust, Entry(D, n).size)
      BY <1>1, <1>6
    <3>3. CASE Entry(D1, j).clust = 0 /\ Entry(D1, j).size = 0
      BY <2>3, <3>3, <1>5 DEF RootedAt
    <3>4. CASE Entry(D1, j).clust = Entry(D, n).clust /\ Entry(D1, j).size = Entry(D, n).size
      <4>1. RootedAt(r, j, Entry(D, n).clust, Entry(D, n).size)
        BY <3>1, <3>2, <1>2, Zenon DEF RootedAt
      <4> QED BY <2>3, <3>4, <4>1, <1>5
    <3> QED BY <2>3, <3>3, <3>4 DEF Moved
  <2> QED BY <2>1, <2>2, <2>3
<1>8. \A j \in Name : (q.al[n] = q.al[j] => n = j) /\ (q.al[k] = q.al[j] => k = j)
  BY <1>1 DEF Apart
<1>9. \A c \in Cluster : q.own[c] # q.al[k]
  <2>1. Root(D, o)[k] = 0
    BY <1>6 DEF Moved
  <2> QED BY <2>1, <1>1, Zenon DEF Apart
<1>10. ASSUME Root(D1, o)[k] = 0 PROVE \A c \in Cluster : q.own[c] # q.al[n]
  <2>1. Entry(D1, k).clust = 0
    BY <1>5, <1>10
  <2>2. RootedAt(q, n, Entry(D, n).clust, Entry(D, n).size)
    BY <1>1, <1>6
  <2>3. Entry(D, n).clust = 0
    BY <2>1
  <2> QED BY <2>3, <1>1, <1>6, Zenon DEF Apart
<1>11. Apart(r, Root(D1, o), T)
  <2>1. ASSUME NEW a \in Name, NEW b \in Name, r.al[a] = r.al[b] PROVE a = b \/ {a, b} \in T
    <3>1. CASE a \in {n, k} \/ b \in {n, k}
      BY <2>1, <3>1, <1>2, <1>8
    <3>2. CASE a \notin {n, k} /\ b \notin {n, k}
      BY <2>1, <3>2, <1>1, <1>2 DEF Apart
    <3> QED BY <3>1, <3>2
  <2>2. ASSUME NEW a \in Name, Root(D1, o)[a] = 0, \A b \in Name : {a, b} \notin T, NEW c \in Cluster
        PROVE  r.own[c] # r.al[a]
    <3>1. CASE a = n
      BY <3>1, <1>2, <1>9
    <3>2. CASE a = k
      BY <2>2, <3>2, <1>2, <1>10
    <3>3. CASE a # n /\ a # k
      <4>1. Root(D, o)[a] = 0
        BY <2>2, <3>3, <1>4
      <4>2. q.own[c] # q.al[a]
        BY <2>2, <4>1, <1>1, Zenon DEF Apart
      <4> QED BY <3>3, <4>2, <1>2
    <3> QED BY <3>1, <3>2, <3>3
  <2> QED BY <2>1, <2>2, Zenon DEF Apart
<1>12. \A j \in Name : PosOK(r, j, o[j])
  <2> TAKE j \in Name
  <2>1. CASE j \in {n, k}
    BY <2>1 DEF PosOK
  <2>2. CASE j \notin {n, k}
    <3>1. PosOK(q, j, o[j]) /\ r.al[j] = q.al[j]
      BY <2>2, <1>1, <1>2
    <3> QED BY <3>1, <1>2, Zenon DEF PosOK
  <2> QED BY <2>1, <2>2
<1>13. Held(F, r, Root(D1, o), Size(D1, o), T, {})
  BY <1>3, <1>7, <1>11 DEF Held, Closed
<1> QED BY <1>1, <1>2, <1>12, <1>13, Zenon DEF Holds

-------------------------------------------------------------------------------
(* Writing one entry of the FAT or of the directory through the window *)

\* The file object, what the caller has got so far and the data area stay
Keeps(m, w) ==
    /\ w.fp = m.fp /\ w.data = m.data
    /\ \A x \in Sector : x >= database => w.disk[x] = m.disk[x]

\* Cancellation.
LEMMA SumCancel ==
    ASSUME NEW x \in Int, NEW a \in Int, NEW b \in Int, x + a = x + b
    PROVE  a = b
OBVIOUS

\* What a call leaves of the caller's FIL and data.
LEMMA KeepsTrans ==
    ASSUME NEW m, NEW w, NEW u, Keeps(m, w), Keeps(w, u)
    PROVE  Keeps(m, u)
BY DEF Keeps

LEMMA KeepsRefl ==
    ASSUME NEW m
    PROVE  Keeps(m, m)
BY DEF Keeps

LEMMA PassesKeeps ==
    ASSUME NEW m, Sound(m), NEW w, Passes(m, w)
    PROVE  Keeps(m, w)
<1>1. \A x \in Sector : x >= database => Seen(m)[x] = m.disk[x]
  BY SeenFacts
<1>2. w.disk = m.disk \/ w.disk = Seen(m)
  BY DEF Passes
<1>3. \A x \in Sector : x >= database => w.disk[x] = m.disk[x]
  BY <1>1, <1>2, Zenon
<1> QED BY <1>3, Zenon DEF Keeps, Passes

\* w is m with the sector that the window shows changed to y
Writes(m, w, sect, y) ==
    /\ Sound(w)
    /\ Seen(w) = [Seen(m) EXCEPT ![sect] = y]
    /\ w.disk \in {m.disk, Seen(m)}
    /\ w.fp = m.fp /\ w.mounted = m.mounted /\ w.free_clust = m.free_clust /\ w.data = m.data
    /\ Quiet(m) => Quiet(w)
    /\ Shows(w, sect)

\* The window's sector is changed and marked.
LEMMA WindowWrite ==
    ASSUME NEW m, Sound(m), NEW sect \in fatbase .. database - 1, Shows(m, sect), NEW y \in SectorOf(sect)
    PROVE  LET w == [m EXCEPT !.win = y, !.wflag = TRUE] IN
           Writes(m, w, sect, y) /\ w.res = m.res /\ w.val = m.val /\ w.disk = m.disk
<1> USE LayoutFacts, SectorFacts
<1> DEFINE w == [m EXCEPT !.win = y, !.wflag = TRUE]
<1>1. sect \in Sector /\ sect # Unknown /\ m.winsect = sect /\ SectorOf(sect) \subseteq AnySector
  BY DEF Shows, SectorOf, AnySector
<1>2. /\ w \in Machines
      /\ w.disk = m.disk /\ w.fp = m.fp /\ w.mounted = m.mounted
      /\ w.free_clust = m.free_clust /\ w.data = m.data /\ w.val = m.val /\ w.res = m.res
      /\ w.win = y /\ w.winsect = sect /\ w.wflag = TRUE /\ w.fuse = m.fuse /\ w.off = m.off
  <2>1. m \in Machines /\ y \in AnySector \union {<<>>}
    BY <1>1 DEF Sound
  <2> QED BY <1>1, <2>1 DEF Machines
<1> HIDE DEF w
<1>3. Windowed(w)
  <2>1. w.winsect \in 0 .. database - 1 \union {Unknown} /\ w.winsect \in fatbase .. database - 1
    BY <1>2
  <2>2. w.win \in SectorOf(w.winsect)
    BY <1>2
  <2> QED BY <1>2, <2>1, <2>2, Zenon DEF Windowed
<1>4. Sound(w)
  BY <1>2, <1>3, Zenon DEF Sound
<1>5. /\ DOMAIN Seen(m) = Sector /\ DOMAIN Seen(w) = Sector
      /\ \A x \in Sector : x = sect => Seen(w)[x] = y
      /\ \A x \in Sector : x # sect => Seen(w)[x] = m.disk[x] /\ Seen(m)[x] = m.disk[x]
  BY <1>1, <1>2, <1>4, SeenFacts
<1>6. Seen(w) = [Seen(m) EXCEPT ![sect] = y]
  <2> DEFINE e == [Seen(m) EXCEPT ![sect] = y]
  <2>1. \A x \in Sector : Seen(w)[x] = e[x]
    BY <1>5
  <2>2. Seen(w) = [x \in Sector |-> Seen(w)[x]]
    BY Zenon DEF Seen
  <2>3. e = [x \in Sector |-> e[x]]
    BY <1>5
  <2> HIDE DEF e
  <2> QED BY <2>1, <2>2, <2>3, Zenon DEF e
<1>7. Shows(w, sect)
  BY <1>1, <1>2, <1>5, Zenon DEF Shows
<1> QED BY <1>2, <1>4, <1>6, <1>7, Zenon DEF Writes, Quiet, w

\* So it is when accesses came before.
LEMMA WritesAfter ==
    ASSUME NEW m, Sound(m), NEW w, NEW u, Passes(m, w), NEW sect, NEW y, Writes(w, u, sect, y), u.disk = w.disk
    PROVE  Writes(m, u, sect, y) /\ Keeps(m, u)
<1>1. Keeps(m, w)
  BY PassesKeeps
<1>2. Keeps(w, u)
  BY DEF Keeps, Writes
<1>3. u.disk \in {m.disk, Seen(m)} /\ Seen(w) = Seen(m)
  BY DEF Passes
<1>4. Writes(m, u, sect, y)
  BY <1>3, Zenon DEF Passes, Writes
<1> QED BY <1>1, <1>2, <1>4, KeepsTrans

\* One entry of the allocation table, or of the directory, changes
LEMMA FatWrite ==
    ASSUME NEW s \in Medium, NEW c \in Cluster, NEW x \in 0 .. n_fatent
    PROVE  LET y == [s[FatSect(c)] EXCEPT ![c % PerFat] = x]
               t == [s EXCEPT ![FatSect(c)] = y] IN
           /\ FatSect(c) \in fatbase .. database - 1 /\ y \in SectorOf(FatSect(c))
           /\ Fat(t) = [Fat(s) EXCEPT ![c] = x] /\ Dir(t) = Dir(s)
<1> USE LayoutFacts, SectorFacts
<1>1. \A d \in Cluster : FatSect(d) \in fatbase .. dirbase - 1 /\ d % PerFat \in 0 .. PerFat - 1 /\ FatSect(d) \in Sector
  <2> TAKE d \in Cluster
  <2>1. d \in 0 .. n_fatent - 1
    BY DEF Cluster
  <2>2. FatSect(d) \in fatbase .. dirbase - 1 /\ d % PerFat \in 0 .. PerFat - 1
    BY <2>1
  <2>3. FatSect(d) \in 0 .. database - 1
    BY <2>2
  <2> QED BY <2>2, <2>3
<1>2. \A d \in Cluster : FatSect(d) = FatSect(c) /\ d % PerFat = c % PerFat => d = c
  <2> SUFFICES ASSUME NEW d \in Cluster, FatSect(d) = FatSect(c), d % PerFat = c % PerFat PROVE d = c
    OBVIOUS
  <2>1. d \div PerFat = c \div PerFat /\ d \in Nat /\ c \in Nat
    <3>1. d \in Nat /\ c \in Nat
      OBVIOUS
    <3> DEFINE a == d \div PerFat
               b == c \div PerFat
    <3>2. a \in Int /\ b \in Int
      BY <3>1, FatFsAssumption
    <3>3. FatSect(d) = 1 + a /\ FatSect(c) = 1 + b
      BY DEF FatSect, fatbase
    <3>4. FatSect(d) = FatSect(c)
      OBVIOUS
    <3> HIDE DEF a, b
    <3>5. a = b
      <4>1. 1 + a = 1 + b
        BY <3>3, <3>4, Zenon
      <4>2. 1 \in Int
        OBVIOUS
      <4> QED BY <3>2, <4>1, <4>2, SumCancel, Zenon
    <3> QED BY <3>1, <3>5 DEF a, b
  <2>2. d = PerFat * (d \div PerFat) + (d % PerFat) /\ c = PerFat * (c \div PerFat) + (c % PerFat)
    BY <2>1, FatFsAssumption, SMTT(30)
  <2> QED BY <2>1, <2>2, Zenon
<1> DEFINE f == FatSect(c)
           j == c % PerFat
           y == [s[f] EXCEPT ![j] = x]
           t == [s EXCEPT ![f] = y]
<1>3. f \in fatbase .. dirbase - 1 /\ f \in Sector /\ j \in 0 .. PerFat - 1 /\ SectorOf(f) = FatSector
  BY <1>1 DEF SectorOf
<1>4. s[f] \in FatSector
  BY <1>3 DEF Medium
<1>5. y \in FatSector /\ DOMAIN s = Sector
  BY <1>3, <1>4 DEF FatSector, Medium
<1> HIDE DEF f, j
<1>6. \A d \in Cluster : t[FatSect(d)][d % PerFat] = IF d = c THEN x ELSE s[FatSect(d)][d % PerFat]
  <2> TAKE d \in Cluster
  <2>1. CASE FatSect(d) = f
    <3>1. t[FatSect(d)] = y
      BY <2>1, <1>3, <1>5
    <3>2. CASE d % PerFat = j
      <4>1. d = c
        BY <2>1, <3>2, <1>2 DEF f, j
      <4>2. y[j] = x
        BY <1>3, <1>4 DEF FatSector
      <4> QED BY <3>1, <3>2, <4>1, <4>2, Zenon
    <3>3. CASE d % PerFat # j
      <4>1. d # c
        BY <3>3 DEF j
      <4>2. y[d % PerFat] = s[f][d % PerFat]
        BY <3>3, <1>1, <1>3, <1>4 DEF FatSector
      <4> QED BY <2>1, <3>1, <4>1, <4>2, Zenon
    <3> QED BY <3>2, <3>3
  <2>2. CASE FatSect(d) # f
    <3>1. t[FatSect(d)] = s[FatSect(d)]
      BY <2>2, <1>1, <1>5
    <3>2. d # c
      BY <2>2 DEF f
    <3> HIDE DEF t
    <3> QED BY <3>1, <3>2, Zenon
  <2> QED BY <2>1, <2>2
<1>7. \A i \in 0 .. NRootDir - 1 : t[DirSect(i)] = s[DirSect(i)]
  BY <1>3, <1>5
<1> HIDE DEF t, y
<1>8. Fat(t) = [Fat(s) EXCEPT ![c] = x]
  <2>1. Fat(s) = [d \in Cluster |-> s[FatSect(d)][d % PerFat]]
    BY Zenon DEF Fat
  <2>2. Fat(t) = [d \in Cluster |-> IF d = c THEN x ELSE s[FatSect(d)][d % PerFat]]
    BY <1>6, Zenon DEF Fat
  <2> HIDE DEF Fat, FatSect
  <2> QED BY <2>1, <2>2
<1>9. Dir(t) = Dir(s)
  BY <1>7, Zenon DEF Dir, Slot
<1>10. f \in fatbase .. database - 1
  BY <1>3
<1> QED BY <1>3, <1>5, <1>8, <1>9, <1>10 DEF f, j, t, y

\* One entry of the directory is changed, and nothing else is seen to change.
LEMMA DirWrite ==
    ASSUME NEW s \in Medium, NEW i \in 0 .. NRootDir - 1, NEW e \in DirEntry
    PROVE  LET y == [s[DirSect(i)] EXCEPT ![i % PerDir] = e]
               t == [s EXCEPT ![DirSect(i)] = y] IN
           /\ DirSect(i) \in fatbase .. database - 1 /\ y \in SectorOf(DirSect(i))
           /\ Fat(t) = Fat(s) /\ Dir(t) = [Dir(s) EXCEPT ![i] = e]
<1> USE LayoutFacts, SectorFacts
<1>1. \A d \in 0 .. NRootDir - 1 : DirSect(d) \in dirbase .. database - 1 /\ d % PerDir \in 0 .. PerDir - 1 /\ DirSect(d) \in Sector
  <2> TAKE d \in 0 .. NRootDir - 1
  <2>2. DirSect(d) \in dirbase .. database - 1 /\ d % PerDir \in 0 .. PerDir - 1
    OBVIOUS
  <2>3. DirSect(d) \in 0 .. database - 1
    BY <2>2
  <2> QED BY <2>2, <2>3
<1>2. \A d \in 0 .. NRootDir - 1 : DirSect(d) = DirSect(i) /\ d % PerDir = i % PerDir => d = i
  <2> SUFFICES ASSUME NEW d \in 0 .. NRootDir - 1, DirSect(d) = DirSect(i), d % PerDir = i % PerDir PROVE d = i
    OBVIOUS
  <2>1. d \div PerDir = i \div PerDir /\ d \in Nat /\ i \in Nat
    <3>1. d \in Nat /\ i \in Nat
      OBVIOUS
    <3> DEFINE a == d \div PerDir
               b == i \div PerDir
    <3>2. a \in Int /\ b \in Int
      BY <3>1, FatFsAssumption
    <3>3. DirSect(d) = dirbase + a /\ DirSect(i) = dirbase + b
      BY DEF DirSect
    <3>4. DirSect(d) = DirSect(i)
      OBVIOUS
    <3> HIDE DEF a, b
    <3>5. a = b
      <4>1. dirbase + a = dirbase + b
        BY <3>3, <3>4, Zenon
      <4>2. dirbase \in Int
        OBVIOUS
      <4> QED BY <3>2, <4>1, <4>2, SumCancel, Zenon
    <3> QED BY <3>1, <3>5 DEF a, b
  <2>2. d = PerDir * (d \div PerDir) + (d % PerDir) /\ i = PerDir * (i \div PerDir) + (i % PerDir)
    BY <2>1, FatFsAssumption, SMTT(30)
  <2> QED BY <2>1, <2>2, Zenon
<1> DEFINE f == DirSect(i)
           j == i % PerDir
           y == [s[f] EXCEPT ![j] = e]
           t == [s EXCEPT ![f] = y]
<1>3. f \in dirbase .. database - 1 /\ f \in Sector /\ j \in 0 .. PerDir - 1 /\ SectorOf(f) = DirSector
  BY <1>1 DEF SectorOf
<1>4. s[f] \in DirSector
  BY <1>3 DEF Medium
<1>5. y \in DirSector /\ DOMAIN s = Sector
  BY <1>3, <1>4 DEF DirSector, Medium
<1> HIDE DEF f, j
<1>6. \A d \in 0 .. NRootDir - 1 : t[DirSect(d)][d % PerDir] = IF d = i THEN e ELSE s[DirSect(d)][d % PerDir]
  <2> TAKE d \in 0 .. NRootDir - 1
  <2>1. CASE DirSect(d) = f
    <3>1. t[DirSect(d)] = y
      BY <2>1, <1>3, <1>5
    <3>2. CASE d % PerDir = j
      <4>1. d = i
        BY <2>1, <3>2, <1>2 DEF f, j
      <4>2. y[j] = e
        BY <1>3, <1>4 DEF DirSector
      <4> QED BY <3>1, <3>2, <4>1, <4>2, Zenon
    <3>3. CASE d % PerDir # j
      <4>1. d # i
        BY <3>3 DEF j
      <4>2. y[d % PerDir] = s[f][d % PerDir]
        BY <3>3, <1>1, <1>3, <1>4 DEF DirSector
      <4> QED BY <2>1, <3>1, <4>1, <4>2, Zenon
    <3> QED BY <3>2, <3>3
  <2>2. CASE DirSect(d) # f
    <3>1. t[DirSect(d)] = s[DirSect(d)]
      BY <2>2, <1>1, <1>5
    <3>2. d # i
      BY <2>2 DEF f
    <3> HIDE DEF t
    <3> QED BY <3>1, <3>2, Zenon
  <2> QED BY <2>1, <2>2
<1>7. \A c \in Cluster : t[FatSect(c)] = s[FatSect(c)]
  <2> TAKE c \in Cluster
  <2>1. c \in 0 .. n_fatent - 1
    BY DEF Cluster
  <2>2. FatSect(c) \in fatbase .. dirbase - 1
    BY <2>1
  <2>3. FatSect(c) \in 0 .. database - 1
    BY <2>2
  <2>4. FatSect(c) \in Sector /\ FatSect(c) # f
    BY <2>2, <2>3, <1>3
  <2> HIDE DEF FatSect
  <2> QED BY <2>4, <1>5
<1> HIDE DEF t, y
<1>8. Dir(t) = [Dir(s) EXCEPT ![i] = e]
  <2>1. Dir(s) = [d \in 0 .. NRootDir - 1 |-> s[DirSect(d)][d % PerDir]]
    BY Zenon DEF Dir, Slot
  <2>2. Dir(t) = [d \in 0 .. NRootDir - 1 |-> IF d = i THEN e ELSE s[DirSect(d)][d % PerDir]]
    BY <1>6, Zenon DEF Dir, Slot
  <2> HIDE DEF Dir, DirSect
  <2> QED BY <2>1, <2>2
<1>9. Fat(t) = Fat(s)
  BY <1>7, Zenon DEF Fat
<1>10. f \in fatbase .. database - 1
  BY <1>3
<1> QED BY <1>3, <1>5, <1>8, <1>9, <1>10 DEF f, j, t, y

\* InOrder speaks of the medium, the window and mounted alone
LEMMA InOrderSame ==
    ASSUME NEW m, NEW w, NEW o, NEW L, NEW T, NEW X, NEW q, InOrder(m, o, L, T, X, q),
           w \in Machines, w.disk = m.disk, w.win = m.win, w.winsect = m.winsect, w.wflag = m.wflag,
           w.mounted = m.mounted
    PROVE  InOrder(w, o, L, T, X, q) /\ Seen(w) = Seen(m) /\ Sound(w)
<1>1. Seen(w) = Seen(m) /\ Windowed(w)
  <2>1. Windowed(m)
    BY DEF InOrder, Sound
  <2> QED BY <2>1, SameSeen
<1>2. Sound(w)
  BY <1>1, Zenon DEF Sound
<1> QED BY <1>1, <1>2, Zenon DEF InOrder

\* A certificate that stays is one that grew by nothing.
LEMMA GrowsRefl ==
    ASSUME NEW q \in Certificate
    PROVE  Grows(q, q)
<1>1. ASSUME NEW c \in Cluster, q.own[c] # NoName PROVE q.len[q.own[c]] <= q.len[q.own[c]]
  <2>1. q.len[q.own[c]] \in Nat
    BY <1>1 DEF Certificate
  <2> QED BY <2>1
<1> QED BY <1>1, Zenon DEF Grows

\* An answer of the medium is a result
LEMMA OkResult == "FR_OK" \in Result /\ "FR_DISK_ERR" \in Result /\ "FR_INT_ERR" \in Result
                  /\ "FR_NO_FILE" \in Result /\ "FR_DENIED" \in Result /\ "FR_EXIST" \in Result
BY DEF Result

\* get_fat gives the entry seen, or an error.
LEMMA GetFatFacts ==
    ASSUME NEW m, Sound(m), NEW c \in Cluster
    PROVE  LET w == get_fat(m, c) IN
           /\ Passes(m, w)
           /\ \/ w.res = "FR_OK" /\ w.val = Fat(Seen(m))[c]
              \/ w.res = "FR_DISK_ERR" /\ w.val = DiskErr
<1> DEFINE f == FatSect(c)
           w == move_window(m, f)
           x == IF w.res = "FR_OK" THEN w.win[c % PerFat] ELSE DiskErr
<1>1. f \in 0 .. database - 1 /\ c \in 0 .. n_fatent - 1
  BY LayoutFacts DEF Cluster
<1> HIDE DEF f
<1>2. Passes(m, w) /\ Answers(m, w) /\ w.val = m.val /\ (w.res = "FR_OK" => Shows(w, f))
  BY <1>1, MoveWindowFacts
<1> HIDE DEF w
<1>3. get_fat(m, c) = Value(w, x)
  BY Zenon DEF get_fat, LinkOf, w, f
<1>4. Sound(w) /\ Seen(w) = Seen(m) /\ w.res \in {"FR_OK", "FR_DISK_ERR"}
  BY <1>2, Zenon DEF Passes, Answers
<1>5. Seen(m) \in Medium
  BY SeenFacts, Zenon
<1>6. ASSUME w.res = "FR_OK" PROVE x = Fat(Seen(m))[c]
  <2>1. w.win = Seen(m)[f]
    BY <1>2, <1>4, <1>6, Zenon DEF Shows
  <2>2. Fat(Seen(m))[c] = Seen(m)[FatSect(c)][c % PerFat]
    BY <1>5, DirSectorType
  <2> QED BY <1>6, <2>1, <2>2, Zenon DEF f
<1>7. ASSUME w.res # "FR_OK" PROVE w.res = "FR_DISK_ERR" /\ x = DiskErr
  BY <1>4, <1>7, Zenon
<1>8. x \in Int
  <2>1. CASE w.res = "FR_OK"
    <3>1. Fat(Seen(m))[c] \in 0 .. n_fatent
      BY <1>5, DirSectorType DEF Table
    <3>2. Fat(Seen(m))[c] \in Int
      BY <3>1
    <3> QED BY <1>6, <2>1, <3>2
  <2>2. CASE w.res # "FR_OK"
    BY <1>7, <2>2, ClusterFacts
  <2> QED BY <2>1, <2>2, Zenon
<1> HIDE DEF x
<1> DEFINE v == Value(w, x)
<1>9. Passes(w, v) /\ v.res = w.res /\ v.val = x
  BY <1>4, <1>8, ValueFacts
<1> HIDE DEF v
<1>10. Passes(m, v)
  BY <1>2, <1>9, PassesTrans
<1>11. v = get_fat(m, c)
  BY <1>3, Zenon DEF v
<1> QED BY <1>6, <1>7, <1>9, <1>10, <1>11, Zenon

\* What put_fat makes of the table
PutDone(m, w, c, x) ==
    /\ Sound(w) /\ Keeps(m, w) /\ w.mounted = m.mounted /\ w.val = m.val /\ w.free_clust = m.free_clust
    /\ w.disk \in {m.disk, Seen(m)}
    /\ \/ w.res = "FR_DISK_ERR" /\ Passes(m, w)
       \/ /\ w.res = "FR_OK"
          /\ Fat(Seen(w)) = [Fat(Seen(m)) EXCEPT ![c] = x] /\ Dir(Seen(w)) = Dir(Seen(m))

\* put_fat changes the entry of one cluster in the view, or fails and changes none.
LEMMA PutFatFacts ==
    ASSUME NEW m, Sound(m), NEW c \in Cluster, NEW x \in 0 .. n_fatent
    PROVE  PutDone(m, put_fat(m, c, x), c, x)
<1> DEFINE f == FatSect(c)
           w == move_window(m, f)
           y == [Seen(m)[f] EXCEPT ![c % PerFat] = x]
           z == [w EXCEPT !.win = y, !.wflag = TRUE]
<1>1. f \in 0 .. database - 1 /\ c \in 0 .. n_fatent - 1
  BY LayoutFacts DEF Cluster
<1>2. Seen(m) \in Medium
  BY SeenFacts, Zenon
<1>3. /\ f \in fatbase .. database - 1 /\ y \in SectorOf(f)
      /\ Fat([Seen(m) EXCEPT ![f] = y]) = [Fat(Seen(m)) EXCEPT ![c] = x]
      /\ Dir([Seen(m) EXCEPT ![f] = y]) = Dir(Seen(m))
  BY <1>2, FatWrite
<1> HIDE DEF f
<1>4. Passes(m, w) /\ Answers(m, w) /\ w.val = m.val /\ (w.res = "FR_OK" => Shows(w, f))
  BY <1>1, MoveWindowFacts
<1> HIDE DEF w
<1>5. Sound(w) /\ Seen(w) = Seen(m) /\ w.res \in {"FR_OK", "FR_DISK_ERR"} /\ w.free_clust = m.free_clust
      /\ w.disk \in {m.disk, Seen(m)} /\ w.mounted = m.mounted
  BY <1>4, Zenon DEF Passes, Answers
<1>6. CASE w.res # "FR_OK"
  <2>1. put_fat(m, c, x) = w
    BY <1>6, Zenon DEF put_fat, IfOk, w, f
  <2>2. w.res = "FR_DISK_ERR"
    BY <1>5, <1>6, Zenon
  <2>3. Keeps(m, w)
    BY <1>4, PassesKeeps
  <2> QED BY <1>4, <1>5, <2>1, <2>2, <2>3, Zenon DEF PutDone
<1>7. CASE w.res = "FR_OK"
  <2>1. w.win = Seen(m)[f]
    BY <1>4, <1>5, <1>7, Zenon DEF Shows
  <2>2. put_fat(m, c, x) = [w EXCEPT !.win[c % PerFat] = x, !.wflag = TRUE]
    BY <1>7, Zenon DEF put_fat, IfOk, w, f
  <2>3. put_fat(m, c, x) = z
    <3>1. [w EXCEPT !.win[c % PerFat] = x, !.wflag = TRUE] = [w EXCEPT !.win = [w.win EXCEPT ![c % PerFat] = x], !.wflag = TRUE]
      <4>1. w \in Machines
        BY <1>5 DEF Sound
      <4> QED BY <4>1 DEF Machines
    <3> QED BY <2>1, <2>2, <3>1, Zenon
  <2> HIDE DEF y
  <2>4. Writes(w, z, f, y) /\ z.res = w.res /\ z.val = w.val /\ z.disk = w.disk
    BY <1>3, <1>4, <1>5, <1>7, WindowWrite
  <2> HIDE DEF z
  <2>5. Writes(m, z, f, y) /\ Keeps(m, z)
    BY <1>4, <2>4, WritesAfter
  <2>6. Seen(z) = [Seen(m) EXCEPT ![f] = y]
    BY <2>5, Zenon DEF Writes
  <2>7. Fat(Seen(z)) = [Fat(Seen(m)) EXCEPT ![c] = x] /\ Dir(Seen(z)) = Dir(Seen(m))
    BY <1>3, <2>6, Zenon
  <2>8. Sound(z) /\ z.disk \in {m.disk, Seen(m)} /\ z.mounted = m.mounted /\ z.free_clust = m.free_clust
    BY <2>5, Zenon DEF Writes
  <2> QED BY <1>4, <1>7, <2>3, <2>4, <2>5, <2>7, <2>8, Zenon DEF PutDone
<1> QED BY <1>6, <1>7

-------------------------------------------------------------------------------
(* The FAT calls: get_fat, put_fat, remove_chain, create_chain *)

\* The parts of InOrder.
LEMMA InOrderFacts ==
    ASSUME NEW m, NEW o, NEW L, NEW T, NEW X, NEW q, InOrder(m, o, L, T, X, q)
    PROVE  /\ Sound(m) /\ m \in Machines /\ m.mounted /\ Fine(m.disk, L)
           /\ Holds(Fat(Seen(m)), Dir(Seen(m)), o, L, T, X, q)
           /\ Fat(Seen(m)) \in Table /\ Dir(Seen(m)) \in Folder /\ q \in Certificate /\ o \in [Name -> File]
           /\ m.res \in Result /\ m.val \in Int /\ m.fp \in File
<1>1. Sound(m) /\ m \in Machines /\ m.mounted /\ Fine(m.disk, L)
           /\ Holds(Fat(Seen(m)), Dir(Seen(m)), o, L, T, X, q)
  BY Zenon DEF InOrder, Sound
<1>2. Fat(Seen(m)) \in Table /\ Dir(Seen(m)) \in Folder /\ q \in Certificate /\ o \in [Name -> File]
  BY <1>1, Zenon DEF Holds
<1>3. m.res \in Result /\ m.val \in Int /\ m.fp \in File
  BY <1>1 DEF Machines
<1> QED BY <1>1, <1>2, <1>3, Zenon

\* w is m with the volume still in order

\* get_fat keeps InOrder and gives what the certificate says.
LEMMA InOrderGet ==
    ASSUME NEW m, NEW o, NEW L, NEW T, NEW X, NEW q, InOrder(m, o, L, T, X, q), NEW c \in Cluster
    PROVE  LET w == get_fat(m, c) IN
           /\ InOrder(w, o, L, T, X, q) /\ Keeps(m, w) /\ Passes(m, w)
           /\ \/ w.res = "FR_OK" /\ w.val = Fat(Seen(m))[c]
              \/ w.res = "FR_DISK_ERR" /\ w.val = DiskErr
<1> DEFINE w == get_fat(m, c)
<1>1. Sound(m)
  BY InOrderFacts, Zenon
<1>2. /\ Passes(m, w)
      /\ \/ w.res = "FR_OK" /\ w.val = Fat(Seen(m))[c]
         \/ w.res = "FR_DISK_ERR" /\ w.val = DiskErr
  BY <1>1, GetFatFacts
<1> HIDE DEF w
<1>3. InOrder(w, o, L, T, X, q)
  BY <1>2, InOrderPasses
<1>4. Keeps(m, w)
  BY <1>1, <1>2, PassesKeeps
<1> QED BY <1>2, <1>3, <1>4, Zenon DEF w

\* An entry that no chain uses may be given any value that is no cluster
LEMMA InOrderPut ==
    ASSUME NEW m, NEW o, NEW L, NEW T, NEW X, NEW q, InOrder(m, o, L, T, X, q),
           NEW c \in Cluster, q.own[c] = NoName, NEW x \in 0 .. n_fatent, x \notin Cluster
    PROVE  LET w == put_fat(m, c, x) IN
           /\ InOrder(w, o, L, T, X, q) /\ Keeps(m, w) /\ w.val = m.val
           /\ w.res \in {"FR_OK", "FR_DISK_ERR"} /\ Dir(Seen(w)) = Dir(Seen(m))
           /\ w.res = "FR_OK" => Fat(Seen(w)) = [Fat(Seen(m)) EXCEPT ![c] = x] /\ Dir(Seen(w)) = Dir(Seen(m))
<1> DEFINE w == put_fat(m, c, x)
<1>1. Sound(m) /\ Holds(Fat(Seen(m)), Dir(Seen(m)), o, L, T, X, q)
  BY InOrderFacts, Zenon
<1>2. PutDone(m, w, c, x)
  BY <1>1, PutFatFacts
<1> HIDE DEF w
<1>3. CASE w.res = "FR_DISK_ERR" /\ Passes(m, w)
  <2>1. InOrder(w, o, L, T, X, q)
    BY <1>3, InOrderPasses
  <2>2. w.res # "FR_OK"
    BY <1>3
  <2>3. Seen(w) = Seen(m)
    BY <1>3, Zenon DEF Passes
  <2>4. Dir(Seen(w)) = Dir(Seen(m))
    BY <2>3, Zenon
  <2> QED BY <1>2, <1>3, <2>1, <2>2, <2>4, Zenon DEF PutDone, w
<1>4. CASE w.res = "FR_OK" /\ Fat(Seen(w)) = [Fat(Seen(m)) EXCEPT ![c] = x] /\ Dir(Seen(w)) = Dir(Seen(m))
  <2>1. Holds([Fat(Seen(m)) EXCEPT ![c] = x], Dir(Seen(m)), o, L, T, X, q)
    BY <1>1, PutUnowned
  <2>2. Holds(Fat(Seen(w)), Dir(Seen(w)), o, L, T, X, q)
    BY <1>4, <2>1, Zenon
  <2>3. Sound(w) /\ w.mounted /\ w.disk \in {m.disk, Seen(m)}
    BY <1>2, InOrderFacts, Zenon DEF PutDone
  <2>4. InOrder(w, o, L, T, X, q)
    BY <2>2, <2>3, InOrderStep
  <2> QED BY <1>2, <1>4, <2>4, Zenon DEF PutDone, w
<1> QED BY <1>2, <1>3, <1>4, Zenon DEF PutDone

\* The registers and counters say nothing of the volume
LEMMA InOrderReturn ==
    ASSUME NEW m, NEW o, NEW L, NEW T, NEW X, NEW q, InOrder(m, o, L, T, X, q), NEW r \in Result
    PROVE  LET w == Return(m, r) IN
           InOrder(w, o, L, T, X, q) /\ Keeps(m, w) /\ w.res = r /\ w.val = m.val /\ Seen(w) = Seen(m)
<1>1. Sound(m)
  BY InOrderFacts, Zenon
<1> DEFINE w == Return(m, r)
<1>2. Passes(m, w) /\ w.res = r /\ w.val = m.val
  BY <1>1, ReturnFacts
<1> HIDE DEF w
<1>3. InOrder(w, o, L, T, X, q)
  BY <1>2, InOrderPasses
<1>4. Keeps(m, w) /\ Seen(w) = Seen(m)
  BY <1>1, <1>2, PassesKeeps DEF Passes
<1> QED BY <1>2, <1>3, <1>4, Zenon DEF w

\* So does a value set.
LEMMA InOrderValue ==
    ASSUME NEW m, NEW o, NEW L, NEW T, NEW X, NEW q, InOrder(m, o, L, T, X, q), NEW x \in Int
    PROVE  LET w == Value(m, x) IN
           InOrder(w, o, L, T, X, q) /\ Keeps(m, w) /\ w.res = m.res /\ w.val = x /\ Seen(w) = Seen(m)
<1>1. Sound(m)
  BY InOrderFacts, Zenon
<1> DEFINE w == Value(m, x)
<1>2. Passes(m, w) /\ w.res = m.res /\ w.val = x
  BY <1>1, ValueFacts
<1> HIDE DEF w
<1>3. InOrder(w, o, L, T, X, q)
  BY <1>2, InOrderPasses
<1>4. Keeps(m, w) /\ Seen(w) = Seen(m)
  BY <1>1, <1>2, PassesKeeps DEF Passes
<1> QED BY <1>2, <1>3, <1>4, Zenon DEF w

\* The counts of free clusters may be anything.
Counted(m, f, l, x, r) == [m EXCEPT !.free_clust = f, !.last_clust = l, !.val = x, !.res = r]

\* They are no part of InOrder.
LEMMA InOrderCount ==
    ASSUME NEW m, NEW o, NEW L, NEW T, NEW X, NEW q, InOrder(m, o, L, T, X, q),
           NEW f \in Int, NEW l \in Int, NEW x \in Int, NEW r \in Result
    PROVE  LET w == Counted(m, f, l, x, r) IN
           InOrder(w, o, L, T, X, q) /\ Keeps(m, w) /\ w.res = r /\ w.val = x /\ Seen(w) = Seen(m)
           /\ w.free_clust = f
<1>1. m \in Machines
  BY InOrderFacts, Zenon
<1> DEFINE w == Counted(m, f, l, x, r)
<1>2. /\ w \in Machines /\ w.disk = m.disk /\ w.win = m.win /\ w.winsect = m.winsect /\ w.wflag = m.wflag
      /\ w.mounted = m.mounted /\ w.res = r /\ w.val = x /\ w.fp = m.fp /\ w.data = m.data /\ w.free_clust = f
  BY <1>1 DEF Machines, Counted
<1> HIDE DEF w
<1>3. InOrder(w, o, L, T, X, q) /\ Seen(w) = Seen(m)
  BY <1>2, InOrderSame
<1>4. Keeps(m, w)
  BY <1>2, Zenon DEF Keeps
<1> QED BY <1>2, <1>3, <1>4, Zenon DEF w

\* One more cluster counted free.
LEMMA FreedFacts ==
    ASSUME NEW m, NEW o, NEW L, NEW T, NEW X, NEW q, InOrder(m, o, L, T, X, q), NEW x \in Int
    PROVE  LET w == Value(Freed(m), x) IN
           InOrder(w, o, L, T, X, q) /\ Keeps(m, w) /\ w.res = m.res /\ w.val = x /\ Seen(w) = Seen(m)
<1> DEFINE f == IF m.free_clust = Unknown THEN Unknown ELSE m.free_clust + 1
<1>1. m \in Machines
  BY InOrderFacts, Zenon
<1>2. f \in Int /\ m.last_clust \in Int /\ m.res \in Result
  BY <1>1 DEF Machines, Unknown
<1> DEFINE w == Counted(m, f, m.last_clust, x, m.res)
<1>3. Value(Freed(m), x) = w
  BY <1>1 DEF Machines, Value, Freed, Counted
<1> HIDE DEF f
<1>4. InOrder(w, o, L, T, X, q) /\ Keeps(m, w) /\ w.res = m.res /\ w.val = x /\ Seen(w) = Seen(m)
  BY <1>2, InOrderCount
<1> HIDE DEF w
<1> QED BY <1>3, <1>4, Zenon

\* One round of remove_chain frees a cluster that is let go.
LEMMA FreeNextFacts ==
    ASSUME NEW m, NEW o, NEW L, NEW T, NEW X, NEW q, InOrder(m, o, L, T, X, q), m.val \in Cluster => m.val \in X
    PROVE  LET w == FreeNext(m) IN
           InOrder(w, o, L, T, X, q) /\ Keeps(m, w) /\ (w.val \in Cluster => w.val \in X) /\ Dir(Seen(w)) = Dir(Seen(m))
<1>1. CASE m.res # "FR_OK" \/ m.val \notin Cluster
  <2>1. FreeNext(m) = m
    BY <1>1, Zenon DEF FreeNext
  <2> QED BY <2>1, KeepsRefl
<1>2. CASE m.res = "FR_OK" /\ m.val \in Cluster
  <2> DEFINE c == m.val
             g == get_fat(m, c)
             F == Fat(Seen(m))
             p == put_fat(g, c, 0)
  <2>1. c \in Cluster /\ c \in X
    BY <1>2
  <2>2. Closed(F, q, X)
    BY InOrderFacts, HoldsParts
  <2>3. q.own[c] = NoName /\ (F[c] \in Cluster => F[c] \in X)
    BY <2>1, <2>2, Zenon DEF Closed
  <2>4. /\ InOrder(g, o, L, T, X, q) /\ Keeps(m, g) /\ Passes(m, g)
        /\ \/ g.res = "FR_OK" /\ g.val = F[c]
           \/ g.res = "FR_DISK_ERR" /\ g.val = DiskErr
    BY <2>1, InOrderGet
  <2>5. InOrder(p, o, L, T, X, q) /\ Keeps(g, p) /\ p.val = g.val /\ p.res \in {"FR_OK", "FR_DISK_ERR"}
        /\ Dir(Seen(p)) = Dir(Seen(g))
    <3>1. 0 \in 0 .. n_fatent /\ 0 \notin Cluster
      BY LayoutFacts DEF Cluster
    <3> HIDE DEF g, c
    <3> QED BY <2>1, <2>3, <2>4, <3>1, InOrderPut
  <2>6. DiskErr \notin Cluster /\ EndOfChain \notin Cluster /\ EndOfChain \in Int
    BY ClusterFacts, LayoutFacts
  <2>7. g.val \in Cluster => g.val \in X
    BY <2>3, <2>4, <2>6, Zenon
  <2>8. g.val \in Int
    BY <2>4, InOrderFacts, Zenon
  <2> DEFINE e == [g EXCEPT !.res = "FR_OK", !.val = EndOfChain]
             v == Value(Freed(p), g.val)
             b == Return(g, "FR_INT_ERR")
  <2>9. FreeNext(m) = IF g.val = 0 THEN e ELSE IF g.val = 1 THEN b ELSE IF g.val = DiskErr THEN g
                      ELSE IF p.res = "FR_OK" THEN v ELSE p
    BY <1>2, Zenon DEF FreeNext, IfOk
  <2>10. InOrder(e, o, L, T, X, q) /\ Keeps(g, e) /\ e.val = EndOfChain /\ Seen(e) = Seen(g)
    <3>1. g \in Machines
      BY <2>4, InOrderFacts, Zenon
    <3>2. g.free_clust \in Int /\ g.last_clust \in Int
      BY <3>1 DEF Machines
    <3> DEFINE h == Counted(g, g.free_clust, g.last_clust, EndOfChain, "FR_OK")
    <3>3. e = h
      BY <3>1 DEF Machines, Counted
    <3> HIDE DEF e, g
    <3>4. InOrder(h, o, L, T, X, q) /\ Keeps(g, h) /\ h.val = EndOfChain /\ Seen(h) = Seen(g)
      BY <2>4, <2>6, <3>2, OkResult, InOrderCount
    <3> QED BY <3>3, <3>4, Zenon
  <2>11. InOrder(b, o, L, T, X, q) /\ Keeps(g, b) /\ b.val = g.val /\ Seen(b) = Seen(g)
    <3> HIDE DEF g
    <3> QED BY <2>4, InOrderReturn, OkResult
  <2> HIDE DEF e, b, g, p, c
  <2>12. InOrder(v, o, L, T, X, q) /\ Keeps(p, v) /\ v.val = g.val /\ Seen(v) = Seen(p)
    BY <2>5, <2>8, FreedFacts
  <2> HIDE DEF v
  <2>13. Keeps(m, e) /\ Keeps(m, b) /\ Keeps(m, p)
    BY <2>4, <2>5, <2>10, <2>11, KeepsTrans
  <2>14. Keeps(m, v)
    BY <2>12, <2>13, KeepsTrans
  <2>15. \A x \in {e, b, g, p, v} : Dir(Seen(x)) = Dir(Seen(m))
    <3>1. Seen(g) = Seen(m)
      BY <2>4, Zenon DEF Passes
    <3> QED BY <2>5, <2>10, <2>11, <2>12, <3>1
  <2> QED BY <2>4, <2>5, <2>6, <2>7, <2>9, <2>10, <2>11, <2>12, <2>13, <2>14, <2>15, Zenon
<1> QED BY <1>1, <1>2, Zenon

\* remove_chain frees a chain that is let go, or part of it.
LEMMA RemoveFacts ==
    ASSUME NEW m, NEW o, NEW L, NEW T, NEW X, NEW q, InOrder(m, o, L, T, X, q), NEW c \in X
    PROVE  LET w == RemoveFrom(m, c) IN InOrder(w, o, L, T, X, q) /\ Keeps(m, w) /\ Dir(Seen(w)) = Dir(Seen(m))
<1> DEFINE h == [m EXCEPT !.res = "FR_OK", !.val = c]
           J == {w \in Machines : InOrder(w, o, L, T, X, q) /\ Keeps(m, w) /\ (w.val \in Cluster => w.val \in X) /\ Dir(Seen(w)) = Dir(Seen(m))}
           n == NClust + 1
           S == [k \in 0 .. n |-> J]
           g == [p \in J \X (1 .. n) |-> FreeNext(p[1])]
<1>1. n \in Nat
  BY FatFsAssumption
<1>2. h \in J
  <2>1. m \in Machines
    BY InOrderFacts, Zenon
  <2>2. c \in Int
    <3>1. Closed(Fat(Seen(m)), q, X)
      BY InOrderFacts, HoldsParts
    <3>2. c \in Cluster
      BY <3>1, Zenon DEF Closed
    <3> QED BY <3>2, LayoutFacts
  <2>3. m.free_clust \in Int /\ m.last_clust \in Int
    BY <2>1 DEF Machines
  <2> DEFINE r == Counted(m, m.free_clust, m.last_clust, c, "FR_OK")
  <2>4. h = r
    BY <2>1 DEF Machines, Counted
  <2> HIDE DEF h
  <2>5. InOrder(r, o, L, T, X, q) /\ Keeps(m, r) /\ r.val = c /\ Seen(r) = Seen(m)
    BY <2>2, <2>3, OkResult, InOrderCount
  <2> HIDE DEF r
  <2>6. r \in Machines
    BY <2>5, InOrderFacts, Zenon
  <2> QED BY <2>4, <2>5, <2>6, Zenon
<1> HIDE DEF h
<1>3. \A w \in J : FreeNext(w) \in J
  <2> TAKE w \in J
  <2>1. InOrder(w, o, L, T, X, q) /\ Keeps(m, w) /\ (w.val \in Cluster => w.val \in X) /\ Dir(Seen(w)) = Dir(Seen(m))
    OBVIOUS
  <2> DEFINE u == FreeNext(w)
  <2>2. InOrder(u, o, L, T, X, q) /\ Keeps(w, u) /\ (u.val \in Cluster => u.val \in X) /\ Dir(Seen(u)) = Dir(Seen(w))
    BY <2>1, FreeNextFacts
  <2> HIDE DEF u
  <2>3. u \in Machines
    BY <2>2, InOrderFacts, Zenon
  <2>4. Keeps(m, u) /\ Dir(Seen(u)) = Dir(Seen(m))
    <3>1. Dir(Seen(u)) = Dir(Seen(m))
      BY <2>1, <2>2, Zenon
    <3> QED BY <2>1, <2>2, <3>1, KeepsTrans
  <2> QED BY <2>2, <2>3, <2>4, Zenon DEF u
<1> HIDE DEF J, n
<1>4. \A k \in 0 .. n : S[k] = J
  OBVIOUS
<1>5. \A k \in 1 .. n : \A w \in J : g[<<w, k>>] = FreeNext(w)
  OBVIOUS
<1> HIDE DEF S, g
<1>6. \E r : RunOf(n, S, h, g, r)
  <2>1. h \in S[0] /\ \A k \in 1 .. n : k - 1 \in 0 .. n /\ k \in 0 .. n
    BY <1>1, <1>2, <1>4
  <2>2. Steady(n, S, g)
    BY <2>1, <1>3, <1>4, <1>5, Zenon DEF Steady
  <2> QED BY <1>1, <2>1, <2>2, RunExists, Zenon
<1> DEFINE R == CHOOSE R : R = [k \in 0 .. n |-> IF k = 0 THEN h ELSE FreeNext(R[k - 1])]
<1>7. R = [k \in 0 .. n |-> IF k = 0 THEN h ELSE FreeNext(R[k - 1])]
  <2>1. PICK r : RunOf(n, S, h, g, r)
    BY <1>6, Zenon
  <2>2. \A k \in 0 .. n : k # 0 => g[<<r[k - 1], k>>] = FreeNext(r[k - 1])
    <3> TAKE k \in 0 .. n
    <3>1. k # 0 => k \in 1 .. n /\ k - 1 \in 0 .. n
      BY <1>1
    <3> QED BY <2>1, <3>1, <1>4, <1>5, Zenon DEF RunOf
  <2>3. r = [k \in 0 .. n |-> IF k = 0 THEN h ELSE FreeNext(r[k - 1])]
    <3> DEFINE a == [k \in 0 .. n |-> IF k = 0 THEN h ELSE g[<<r[k - 1], k>>]]
               b == [k \in 0 .. n |-> IF k = 0 THEN h ELSE FreeNext(r[k - 1])]
    <3>1. \A k \in 0 .. n : a[k] = b[k]
      BY <2>2
    <3>2. a = b
      BY <3>1
    <3>3. r = a
      BY <2>1, Zenon DEF RunOf
    <3> QED BY <3>2, <3>3, Zenon
  <2> QED BY <2>3, Zenon
<1>8. RemoveFrom(m, c) = R[n]
  BY Zenon DEF RemoveFrom, Loop, h, n
<1> HIDE DEF R
<1>9. \A k \in 0 .. n : R[k] \in S[k]
  <2>1. R[0] = h /\ \A k \in 1 .. n : R[k] = FreeNext(R[k - 1]) /\ k - 1 \in 0 .. n /\ k \in 0 .. n
    BY <1>1, <1>7
  <2>2. R[0] \in S[0]
    BY <2>1, <1>1, <1>2, <1>4
  <2>3. \A k \in 1 .. n : R[k - 1] \in S[k - 1] => R[k] \in S[k]
    <3> TAKE k \in 1 .. n
    <3>1. S[k - 1] = J /\ S[k] = J /\ R[k] = FreeNext(R[k - 1])
      BY <2>1, <1>4, Zenon
    <3> QED BY <3>1, <1>3, Zenon
  <2> QED BY <1>1, <2>2, <2>3, RunInduct
<1>10. n \in 0 .. n
  BY <1>1
<1>11. R[n] \in J
  BY <1>4, <1>9, <1>10, Zenon
<1> QED BY <1>8, <1>11, Zenon DEF J

\* A probe of the search for a free cluster
LEMMA ProbeFacts ==
    ASSUME NEW m, Sound(m), NEW c \in Cluster, m.val \in Cluster => Fat(Seen(m))[m.val] = 0,
           m.val \in {0, 1, DiskErr} \union Cluster
    PROVE  LET w == Probe(m, c) IN
           /\ Passes(m, w) /\ w.val \in {0, 1, DiskErr} \union Cluster
           /\ w.val \in Cluster => Fat(Seen(m))[w.val] = 0
<1>1. CASE m.val # 0
  <2>1. Probe(m, c) = m
    BY <1>1, Zenon DEF Probe
  <2> QED BY <2>1, PassesRefl
<1>2. CASE m.val = 0
  <2> DEFINE g == get_fat(m, c)
             F == Fat(Seen(m))
             v == Value(g, c)
             u == Value(g, 0)
  <2>1. /\ Passes(m, g)
        /\ \/ g.res = "FR_OK" /\ g.val = F[c]
           \/ g.res = "FR_DISK_ERR" /\ g.val = DiskErr
    BY GetFatFacts
  <2>2. Probe(m, c) = IF g.val = 0 THEN v ELSE IF g.val \in {1, DiskErr} THEN g ELSE u
    BY <1>2, Zenon DEF Probe
  <2> HIDE DEF g
  <2>3. Sound(g) /\ c \in Int /\ 0 \in Int
    BY <2>1, LayoutFacts DEF Passes
  <2>4. Passes(g, v) /\ v.val = c /\ Passes(g, u) /\ u.val = 0
    BY <2>3, ValueFacts
  <2> HIDE DEF u, v
  <2>5. Passes(m, u) /\ Passes(m, v)
    BY <2>1, <2>4, PassesTrans
  <2>6. DiskErr # 0 /\ 0 \notin Cluster /\ 1 \notin Cluster /\ DiskErr \notin Cluster
    BY ClusterFacts, LayoutFacts
  <2>7. CASE g.val = 0
    <3>1. F[c] = 0
      BY <2>1, <2>6, <2>7, Zenon
    <3>2. Probe(m, c) = v
      BY <2>2, <2>7, Zenon
    <3>3. v.val \in {0, 1, DiskErr} \union Cluster /\ F[v.val] = 0
      BY <2>4, <3>1
    <3> QED BY <2>5, <3>2, <3>3, Zenon
  <2>8. CASE g.val # 0 /\ g.val \in {1, DiskErr}
    <3>1. Probe(m, c) = g
      BY <2>2, <2>8, Zenon
    <3>2. g.val \in {0, 1, DiskErr} \union Cluster /\ g.val \notin Cluster
      BY <2>6, <2>8
    <3> QED BY <2>1, <3>1, <3>2, Zenon
  <2>9. CASE g.val # 0 /\ g.val \notin {1, DiskErr}
    <3>1. Probe(m, c) = u
      BY <2>2, <2>9, Zenon
    <3>2. u.val \in {0, 1, DiskErr} \union Cluster /\ u.val \notin Cluster
      BY <2>4, <2>6
    <3> QED BY <2>5, <3>1, <3>2, Zenon
  <2> QED BY <2>7, <2>8, <2>9, Zenon
<1> QED BY <1>1, <1>2, Zenon

\* What the search has come to: the cluster it names is free
Sought(m, w) == /\ Passes(m, w) /\ w.val \in {0, 1, DiskErr} \union Cluster
                /\ w.val \in Cluster => Fat(Seen(m))[w.val] = 0

\* Every cluster create_chain looks at is one.
LEMMA CandidateType ==
    ASSUME NEW scl \in 1 .. n_fatent, NEW k \in Nat, k # 0
    PROVE  Candidate(scl, k) \in Cluster
<1> USE FatFsAssumption, LayoutFacts
<1>1. scl - 2 + k \in Int
  OBVIOUS
<1> DEFINE x == scl - 2 + k
<1> HIDE DEF x
<1>2. x % NClust \in 0 .. NClust - 1
  BY <1>1 DEF x
<1>3. (x % NClust) + 2 \in 2 .. n_fatent - 1
  BY <1>2
<1> QED BY <1>3 DEF Candidate, Cluster, x

\* The search answers with a cluster that is free
LEMMA FindFreeFacts ==
    ASSUME NEW m, Sound(m), NEW scl \in 1 .. n_fatent
    PROVE  LET w == FindFree(m, scl) IN
           /\ Passes(m, w) /\ w.val \in {0, 1, DiskErr} \union Cluster
           /\ w.val \in Cluster => Fat(Seen(m))[w.val] = 0
<1> DEFINE h == Value(m, 0)
           J == {w \in Machines : Sought(m, w)}
           n == NClust
           S == [k \in 0 .. n |-> J]
<1>1. n \in Nat
  BY FatFsAssumption
<1>2. h \in J
  <2>1. Passes(m, h) /\ h.val = 0
    BY ValueFacts
  <2> HIDE DEF h
  <2>2. h \in Machines
    BY <2>1, Zenon DEF Passes, Sound
  <2>3. h.val \in {0, 1, DiskErr} \union Cluster /\ h.val \notin Cluster
    BY <2>1, LayoutFacts DEF Cluster
  <2> QED BY <2>1, <2>2, <2>3, Zenon DEF Sought
<1> HIDE DEF h
<1>3. \A k \in 1 .. n : \A w \in J : Probe(w, Candidate(scl, k)) \in J
  <2> TAKE k \in 1 .. n
  <2> TAKE w \in J
  <2>1. /\ Passes(m, w) /\ w.val \in {0, 1, DiskErr} \union Cluster
        /\ w.val \in Cluster => Fat(Seen(m))[w.val] = 0
    BY Zenon DEF Sought
  <2>2. Sound(w) /\ Seen(w) = Seen(m)
    BY <2>1 DEF Passes
  <2> DEFINE c == Candidate(scl, k)
             u == Probe(w, c)
  <2>3. c \in Cluster
    <3>1. k \in Nat /\ k # 0
      BY <1>1
    <3> QED BY <3>1, CandidateType
  <2> HIDE DEF c
  <2>4. /\ Passes(w, u) /\ u.val \in {0, 1, DiskErr} \union Cluster
        /\ u.val \in Cluster => Fat(Seen(w))[u.val] = 0
    BY <2>1, <2>2, <2>3, ProbeFacts
  <2> HIDE DEF u
  <2>5. Passes(m, u)
    BY <2>1, <2>4, PassesTrans
  <2>6. u \in Machines
    BY <2>5, Zenon DEF Passes, Sound
  <2> QED BY <2>2, <2>4, <2>5, <2>6, Zenon DEF u, c, Sought
<1>4. \A k \in 0 .. n : S[k] = J
  OBVIOUS
<1>5. J \subseteq Machines
  OBVIOUS
<1> HIDE DEF S, n, J
<1>6. h \in S[0]
  <2>1. 0 \in 0 .. n
    BY <1>1
  <2> QED BY <2>1, <1>2, <1>4, Zenon
<1>7. \A k \in 1 .. n : \A w \in S[k - 1] : Probe(w, Candidate(scl, k)) \in S[k]
  <2>1. \A k \in 1 .. n : S[k - 1] = J /\ S[k] = J
    BY <1>1, <1>4
  <2> QED BY <2>1, <1>3, Zenon
<1>8. \A k \in 0 .. n : S[k] \subseteq Machines
  BY <1>4, <1>5
<1> DEFINE g == [p \in Machines \X (1 .. n) |-> Probe(p[1], Candidate(scl, p[2]))]
<1>9. \A k \in 1 .. n : \A w \in Machines : g[<<w, k>>] = Probe(w, Candidate(scl, k))
  OBVIOUS
<1> HIDE DEF g
<1>10. \E r : RunOf(n, S, h, g, r)
  <2>1. Steady(n, S, g)
    <3>1. \A k \in 1 .. n : \A w \in S[k - 1] : w \in Machines
      BY <1>1, <1>8
    <3> QED BY <3>1, <1>7, <1>9, Zenon DEF Steady
  <2> QED BY <1>1, <1>6, <2>1, RunExists
<1> DEFINE R == CHOOSE R : R = [k \in 0 .. n |-> IF k = 0 THEN h ELSE Probe(R[k - 1], Candidate(scl, k))]
<1>11. R = [k \in 0 .. n |-> IF k = 0 THEN h ELSE Probe(R[k - 1], Candidate(scl, k))]
  <2>1. PICK r : RunOf(n, S, h, g, r)
    BY <1>10, Zenon
  <2>2. \A k \in 0 .. n : k # 0 => g[<<r[k - 1], k>>] = Probe(r[k - 1], Candidate(scl, k))
    <3> TAKE k \in 0 .. n
    <3>1. k # 0 => k \in 1 .. n /\ k - 1 \in 0 .. n
      BY <1>1
    <3> QED BY <2>1, <3>1, <1>8, <1>9, Zenon DEF RunOf
  <2>3. r = [k \in 0 .. n |-> IF k = 0 THEN h ELSE Probe(r[k - 1], Candidate(scl, k))]
    <3> DEFINE a == [k \in 0 .. n |-> IF k = 0 THEN h ELSE g[<<r[k - 1], k>>]]
               b == [k \in 0 .. n |-> IF k = 0 THEN h ELSE Probe(r[k - 1], Candidate(scl, k))]
    <3>1. \A k \in 0 .. n : a[k] = b[k]
      BY <2>2
    <3>2. a = b
      BY <3>1
    <3>3. r = a
      BY <2>1, Zenon DEF RunOf
    <3> QED BY <3>2, <3>3, Zenon
  <2> QED BY <2>3, Zenon
<1>12. FindFree(m, scl) = R[n]
  BY Zenon DEF FindFree, Loop, h, n
<1> HIDE DEF R
<1>13. \A k \in 0 .. n : R[k] \in S[k]
  <2>1. R[0] = h /\ \A k \in 1 .. n : R[k] = Probe(R[k - 1], Candidate(scl, k))
    BY <1>1, <1>11
  <2>2. R[0] \in S[0]
    BY <2>1, <1>6
  <2>3. \A k \in 1 .. n : R[k - 1] \in S[k - 1] => R[k] \in S[k]
    BY <2>1, <1>7, Zenon
  <2> QED BY <1>1, <2>2, <2>3, RunInduct
<1>14. FindFree(m, scl) \in S[n]
  <2>1. n \in 0 .. n
    BY <1>1
  <2> QED BY <1>12, <1>13, <2>1, Zenon
<1>15. FindFree(m, scl) \in J
  BY <1>1, <1>4, <1>14
<1> QED BY <1>15, Zenon DEF J, Sought

\* A cluster whose entry is zero is in no chain
LEMMA FreeUnowned ==
    ASSUME NEW F, NEW q, Chained(F, q), NEW c \in Cluster, F[c] = 0
    PROVE  q.own[c] = NoName
<1>1. 0 \notin Cluster /\ 0 # EndOfChain
  BY ClusterFacts, LayoutFacts
<1>2. ASSUME q.own[c] # NoName PROVE F[c] = EndOfChain \/ F[c] \in Cluster
  BY <1>2, Zenon DEF Chained
<1> QED BY <1>1, <1>2, Zenon

\* The values a call on the FAT can give.
Answer == {0, 1, DiskErr} \union Cluster

\* They are told apart.
LEMMA AnswerFacts == 0 \in Answer /\ 1 \in Answer /\ DiskErr \in Answer /\ Cluster \subseteq Answer /\ Answer \subseteq Int
                     /\ DiskErr \notin Cluster /\ 0 \notin Cluster /\ 1 \notin Cluster
<1>1. \A x \in Cluster : x \in Int
  BY LayoutFacts
<1>2. DiskErr \in Int /\ DiskErr \notin Cluster /\ 0 \notin Cluster /\ 1 \notin Cluster
  BY ClusterFacts, Zenon
<1>3. \A x \in Answer : x \in Int
  BY <1>1, <1>2 DEF Answer
<1> QED BY <1>2, <1>3 DEF Answer

\* The last cluster is remembered, one less counted free.
LEMMA GrownFacts ==
    ASSUME NEW m, NEW o, NEW L, NEW T, NEW X, NEW q, InOrder(m, o, L, T, X, q), NEW c \in Cluster
    PROVE  LET w == Grown(m, c) IN
           /\ InOrder(w, o, L, T, X, q) /\ Keeps(m, w) /\ Seen(w) = Seen(m) /\ w.val \in Answer /\ w.res = m.res
           /\ w.val \in Cluster => m.res = "FR_OK" /\ w.val = c
<1>1. m \in Machines
  BY InOrderFacts, Zenon
<1>2. c \in Int /\ c \in Answer /\ 1 \in Int /\ DiskErr \in Int
  BY AnswerFacts, LayoutFacts
<1>3. CASE m.res = "FR_OK"
  <2> DEFINE f == IF m.free_clust = Unknown THEN Unknown ELSE m.free_clust - 1
             w == Counted(m, f, c, c, "FR_OK")
  <2>1. f \in Int
    BY <1>1 DEF Machines, Unknown
  <2>2. Grown(m, c) = w
    <3>1. Grown(m, c) = [Taken(m) EXCEPT !.last_clust = c, !.val = c]
      BY <1>3, Zenon DEF Grown
    <3>2. [Taken(m) EXCEPT !.last_clust = c, !.val = c] = w
      BY <1>1, <1>3 DEF Machines, Taken, Counted
    <3> QED BY <3>1, <3>2, Zenon
  <2> HIDE DEF f
  <2>3. InOrder(w, o, L, T, X, q) /\ Keeps(m, w) /\ w.res = "FR_OK" /\ w.val = c /\ Seen(w) = Seen(m)
    BY <1>2, <2>1, OkResult, InOrderCount
  <2> HIDE DEF w
  <2> QED BY <1>2, <1>3, <2>2, <2>3, Zenon
<1>4. CASE m.res # "FR_OK"
  <2> DEFINE x == IF m.res = "FR_DISK_ERR" THEN DiskErr ELSE 1
             w == Value(m, x)
  <2>1. Grown(m, c) = w
    BY <1>4, Zenon DEF Grown
  <2>2. x \in Int /\ x \in Answer /\ x \notin Cluster
    BY AnswerFacts
  <2> HIDE DEF x
  <2>3. InOrder(w, o, L, T, X, q) /\ Keeps(m, w) /\ w.res = m.res /\ w.val = x /\ Seen(w) = Seen(m)
    BY <2>2, InOrderValue
  <2> HIDE DEF w
  <2> QED BY <2>1, <2>2, <2>3, Zenon
<1> QED BY <1>3, <1>4

\* A new chain of one cluster, which nobody owns yet
Fresh(m, w, o, L, T, q) ==
    /\ InOrder(w, o, L, T, {}, q) /\ Keeps(m, w) /\ w.val \in Answer
    /\ w.val \in Cluster => q.own[w.val] = NoName /\ Fat(Seen(w))[w.val] = EndOfChain

\* create_chain(0) gives a cluster that no chain owns.
LEMMA StretchFresh ==
    ASSUME NEW m, NEW o, NEW L, NEW T, NEW q, InOrder(m, o, L, T, {}, q), NEW scl \in 1 .. n_fatent
    PROVE  Fresh(m, Stretch(m, 0, scl), o, L, T, q)
<1> DEFINE f == FindFree(m, scl)
           F == Fat(Seen(m))
<1>1. Sound(m) /\ Chained(F, q) /\ F \in Table
  BY InOrderFacts, HoldsParts
<1>2. Passes(m, f) /\ f.val \in Answer /\ (f.val \in Cluster => F[f.val] = 0)
  BY <1>1, FindFreeFacts DEF Answer
<1>3. InOrder(f, o, L, T, {}, q) /\ Keeps(m, f) /\ Seen(f) = Seen(m)
  <2> HIDE DEF f
  <2> QED BY <1>1, <1>2, InOrderPasses, PassesKeeps DEF Passes
<1> DEFINE u == f.val
           p == put_fat(f, u, EndOfChain)
           z == Grown(p, u)
<1>4. Stretch(m, 0, scl) = IF u \notin Cluster THEN f ELSE z
  <2>1. Linked(f, 0, u) = p
    BY Zenon DEF Linked, IfOk
  <2> QED BY <2>1, Zenon DEF Stretch
<1> HIDE DEF f
<1>5. CASE u \notin Cluster
  BY <1>2, <1>3, <1>4, <1>5, Zenon DEF Fresh
<1>6. CASE u \in Cluster
  <2>1. q.own[u] = NoName
    BY <1>1, <1>2, <1>6, FreeUnowned
  <2>2. /\ InOrder(p, o, L, T, {}, q) /\ Keeps(f, p)
        /\ p.res = "FR_OK" => Fat(Seen(p)) = [Fat(Seen(f)) EXCEPT ![u] = EndOfChain]
    <3> HIDE DEF u
    <3> QED BY <1>3, <1>6, <2>1, InOrderPut, ClusterFacts
  <2> HIDE DEF p
  <2>3. /\ InOrder(z, o, L, T, {}, q) /\ Keeps(p, z) /\ Seen(z) = Seen(p) /\ z.val \in Answer
        /\ z.val \in Cluster => p.res = "FR_OK" /\ z.val = u
    <3> HIDE DEF u
    <3> QED BY <1>6, <2>2, GrownFacts
  <2> HIDE DEF z
  <2>4. z.val \in Cluster => q.own[z.val] = NoName /\ Fat(Seen(z))[z.val] = EndOfChain
    <3>1. Fat(Seen(f)) \in [Cluster -> 0 .. n_fatent]
      BY <1>1, <1>3 DEF Table
    <3>2. [Fat(Seen(f)) EXCEPT ![u] = EndOfChain][u] = EndOfChain
      BY <1>6, <3>1
    <3> QED BY <2>1, <2>2, <2>3, <3>2, Zenon
  <2>5. Keeps(m, z)
    <3>1. Keeps(m, p)
      BY <1>3, <2>2, KeepsTrans
    <3> QED BY <2>3, <3>1, KeepsTrans
  <2>6. Stretch(m, 0, scl) = z
    BY <1>4, <1>6, Zenon
  <2> QED BY <2>3, <2>4, <2>5, <2>6, Zenon DEF Fresh
<1> QED BY <1>5, <1>6

LEMMA CreateFresh ==
    ASSUME NEW m, NEW o, NEW L, NEW T, NEW q, InOrder(m, o, L, T, {}, q)
    PROVE  Fresh(m, create_chain(m, 0), o, L, T, q)
<1> DEFINE scl == IF m.last_clust \in 1 .. (n_fatent - 1) THEN m.last_clust ELSE 1
<1>1. scl \in 1 .. n_fatent
  <2>1. n_fatent \in Nat /\ 1 \in 1 .. n_fatent /\ 1 .. (n_fatent - 1) \subseteq 1 .. n_fatent
    BY LayoutFacts, FatFsAssumption
  <2> QED BY <2>1, Zenon
<1> HIDE DEF scl
<1>2. Fresh(m, Stretch(m, 0, scl), o, L, T, q)
  BY <1>1, StretchFresh
<1>3. create_chain(m, 0) = Stretch(m, 0, scl)
  BY Zenon DEF create_chain, scl
<1> QED BY <1>2, <1>3, Zenon

\* What create_chain makes of the chain of n behind c: the cluster in val comes next
Longer(m, w, o, L, T, q, n, c, r) ==
    /\ InOrder(w, o, L, T, {}, r) /\ Keeps(m, w) /\ Grows(q, r) /\ w.val \in Answer
    /\ w.val \in Cluster => w.res = "FR_OK" /\ r.own[w.val] = q.al[n] /\ r.idx[w.val] = q.idx[c] + 1

\* create_chain(c) links such a cluster behind the chain of c.
LEMMA StretchBehind ==
    ASSUME NEW m, NEW o, NEW L, NEW T, NEW q, InOrder(m, o, L, T, {}, q), NEW scl \in 1 .. n_fatent,
           NEW n \in Name, NEW c \in Cluster, q.own[c] = q.al[n], Fat(Seen(m))[c] = EndOfChain
    PROVE  \E r : Longer(m, Stretch(m, c, scl), o, L, T, q, n, c, r)
<1> DEFINE f == FindFree(m, scl)
           F == Fat(Seen(m))
<1>1. Sound(m) /\ Chained(F, q) /\ F \in Table /\ q \in Certificate
  BY InOrderFacts, HoldsParts
<1>2. Passes(m, f) /\ f.val \in Answer /\ (f.val \in Cluster => F[f.val] = 0)
  BY <1>1, FindFreeFacts DEF Answer
<1>3. InOrder(f, o, L, T, {}, q) /\ Keeps(m, f) /\ Seen(f) = Seen(m)
  <2> HIDE DEF f
  <2> QED BY <1>1, <1>2, InOrderPasses, PassesKeeps DEF Passes
<1>4. Grows(q, q)
  BY <1>1, GrowsRefl
<1> DEFINE u == f.val
           p == put_fat(f, u, EndOfChain)
           z == put_fat(p, c, u)
           l == IF p.res = "FR_OK" THEN z ELSE p
           e == Grown(l, u)
<1>5. c # 0 /\ q.own[c] # NoName
  <2>1. q.al[n] \in Name
    BY <1>1 DEF Certificate
  <2> QED BY <2>1, FatFsAssumption, ClusterFacts
<1>6. Stretch(m, c, scl) = IF u \notin Cluster THEN f ELSE e
  <2>1. Linked(f, c, u) = l
    BY <1>5, Zenon DEF Linked, IfOk
  <2> HIDE DEF l
  <2> QED BY <2>1, Zenon DEF Stretch
<1> HIDE DEF f
<1>7. CASE u \notin Cluster
  <2>1. Longer(m, f, o, L, T, q, n, c, q)
    BY <1>2, <1>3, <1>4, <1>7, Zenon DEF Longer
  <2> QED BY <1>6, <1>7, <2>1, Zenon
<1>8. CASE u \in Cluster
  <2>1. q.own[u] = NoName
    BY <1>1, <1>2, <1>8, FreeUnowned
  <2>2. u # c
    BY <1>5, <2>1
  <2> HIDE DEF u
  <2>3. /\ InOrder(p, o, L, T, {}, q) /\ Keeps(f, p) /\ p.res \in {"FR_OK", "FR_DISK_ERR"}
        /\ p.res = "FR_OK" => Fat(Seen(p)) = [Fat(Seen(f)) EXCEPT ![u] = EndOfChain]
    BY <1>3, <1>8, <2>1, InOrderPut, ClusterFacts
  <2> HIDE DEF p
  <2>4. Keeps(m, p)
    BY <1>3, <2>3, KeepsTrans
  <2>5. \E r : InOrder(l, o, L, T, {}, r) /\ Keeps(m, l) /\ Grows(q, r)
               /\ (l.res = "FR_OK" => r.own[u] = q.al[n] /\ r.idx[u] = q.idx[c] + 1)
    <3>1. CASE p.res # "FR_OK"
      <4>1. l = p
        BY <3>1, Zenon
      <4> QED BY <1>4, <2>3, <2>4, <3>1, <4>1, Zenon
    <3>2. CASE p.res = "FR_OK"
      <4>1. l = z
        BY <3>2, Zenon
      <4>2. Sound(p) /\ p.mounted /\ Holds(Fat(Seen(p)), Dir(Seen(p)), o, L, T, {}, q)
        BY <2>3, InOrderFacts, Zenon
      <4>3. PutDone(p, z, c, u)
        <5>1. u \in 0 .. n_fatent
          BY <1>8, ClusterFacts
        <5> QED BY <4>2, <5>1, PutFatFacts
      <4> HIDE DEF z
      <4>4. Keeps(m, z)
        <5>1. Keeps(p, z)
          BY <4>3, Zenon DEF PutDone
        <5> QED BY <2>4, <5>1, KeepsTrans
      <4>5. CASE z.res = "FR_DISK_ERR" /\ Passes(p, z)
        <5>1. InOrder(z, o, L, T, {}, q)
          BY <2>3, <4>5, InOrderPasses
        <5>2. z.res # "FR_OK"
          BY <4>5
        <5> QED BY <1>4, <4>1, <4>4, <5>1, <5>2, Zenon
      <4>6. CASE z.res = "FR_OK" /\ Fat(Seen(z)) = [Fat(Seen(p)) EXCEPT ![c] = u] /\ Dir(Seen(z)) = Dir(Seen(p))
        <5>1. Fat(Seen(p))[u] = EndOfChain /\ Fat(Seen(p))[c] = EndOfChain
          <6>1. Fat(Seen(f)) \in [Cluster -> 0 .. n_fatent] /\ Fat(Seen(f))[c] = EndOfChain
            BY <1>1, <1>3 DEF Table
          <6> DEFINE H == Fat(Seen(f))
          <6>2. [H EXCEPT ![u] = EndOfChain][u] = EndOfChain /\ [H EXCEPT ![u] = EndOfChain][c] = EndOfChain
            <7> HIDE DEF H
            <7> QED BY <1>8, <2>2, <6>1 DEF H
          <6> QED BY <2>3, <3>2, <6>2, Zenon
        <5>2. u \notin {}
          OBVIOUS
        <5>3. \E r : /\ Holds([Fat(Seen(p)) EXCEPT ![c] = u], Dir(Seen(p)), o, L, T, {}, r) /\ Grows(q, r)
                     /\ r.own[u] = q.al[n] /\ r.idx[u] = q.idx[c] + 1
          BY <4>2, <1>8, <2>1, <5>1, <5>2, LinkTail
        <5>4. PICK r : /\ Holds([Fat(Seen(p)) EXCEPT ![c] = u], Dir(Seen(p)), o, L, T, {}, r) /\ Grows(q, r)
                       /\ r.own[u] = q.al[n] /\ r.idx[u] = q.idx[c] + 1
          BY <5>3, Zenon
        <5>5. Holds(Fat(Seen(z)), Dir(Seen(z)), o, L, T, {}, r)
          BY <4>6, <5>4, Zenon
        <5>6. Sound(z) /\ z.mounted /\ z.disk \in {p.disk, Seen(p)}
          BY <4>2, <4>3, Zenon DEF PutDone
        <5>7. InOrder(z, o, L, T, {}, r)
          BY <2>3, <5>5, <5>6, InOrderStep
        <5> QED BY <4>1, <4>4, <5>4, <5>7, Zenon
      <4> QED BY <4>3, <4>5, <4>6, Zenon DEF PutDone
    <3> QED BY <3>1, <3>2
  <2> HIDE DEF l
  <2>6. PICK r : InOrder(l, o, L, T, {}, r) /\ Keeps(m, l) /\ Grows(q, r)
                 /\ (l.res = "FR_OK" => r.own[u] = q.al[n] /\ r.idx[u] = q.idx[c] + 1)
    BY <2>5, Zenon
  <2>7. /\ InOrder(e, o, L, T, {}, r) /\ Keeps(l, e) /\ e.val \in Answer
        /\ e.val \in Cluster => l.res = "FR_OK" /\ e.res = "FR_OK" /\ e.val = u
    BY <1>8, <2>6, GrownFacts
  <2> HIDE DEF e
  <2>8. Keeps(m, e)
    BY <2>6, <2>7, KeepsTrans
  <2>9. Longer(m, e, o, L, T, q, n, c, r)
    <3>1. e.val \in Cluster => e.res = "FR_OK" /\ r.own[e.val] = q.al[n] /\ r.idx[e.val] = q.idx[c] + 1
      BY <2>6, <2>7, Zenon
    <3> QED BY <2>6, <2>7, <2>8, <3>1, Zenon DEF Longer
  <2> QED BY <1>6, <1>8, <2>9, Zenon DEF u
<1> QED BY <1>7, <1>8

\* What comes behind c in a chain
LEMMA NextLink ==
    ASSUME NEW F, NEW q \in Certificate, Chained(F, q), NEW n \in Name, NEW c \in Cluster, q.own[c] = q.al[n]
    PROVE  F[c] = EndOfChain \/ (F[c] \in Cluster /\ q.own[F[c]] = q.al[n] /\ q.idx[F[c]] = q.idx[c] + 1)
<1>1. q.own[c] # NoName
  <2>1. q.al[n] \in Name
    BY DEF Certificate
  <2> QED BY <2>1, FatFsAssumption
<1> QED BY <1>1, Zenon DEF Chained

\* It may also find the next cluster linked already.
LEMMA CreateBehind ==
    ASSUME NEW m, NEW o, NEW L, NEW T, NEW q, InOrder(m, o, L, T, {}, q),
           NEW n \in Name, NEW c \in Cluster, q.own[c] = q.al[n]
    PROVE  \E r : Longer(m, create_chain(m, c), o, L, T, q, n, c, r)
<1> DEFINE g == get_fat(m, c)
           F == Fat(Seen(m))
<1>1. /\ InOrder(g, o, L, T, {}, q) /\ Keeps(m, g) /\ Passes(m, g)
      /\ \/ g.res = "FR_OK" /\ g.val = F[c]
         \/ g.res = "FR_DISK_ERR" /\ g.val = DiskErr
  BY InOrderGet
<1>2. create_chain(m, c) = IF g.val < 2 THEN Value(g, 1) ELSE IF g.val = EndOfChain THEN Stretch(g, c, c) ELSE g
  <2>1. c # 0
    BY ClusterFacts
  <2> QED BY <2>1, Zenon DEF create_chain
<1> HIDE DEF g
<1>3. Chained(F, q) /\ q \in Certificate /\ Grows(q, q)
  BY InOrderFacts, HoldsParts, GrowsRefl
<1>4. Seen(g) = Seen(m)
  BY <1>1, Zenon DEF Passes
<1>5. \/ F[c] = EndOfChain
      \/ F[c] \in Cluster /\ q.own[F[c]] = q.al[n] /\ q.idx[F[c]] = q.idx[c] + 1
  BY <1>3, NextLink
<1>6. ~ (DiskErr < 2) /\ ~ (EndOfChain < 2) /\ DiskErr # EndOfChain /\ \A x \in Cluster : ~ (x < 2) /\ x # EndOfChain
  <2>1. n_fatent \in Nat /\ n_fatent >= 2
    BY LayoutFacts, FatFsAssumption
  <2> QED BY <2>1 DEF DiskErr, EndOfChain, Cluster
<1>7. CASE g.res = "FR_DISK_ERR" /\ g.val = DiskErr
  <2>1. create_chain(m, c) = g
    BY <1>2, <1>6, <1>7, Zenon
  <2>2. Longer(m, g, o, L, T, q, n, c, q)
    BY <1>1, <1>3, <1>7, AnswerFacts, Zenon DEF Longer
  <2> QED BY <2>1, <2>2, Zenon
<1>8. CASE g.val = F[c] /\ F[c] = EndOfChain
  <2>1. create_chain(m, c) = Stretch(g, c, c)
    BY <1>2, <1>6, <1>8, Zenon
  <2>2. c \in 1 .. n_fatent
    BY LayoutFacts DEF Cluster
  <2>3. \E r : Longer(g, Stretch(g, c, c), o, L, T, q, n, c, r)
    BY <1>1, <1>4, <1>8, <2>2, StretchBehind
  <2>4. PICK r : Longer(g, Stretch(g, c, c), o, L, T, q, n, c, r)
    BY <2>3, Zenon
  <2> DEFINE w == Stretch(g, c, c)
  <2> HIDE DEF w
  <2>5. Keeps(m, w)
    <3>1. Keeps(g, w)
      BY <2>4, Zenon DEF Longer, w
    <3> QED BY <1>1, <3>1, KeepsTrans
  <2>6. Longer(m, w, o, L, T, q, n, c, r)
    BY <2>4, <2>5, Zenon DEF Longer, w
  <2> QED BY <2>1, <2>6, Zenon DEF w
<1>9. CASE /\ g.res = "FR_OK" /\ g.val = F[c]
           /\ F[c] \in Cluster /\ q.own[F[c]] = q.al[n] /\ q.idx[F[c]] = q.idx[c] + 1
  <2>1. create_chain(m, c) = g
    BY <1>2, <1>6, <1>9, Zenon
  <2>2. g.val \in Answer
    BY <1>9, AnswerFacts
  <2>3. Longer(m, g, o, L, T, q, n, c, q)
    BY <1>1, <1>3, <1>9, <2>2, Zenon DEF Longer
  <2> QED BY <2>1, <2>3, Zenon
<1> QED BY <1>1, <1>5, <1>7, <1>8, <1>9, Zenon

-------------------------------------------------------------------------------
(* The directory calls: dir_find, dir_register, dir_remove *)

\* The search for name after k entries of D, from the machine m on
Scanning(m, D, name, k, w) ==
    /\ Passes(m, w)
    /\ \/ /\ w.res = "FR_OK" /\ w.val = -1
          /\ \A j \in 0 .. NRootDir - 1 : j < k => D[j].name # name /\ ~D[j].end
       \/ /\ w.res = "FR_OK" /\ w.val \in 0 .. NRootDir - 1 /\ D[w.val].name = name
          /\ Shows(w, DirSect(w.val)) /\ \A j \in 0 .. NRootDir - 1 : j < w.val => ~D[j].end
       \/ w.res = "FR_DISK_ERR"
       \/ /\ w.res = "FR_NO_FILE"
          /\ \E j \in 0 .. NRootDir - 1 : D[j].end /\ \A i \in 0 .. NRootDir - 1 : i <= j => D[i].name # name

\* The entry in the window is the one seen.
LEMMA ShownEntry ==
    ASSUME NEW m, Sound(m), NEW i \in 0 .. NRootDir - 1, Shows(m, DirSect(i))
    PROVE  EntryAt(m, i) = Dir(Seen(m))[i] /\ EntryAt(m, i) \in DirEntry
<1>1. Seen(m) \in Medium
  BY SeenFacts, Zenon
<1>2. Dir(Seen(m)) \in Folder /\ Dir(Seen(m))[i] = Seen(m)[DirSect(i)][i % PerDir]
  BY <1>1, DirSectorType
<1>3. Dir(Seen(m))[i] \in DirEntry
  BY <1>2 DEF Folder
<1>4. EntryAt(m, i) = Dir(Seen(m))[i]
  BY <1>2, Zenon DEF EntryAt, Shows
<1> QED BY <1>3, <1>4

\* One entry looked at by dir_find.
LEMMA ScanEntryFacts ==
    ASSUME NEW m, Sound(m), NEW D, D = Dir(Seen(m)), NEW name, NEW k \in 1 .. NRootDir, NEW w,
           Scanning(m, D, name, k - 1, w)
    PROVE  Scanning(m, D, name, k, ScanEntry(w, k - 1, name))
<1> USE FatFsAssumption
<1> DEFINE i == k - 1
<1>1. i \in 0 .. NRootDir - 1 /\ i \in Int /\ i # -1
  OBVIOUS
<1>2. CASE w.res # "FR_OK" \/ w.val # -1
  <2>1. ScanEntry(w, k - 1, name) = w
    BY <1>2, Zenon DEF ScanEntry
  <2> QED BY <1>2, <2>1, Zenon DEF Scanning
<1>3. CASE w.res = "FR_OK" /\ w.val = -1
  <2>1. Passes(m, w) /\ Sound(w) /\ Seen(w) = Seen(m)
    BY Zenon DEF Scanning, Passes
  <2>2. \A j \in 0 .. NRootDir - 1 : j < i => D[j].name # name /\ ~D[j].end
    <3>1. w.res # "FR_DISK_ERR" /\ w.res # "FR_NO_FILE" /\ w.val \notin 0 .. NRootDir - 1
      BY <1>3
    <3> QED BY <3>1, Zenon DEF Scanning
  <2> DEFINE v == move_window(w, DirSect(i))
             a == Value(v, i)
             b == Return(v, "FR_NO_FILE")
  <2>3. DirSect(i) \in 0 .. database - 1
    BY <1>1, LayoutFacts
  <2>4. /\ Passes(w, v) /\ Answers(w, v) /\ v.val = w.val
        /\ v.res = "FR_OK" => Shows(v, DirSect(i))
    BY <2>1, <2>3, MoveWindowFacts
  <2>5. ScanEntry(w, k - 1, name) =
           IF v.res # "FR_OK" THEN v
           ELSE IF EntryAt(v, i).name = name THEN a ELSE IF EntryAt(v, i).end THEN b ELSE v
    BY <1>3, Zenon DEF ScanEntry, IfOk
  <2> HIDE DEF v
  <2>6. Passes(m, v) /\ Sound(v) /\ Seen(v) = Seen(m)
    BY <2>1, <2>4, PassesTrans DEF Passes
  <2>7. CASE v.res # "FR_OK"
    <3>1. v.res = "FR_DISK_ERR"
      BY <2>4, <2>7, Zenon DEF Answers
    <3> QED BY <2>5, <2>6, <2>7, <3>1, Zenon DEF Scanning
  <2>8. CASE v.res = "FR_OK"
    <3>1. Shows(v, DirSect(i)) /\ EntryAt(v, i) = D[i]
      <4>1. Shows(v, DirSect(i))
        BY <2>4, <2>8, Zenon
      <4>2. EntryAt(v, i) = Dir(Seen(v))[i]
        BY <1>1, <2>6, <4>1, ShownEntry
      <4> QED BY <2>6, <4>1, <4>2
    <3>2. Passes(v, a) /\ a.res = v.res /\ a.val = i /\ a.win = v.win /\ a.winsect = v.winsect
      BY <1>1, <2>6, ValueFacts
    <3>3. Passes(v, b) /\ b.res = "FR_NO_FILE"
      BY <2>6, OkResult, ReturnFacts
    <3> HIDE DEF a, b, i
    <3>4. Passes(m, a) /\ Passes(m, b)
      BY <2>6, <3>2, <3>3, PassesTrans
    <3>5. CASE D[i].name = name
      <4>1. ScanEntry(w, k - 1, name) = a
        BY <2>5, <2>8, <3>1, <3>5, Zenon
      <4>2. Shows(a, DirSect(i))
        BY <3>1, <3>2, Zenon DEF Shows, Passes
      <4>3. a.res = "FR_OK" /\ a.val = i
        BY <2>8, <3>2
      <4>4. a.val \in 0 .. NRootDir - 1 /\ D[a.val].name = name /\ Shows(a, DirSect(a.val))
            /\ \A j \in 0 .. NRootDir - 1 : j < a.val => ~D[j].end
        BY <1>1, <2>2, <3>5, <4>2, <4>3, Zenon
      <4> QED BY <3>4, <4>1, <4>3, <4>4, Zenon DEF Scanning
    <3>6. CASE D[i].name # name /\ D[i].end
      <4>1. ScanEntry(w, k - 1, name) = b
        BY <2>5, <2>8, <3>1, <3>6, Zenon
      <4>2. \A j \in 0 .. NRootDir - 1 : j <= i => j = i \/ j < i
        BY <1>1
      <4>3. \A j \in 0 .. NRootDir - 1 : j <= i => D[j].name # name
        BY <2>2, <3>6, <4>2, Zenon
      <4> QED BY <1>1, <3>3, <3>4, <3>6, <4>1, <4>3, Zenon DEF Scanning
    <3>7. CASE D[i].name # name /\ ~D[i].end
      <4>1. ScanEntry(w, k - 1, name) = v
        BY <2>5, <2>8, <3>1, <3>7, Zenon
      <4>2. \A j \in 0 .. NRootDir - 1 : j < k => j = i \/ j < i
        BY DEF i
      <4>3. \A j \in 0 .. NRootDir - 1 : j < k => D[j].name # name /\ ~D[j].end
        BY <2>2, <3>7, <4>2, Zenon
      <4>4. v.val = -1
        BY <1>3, <2>4
      <4> QED BY <2>6, <2>8, <4>1, <4>3, <4>4, Zenon DEF Scanning
    <3> QED BY <3>5, <3>6, <3>7, Zenon
  <2> QED BY <2>7, <2>8
<1> QED BY <1>2, <1>3, Zenon

\* What a search for name leaves: the window shows the entry that it found
Scanned(m, w, D, name, none) ==
    /\ Passes(m, w) /\ w.res \in {"FR_OK", "FR_DISK_ERR", "FR_NO_FILE", none}
    /\ w.res = "FR_OK" =>
          /\ w.val \in 0 .. NRootDir - 1 /\ D[w.val].name = name
          /\ Shows(w, DirSect(w.val)) /\ \A j \in 0 .. NRootDir - 1 : j < w.val => ~D[j].end
    /\ w.res = "FR_NO_FILE" /\ name # NoName /\ DirOK(D) => \A j \in 0 .. NRootDir - 1 : D[j].name # name

\* dir_find gives the slot of the name, or says there is none.
LEMMA ScanDirFacts ==
    ASSUME NEW m, Sound(m), NEW name, NEW none \in {"FR_NO_FILE", "FR_DENIED"}
    PROVE  Scanned(m, ScanDir(m, name, none), Dir(Seen(m)), name, none)
<1> DEFINE D == Dir(Seen(m))
           h == [m EXCEPT !.res = "FR_OK", !.val = -1]
           n == NRootDir
           S == [k \in 0 .. n |-> {w \in Machines : Scanning(m, D, name, k, w)}]
<1>1. n \in Nat
  BY FatFsAssumption
<1>2. Passes(m, h) /\ h.res = "FR_OK" /\ h.val = -1 /\ h \in Machines
  <2>1. m \in Machines
    BY DEF Sound
  <2> DEFINE r == Return(m, "FR_OK")
             v == Value(r, -1)
  <2>2. h = v
    BY <2>1 DEF Machines, Value, Return
  <2> HIDE DEF h
  <2>3. Passes(m, r) /\ r.res = "FR_OK"
    BY OkResult, ReturnFacts
  <2> HIDE DEF r
  <2>4. Sound(r) /\ -1 \in Int
    BY <2>3 DEF Passes
  <2>5. Passes(r, v) /\ v.res = r.res /\ v.val = -1
    BY <2>4, ValueFacts
  <2> HIDE DEF v
  <2>6. Passes(m, v) /\ v \in Machines
    BY <2>3, <2>5, PassesTrans DEF Passes, Sound
  <2> QED BY <2>2, <2>3, <2>5, <2>6, Zenon
<1> HIDE DEF h, D
<1>3. \A k \in 0 .. n : S[k] = {w \in Machines : Scanning(m, D, name, k, w)}
  OBVIOUS
<1> HIDE DEF S, n
<1>4. h \in S[0]
  <2>1. \A j \in 0 .. NRootDir - 1 : ~ (j < 0)
    BY FatFsAssumption
  <2>2. Scanning(m, D, name, 0, h)
    BY <1>2, <2>1, Zenon DEF Scanning
  <2>3. 0 \in 0 .. n
    BY <1>1
  <2> QED BY <1>2, <1>3, <2>2, <2>3, Zenon
<1>5. \A k \in 1 .. n : \A w \in S[k - 1] : ScanEntry(w, k - 1, name) \in S[k]
  <2> TAKE k \in 1 .. n
  <2>0. k - 1 \in 0 .. n /\ k \in 0 .. n /\ k \in 1 .. NRootDir
    BY <1>1 DEF n
  <2> TAKE w \in S[k - 1]
  <2>1. w \in Machines /\ Scanning(m, D, name, k - 1, w)
    BY <1>3, <2>0, Zenon
  <2> DEFINE u == ScanEntry(w, k - 1, name)
  <2>2. Scanning(m, D, name, k, u)
    BY <2>0, <2>1, ScanEntryFacts DEF D
  <2> HIDE DEF u
  <2>3. u \in Machines
    BY <2>2, Zenon DEF Scanning, Passes, Sound
  <2> QED BY <1>3, <2>0, <2>2, <2>3, Zenon DEF u
<1>6. \A k \in 0 .. n : S[k] \subseteq Machines
  BY <1>3
<1> DEFINE Looked == Loop(h, NRootDir, LAMBDA w, k : ScanEntry(w, k - 1, name))
<1> DEFINE g == [p \in Machines \X (1 .. n) |-> ScanEntry(p[1], p[2] - 1, name)]
<1>7. \A k \in 1 .. n : \A w \in Machines : g[<<w, k>>] = ScanEntry(w, k - 1, name)
  OBVIOUS
<1> HIDE DEF g
<1>8. \E r : RunOf(n, S, h, g, r)
  <2>1. Steady(n, S, g)
    <3>1. \A k \in 1 .. n : \A w \in S[k - 1] : w \in Machines
      BY <1>1, <1>6
    <3> QED BY <3>1, <1>5, <1>7, Zenon DEF Steady
  <2> QED BY <1>1, <1>4, <2>1, RunExists
<1> DEFINE R == CHOOSE R : R = [k \in 0 .. n |-> IF k = 0 THEN h ELSE ScanEntry(R[k - 1], k - 1, name)]
<1>9. R = [k \in 0 .. n |-> IF k = 0 THEN h ELSE ScanEntry(R[k - 1], k - 1, name)]
  <2>1. PICK r : RunOf(n, S, h, g, r)
    BY <1>8, Zenon
  <2>2. \A k \in 0 .. n : k # 0 => g[<<r[k - 1], k>>] = ScanEntry(r[k - 1], k - 1, name)
    <3> TAKE k \in 0 .. n
    <3>1. k # 0 => k \in 1 .. n /\ k - 1 \in 0 .. n
      BY <1>1
    <3> QED BY <2>1, <3>1, <1>6, <1>7, Zenon DEF RunOf
  <2>3. r = [k \in 0 .. n |-> IF k = 0 THEN h ELSE ScanEntry(r[k - 1], k - 1, name)]
    <3> DEFINE a == [k \in 0 .. n |-> IF k = 0 THEN h ELSE g[<<r[k - 1], k>>]]
               b == [k \in 0 .. n |-> IF k = 0 THEN h ELSE ScanEntry(r[k - 1], k - 1, name)]
    <3>1. \A k \in 0 .. n : a[k] = b[k]
      BY <2>2
    <3>2. a = b
      BY <3>1
    <3>3. r = a
      BY <2>1, Zenon DEF RunOf
    <3> QED BY <3>2, <3>3, Zenon
  <2> QED BY <2>3, Zenon
<1>10. Looked = R[n]
  BY Zenon DEF Loop, n
<1> HIDE DEF R
<1>11. \A k \in 0 .. n : R[k] \in S[k]
  <2>1. R[0] = h /\ \A k \in 1 .. n : R[k] = ScanEntry(R[k - 1], k - 1, name)
    BY <1>1, <1>9
  <2>2. R[0] \in S[0]
    BY <2>1, <1>4
  <2>3. \A k \in 1 .. n : R[k - 1] \in S[k - 1] => R[k] \in S[k]
    BY <2>1, <1>5, Zenon
  <2> QED BY <1>1, <2>2, <2>3, RunInduct
<1>12. Looked \in S[n]
  <2>1. n \in 0 .. n
    BY <1>1
  <2> QED BY <1>10, <1>11, <2>1, Zenon
<1>13. Scanning(m, D, name, NRootDir, Looked)
  <2>1. n \in 0 .. n
    BY <1>1
  <2> HIDE DEF Looked
  <2> QED BY <1>3, <1>12, <2>1, Zenon DEF n
<1> DEFINE e == Return(Looked, none)
<1>14. ScanDir(m, name, none) = IF Looked.res = "FR_OK" /\ Looked.val = -1 THEN e ELSE Looked
  BY Zenon DEF ScanDir, h
<1> HIDE DEF Looked
<1>15. Passes(m, Looked)
  BY <1>13, Zenon DEF Scanning
<1>16. \A j \in 0 .. NRootDir - 1 : j < NRootDir
  BY FatFsAssumption
<1>17. CASE Looked.res = "FR_OK" /\ Looked.val = -1
  <2>1. \A j \in 0 .. NRootDir - 1 : D[j].name # name
    <3>1. Looked.res # "FR_DISK_ERR" /\ Looked.res # "FR_NO_FILE" /\ Looked.val \notin 0 .. NRootDir - 1
      BY <1>17
    <3> QED BY <1>13, <1>16, <3>1, Zenon DEF Scanning
  <2>2. Passes(Looked, e) /\ e.res = none
    <3>1. none \in Result /\ Sound(Looked)
      BY <1>15, OkResult DEF Passes
    <3> QED BY <3>1, ReturnFacts
  <2> HIDE DEF e
  <2>3. Passes(m, e) /\ e.res # "FR_OK"
    <3>1. Passes(m, e)
      BY <1>15, <2>2, PassesTrans
    <3> QED BY <2>2, <3>1
  <2>4. Scanned(m, e, D, name, none)
    BY <2>1, <2>2, <2>3, Zenon DEF Scanned
  <2> QED BY <1>14, <1>17, <2>4, Zenon DEF D
<1>18. CASE ~ (Looked.res = "FR_OK" /\ Looked.val = -1)
  <2>1. Looked.res \in {"FR_OK", "FR_DISK_ERR", "FR_NO_FILE", none}
    BY <1>13, Zenon DEF Scanning
  <2>2. Looked.res = "FR_OK" =>
          /\ Looked.val \in 0 .. NRootDir - 1 /\ D[Looked.val].name = name
          /\ Shows(Looked, DirSect(Looked.val)) /\ \A j \in 0 .. NRootDir - 1 : j < Looked.val => ~D[j].end
    <3>1. Looked.res = "FR_OK" => Looked.res # "FR_DISK_ERR" /\ Looked.res # "FR_NO_FILE"
      OBVIOUS
    <3> QED BY <1>13, <1>18, <3>1, Zenon DEF Scanning
  <2>3. ASSUME Looked.res = "FR_NO_FILE", name # NoName, DirOK(D)
        PROVE  \A j \in 0 .. NRootDir - 1 : D[j].name # name
    <3>1. Looked.res # "FR_DISK_ERR" /\ Looked.res # "FR_OK"
      BY <2>3
    <3>2. PICK j \in 0 .. NRootDir - 1 : D[j].end /\ \A i \in 0 .. NRootDir - 1 : i <= j => D[i].name # name
      BY <1>13, <3>1, Zenon DEF Scanning
    <3> TAKE i \in 0 .. NRootDir - 1
    <3>3. i <= j \/ j <= i
      BY FatFsAssumption
    <3>4. j <= i => D[i].name = NoName
      BY <2>3, <3>2, Zenon DEF DirOK
    <3> QED BY <2>3, <3>2, <3>3, <3>4, Zenon
  <2>4. Scanned(m, Looked, D, name, none)
    BY <1>15, <2>1, <2>2, <2>3, Zenon DEF Scanned
  <2> QED BY <1>14, <1>18, <2>4, Zenon DEF D
<1> QED BY <1>17, <1>18

-------------------------------------------------------------------------------
(* One entry set in the window; find_volume *)

\* w is m with entry i of the directory, which the window shows, made e
EntrySet(m, w, i, e) ==
    /\ Sound(w) /\ Keeps(m, w) /\ w.mounted = m.mounted /\ w.val = m.val /\ w.res = m.res
    /\ w.disk = m.disk /\ Shows(w, DirSect(i))
    /\ Fat(Seen(w)) = Fat(Seen(m)) /\ Dir(Seen(w)) = [Dir(Seen(m)) EXCEPT ![i] = e]

\* An entry set in the window is set in the view.
LEMMA SetEntryFacts ==
    ASSUME NEW m, Sound(m), NEW i \in 0 .. NRootDir - 1, NEW e \in DirEntry, Shows(m, DirSect(i))
    PROVE  EntrySet(m, SetEntry(m, i, e), i, e)
<1> DEFINE f == DirSect(i)
           y == [Seen(m)[f] EXCEPT ![i % PerDir] = e]
           z == [m EXCEPT !.win = y, !.wflag = TRUE]
<1>1. Seen(m) \in Medium
  BY SeenFacts, Zenon
<1>2. /\ f \in fatbase .. database - 1 /\ y \in SectorOf(f)
      /\ Fat([Seen(m) EXCEPT ![f] = y]) = Fat(Seen(m))
      /\ Dir([Seen(m) EXCEPT ![f] = y]) = [Dir(Seen(m)) EXCEPT ![i] = e]
  BY <1>1, DirWrite
<1>3. m.win = Seen(m)[f] /\ m \in Machines
  BY Zenon DEF Shows, Sound
<1>4. SetEntry(m, i, e) = z
  BY <1>3 DEF SetEntry, Machines
<1> HIDE DEF y, f
<1>5. Writes(m, z, f, y) /\ z.res = m.res /\ z.val = m.val /\ z.disk = m.disk
  BY <1>2, WindowWrite DEF f
<1> HIDE DEF z
<1>6. Seen(z) = [Seen(m) EXCEPT ![f] = y] /\ Sound(z) /\ Shows(z, f) /\ z.mounted = m.mounted
  BY <1>5, Zenon DEF Writes
<1>7. Keeps(m, z)
  BY <1>5, Zenon DEF Keeps, Writes
<1>8. Fat(Seen(z)) = Fat(Seen(m)) /\ Dir(Seen(z)) = [Dir(Seen(m)) EXCEPT ![i] = e]
  BY <1>2, <1>6, Zenon
<1> QED BY <1>4, <1>5, <1>6, <1>7, <1>8, Zenon DEF EntrySet, f

\* InOrder after an entry is set.
LEMMA InOrderSetEntry ==
    ASSUME NEW m, NEW o, NEW L, NEW T, NEW X, NEW q, InOrder(m, o, L, T, X, q),
           NEW i \in 0 .. NRootDir - 1, NEW e \in DirEntry, Shows(m, DirSect(i)),
           NEW o1, NEW L1, NEW T1, NEW X1, NEW q1, L \subseteq L1,
           Holds(Fat(Seen(m)), [Dir(Seen(m)) EXCEPT ![i] = e], o1, L1, T1, X1, q1)
    PROVE  InOrder(SetEntry(m, i, e), o1, L1, T1, X1, q1) /\ EntrySet(m, SetEntry(m, i, e), i, e)
<1> DEFINE w == SetEntry(m, i, e)
<1>1. EntrySet(m, w, i, e)
  <2>1. Sound(m)
    BY InOrderFacts, Zenon
  <2> QED BY <2>1, SetEntryFacts
<1> HIDE DEF w
<1>2. Holds(Fat(Seen(w)), Dir(Seen(w)), o1, L1, T1, X1, q1) /\ Sound(w) /\ w.mounted /\ w.disk \in {m.disk, Seen(m)}
  BY <1>1, InOrderFacts, Zenon DEF EntrySet
<1>3. InOrder(w, o1, L1, T1, X1, q1)
  BY <1>2, InOrderStep
<1> QED BY <1>1, <1>3 DEF w

\* The search on a volume in order
LEMMA InOrderScan ==
    ASSUME NEW m, NEW o, NEW L, NEW T, NEW X, NEW q, InOrder(m, o, L, T, X, q),
           NEW name, NEW none \in {"FR_NO_FILE", "FR_DENIED"}
    PROVE  LET w == ScanDir(m, name, none) IN
           /\ InOrder(w, o, L, T, X, q) /\ Keeps(m, w) /\ Seen(w) = Seen(m)
           /\ Scanned(m, w, Dir(Seen(m)), name, none)
<1> DEFINE w == ScanDir(m, name, none)
<1>1. Sound(m)
  BY InOrderFacts, Zenon
<1>2. Scanned(m, w, Dir(Seen(m)), name, none)
  BY <1>1, ScanDirFacts
<1> HIDE DEF w
<1>3. Passes(m, w)
  BY <1>2, Zenon DEF Scanned
<1>4. InOrder(w, o, L, T, X, q)
  BY <1>3, InOrderPasses
<1>5. Keeps(m, w) /\ Seen(w) = Seen(m)
  BY <1>1, <1>3, PassesKeeps DEF Passes
<1> QED BY <1>2, <1>4, <1>5, Zenon DEF w

\* dir_register: the entry of a name that has none
Registered(m, w, o, L, T, X, q, n) ==
    /\ InOrder(w, o, L, T, X, q) /\ Keeps(m, w)
    /\ \/ w.res \in {"FR_DISK_ERR", "FR_DENIED", "FR_NO_FILE"} /\ Seen(w) = Seen(m)
       \/ /\ w.res = "FR_OK"
          /\ w.val \in 0 .. NRootDir - 1 /\ Shows(w, DirSect(w.val)) /\ Dir(Seen(m))[w.val].name = NoName
          /\ Fat(Seen(w)) = Fat(Seen(m)) /\ Dir(Seen(w)) = [Dir(Seen(m)) EXCEPT ![w.val] = BlankOf(n)]
          /\ \A j \in 0 .. NRootDir - 1 : j < w.val => ~Dir(Seen(m))[j].end

\* dir_register enters a name that was not there.
LEMMA RegisterFacts ==
    ASSUME NEW m, NEW o, NEW L, NEW T, NEW X, NEW q, InOrder(m, o, L, T, X, q),
           NEW n \in Name, \A j \in 0 .. NRootDir - 1 : Dir(Seen(m))[j].name # n
    PROVE  Registered(m, dir_register(m, n), o, L, T, X, q, n)
<1> DEFINE D == Dir(Seen(m))
           a == dir_alloc(m)
           w == SetEntry(a, a.val, BlankOf(n))
<1>1. InOrder(a, o, L, T, X, q) /\ Keeps(m, a) /\ Seen(a) = Seen(m) /\ Scanned(m, a, D, NoName, "FR_DENIED")
  BY InOrderScan, Zenon DEF dir_alloc
<1>2. dir_register(m, n) = IF a.res = "FR_OK" THEN w ELSE a
  BY Zenon DEF dir_register, IfOk, BlankOf
<1> HIDE DEF a
<1>3. CASE a.res # "FR_OK"
  <2>1. a.res \in {"FR_DISK_ERR", "FR_DENIED", "FR_NO_FILE"}
    BY <1>1, <1>3, Zenon DEF Scanned
  <2> QED BY <1>1, <1>2, <1>3, <2>1, Zenon DEF Registered
<1>4. CASE a.res = "FR_OK"
  <2> DEFINE i == a.val
  <2>1. /\ i \in 0 .. NRootDir - 1 /\ D[i].name = NoName /\ Shows(a, DirSect(i))
        /\ \A j \in 0 .. NRootDir - 1 : j < i => ~D[j].end
    BY <1>1, <1>4, Zenon DEF Scanned
  <2>2. Holds(Fat(Seen(a)), Dir(Seen(a)), o, L, T, X, q)
    BY <1>1, InOrderFacts, Zenon
  <2>3. Dir(Seen(a)) = D
    BY <1>1, Zenon
  <2> HIDE DEF D
  <2>4. Holds(Fat(Seen(a)), [D EXCEPT ![i] = BlankOf(n)], o, L, T, X, q)
    <3>1. Holds(Fat(Seen(a)), D, o, L, T, X, q)
      BY <2>2, <2>3, Zenon
    <3>2. \A j \in 0 .. NRootDir - 1 : D[j].name # n
      BY DEF D
    <3> HIDE DEF i
    <3> QED BY <2>1, <3>1, <3>2, Register
  <2>5. BlankOf(n) \in DirEntry /\ L \subseteq L
    BY BlankFacts
  <2>6. InOrder(w, o, L, T, X, q) /\ EntrySet(a, w, i, BlankOf(n))
    <3>1. Holds(Fat(Seen(a)), [Dir(Seen(a)) EXCEPT ![i] = BlankOf(n)], o, L, T, X, q)
      BY <2>3, <2>4, Zenon
    <3> DEFINE e == BlankOf(n)
    <3> HIDE DEF i, e
    <3>2. InOrder(SetEntry(a, i, e), o, L, T, X, q) /\ EntrySet(a, SetEntry(a, i, e), i, e)
      BY <1>1, <2>1, <2>5, <3>1, InOrderSetEntry DEF e
    <3> QED BY <3>2 DEF e, i
  <2> HIDE DEF w
  <2>7. Keeps(m, w)
    <3>1. Keeps(a, w)
      BY <2>6, Zenon DEF EntrySet
    <3> QED BY <1>1, <3>1, KeepsTrans
  <2>8. w.res = "FR_OK" /\ w.val = i /\ Shows(w, DirSect(i))
        /\ Fat(Seen(w)) = Fat(Seen(m)) /\ Dir(Seen(w)) = [D EXCEPT ![i] = BlankOf(n)]
    BY <1>1, <1>4, <2>3, <2>6, Zenon DEF EntrySet
  <2>9. Registered(m, w, o, L, T, X, q, n)
    BY <2>1, <2>6, <2>7, <2>8, Zenon DEF Registered, D
  <2> QED BY <1>2, <1>4, <2>9, Zenon
<1> QED BY <1>3, <1>4

\* The volume as a call finds and leaves it: mounted and in order, or not mounted
Vol(m, o, L, T) ==
    \/ m.mounted /\ \E q : InOrder(m, o, L, T, {}, q)
    \/ /\ ~m.mounted /\ Sound(m) /\ m.winsect = Unknown /\ ~m.wflag
       /\ Fine(m.disk, L) /\ Twinned(T, L) /\ (L = {} => T = {})
       /\ o \in [Name -> File] /\ \A n \in Name : ~o[n].open

\* find_volume mounts a medium that is in order.
LEMMA FindVolumeFacts ==
    ASSUME NEW m, NEW o, NEW L, NEW T, Vol(m, o, L, T), m.mounted \/ L = {}
    PROVE  LET w == find_volume(m) IN
           /\ w.fp = m.fp /\ w.data = m.data /\ w.disk = m.disk
           /\ \/ w.res = "FR_OK" /\ w.mounted /\ \E q : InOrder(w, o, L, T, {}, q)
              \/ w.res = "FR_DISK_ERR" /\ ~w.mounted /\ Vol(w, o, L, T)
<1>1. CASE m.mounted
  <2>1. PICK q : InOrder(m, o, L, T, {}, q)
    BY <1>1, Zenon DEF Vol
  <2> DEFINE w == Return(m, "FR_OK")
  <2>2. find_volume(m) = w
    BY <1>1, Zenon DEF find_volume
  <2>3. InOrder(w, o, L, T, {}, q) /\ Keeps(m, w) /\ w.res = "FR_OK"
    BY <2>1, OkResult, InOrderReturn
  <2>4. w.disk = m.disk
    <3>1. Sound(m)
      BY <2>1, InOrderFacts, Zenon
    <3> QED BY <3>1, OkResult, ReturnFacts
  <2> HIDE DEF w
  <2>5. w.mounted /\ w.fp = m.fp /\ w.data = m.data
    BY <2>3, InOrderFacts, Zenon DEF Keeps
  <2> QED BY <2>2, <2>3, <2>4, <2>5, Zenon
<1>2. CASE ~m.mounted
  <2>1. /\ Sound(m) /\ m.winsect = Unknown /\ ~m.wflag /\ m \in Machines
        /\ Fine(m.disk, {}) /\ L = {} /\ T = {}
        /\ o \in [Name -> File] /\ \A n \in Name : ~o[n].open
    BY <1>2, Zenon DEF Vol, Sound
  <2>2. [m EXCEPT !.wflag = FALSE, !.winsect = Unknown] = m
    <3>1. m.wflag = FALSE
      BY <2>1 DEF Machines
    <3> QED BY <2>1, <3>1 DEF Machines
  <2> DEFINE a == Access(m)
             b == [a EXCEPT !.win = a.disk[0], !.winsect = 0, !.mounted = TRUE,
                            !.last_clust = Unknown, !.free_clust = Unknown]
  <2>3. find_volume(m) = IF a.res = "FR_OK" THEN b ELSE a
    BY <1>2, <2>2, Zenon DEF find_volume, disk_read, IfOk
  <2>4. /\ Passes(m, a) /\ Answers(m, a)
        /\ a.disk = m.disk /\ a.win = m.win /\ a.winsect = m.winsect /\ a.wflag = m.wflag
    BY <2>1, AccessPasses
  <2> HIDE DEF a
  <2>5. a \in Machines /\ a.fp = m.fp /\ a.data = m.data /\ a.mounted = m.mounted /\ Sound(a)
    BY <2>4, Zenon DEF Passes, Sound
  <2>6. CASE a.res # "FR_OK"
    <3>1. a.res = "FR_DISK_ERR"
      BY <2>4, <2>6, Zenon DEF Answers
    <3>2. Vol(a, o, L, T) /\ ~a.mounted
      BY <1>2, <2>1, <2>4, <2>5, Zenon DEF Vol, Twinned
    <3> QED BY <2>3, <2>4, <2>5, <2>6, <3>1, <3>2, Zenon
  <2>7. CASE a.res = "FR_OK"
    <3>1. 0 \in Sector /\ SectorOf(0) = DataSector /\ 0 \in 0 .. database - 1 /\ Unknown \in Int
      BY LayoutFacts, SectorFacts DEF SectorOf
    <3>2. a.disk \in Medium /\ a.disk[0] \in DataSector /\ DataSector \subseteq AnySector
      <4>1. a.disk \in Medium
        BY <2>5 DEF Machines
      <4> QED BY <3>1, <4>1 DEF Medium, AnySector
    <3>3. /\ b \in Machines /\ b.disk = m.disk /\ b.win = a.disk[0] /\ b.winsect = 0 /\ b.mounted /\ b.wflag = m.wflag
          /\ b.fp = m.fp /\ b.data = m.data /\ b.res = "FR_OK"
      <4>1. a.disk[0] \in AnySector \union {<<>>} /\ TRUE \in BOOLEAN /\ 0 \in Int
        BY <3>2
      <4> DEFINE x == a.disk[0]
      <4> HIDE DEF x
      <4> QED BY <2>4, <2>5, <2>7, <3>1, <4>1 DEF Machines, x
    <3> HIDE DEF b
    <3>4. Windowed(b)
      BY <2>1, <2>4, <3>1, <3>2, <3>3, Zenon DEF Windowed
    <3>5. Sound(b)
      BY <3>3, <3>4, Zenon DEF Sound
    <3>6. Seen(b) = b.disk
      BY <2>1, <3>3, <3>5, SeenFacts
    <3>7. \E q : Holds(Fat(m.disk), Dir(m.disk), o, {}, {}, {}, q)
      <4>1. m.disk \in Medium
        BY <2>1 DEF Machines
      <4> QED BY <2>1, <4>1, MountHolds
    <3>8. \E q : InOrder(b, o, L, T, {}, q)
      BY <2>1, <3>3, <3>5, <3>6, <3>7, Zenon DEF InOrder
    <3> QED BY <2>3, <2>7, <3>3, <3>8, Zenon
  <2> QED BY <2>6, <2>7
<1> QED BY <1>1, <1>2

-------------------------------------------------------------------------------
(* Arithmetic of bytes, sectors and clusters *)

\* Division
LEMMA DivUnique ==
    ASSUME NEW b \in Nat \ {0}, NEW s \in Nat, NEW r \in 0 .. b - 1
    PROVE  (b * s + r) \div b = s /\ (b * s + r) % b = r
BY SMTT(30)

\* Quotient and remainder.
LEMMA DivParts ==
    ASSUME NEW b \in Nat \ {0}, NEW a \in Nat
    PROVE  a \div b \in Nat /\ a % b \in 0 .. b - 1 /\ a = b * (a \div b) + (a % b)
BY SMTT(30)

\* Multiplication is monotone.
LEMMA MulMono ==
    ASSUME NEW b \in Nat \ {0}, NEW x \in Nat, NEW y \in Nat
    PROVE  /\ b * x \in Nat /\ b * y \in Nat /\ (x <= y => b * x <= b * y) /\ (x < y => b * x + b <= b * y)
           /\ (b * x < b * y => x < y) /\ (b * x = b * y => x = y) /\ b * (x + 1) = b * x + b
<1>1. b * x \in Nat /\ b * y \in Nat /\ b * (x + 1) = b * x + b
  BY SMTT(30)
<1>2. ASSUME NEW u \in Nat, NEW v \in Nat, u < v PROVE b * u + b <= b * v
  <2>1. PICK d \in Nat : v = u + 1 + d
    <3>1. v - u - 1 \in Nat /\ v = u + 1 + (v - u - 1)
      BY <1>2
    <3> QED BY <3>1
  <2>2. b * v = b * u + b + b * d /\ b * d \in Nat /\ b * u \in Nat
    BY <2>1, SMTT(30)
  <2> QED BY <2>2
<1> DEFINE p == b * x
           q == b * y
<1>3. x < y => p + b <= q
  BY <1>2
<1>4. y < x => q + b <= p
  BY <1>2
<1>5. p \in Nat /\ q \in Nat /\ (x = y => p = q)
  BY <1>1
<1> HIDE DEF p, q
<1>6. /\ (x <= y => p <= q) /\ (x < y => p + b <= q) /\ (p < q => x < y) /\ (p = q => x = y)
  BY <1>3, <1>4, <1>5
<1> QED BY <1>1, <1>6 DEF p, q

\* The sectors of a cluster lie in the data area
LEMMA ClusterSector ==
    ASSUME NEW c \in Cluster, NEW k \in 0 .. CSize - 1
    PROVE  /\ clust2sect(c) + k \in Sector /\ clust2sect(c) + k >= database
           /\ clust2sect(c) \in Nat /\ clust2sect(c) >= database
<1> USE FatFsAssumption
<1>1. c - 2 \in Nat /\ c - 2 + 1 <= NClust /\ database \in Nat
  BY LayoutFacts DEF Cluster
<1> DEFINE x == CSize * (c - 2)
           y == CSize * NClust
<1>2. x \in Nat /\ y \in Nat /\ x + CSize <= y
  <2>1. NClust \in Nat /\ c - 2 < NClust
    BY <1>1
  <2> QED BY <1>1, <2>1, MulMono
<1>3. clust2sect(c) = x + database
  <2>1. (c - 2) * CSize = x
    BY <1>1, SMTT(30)
  <2> QED BY <2>1 DEF clust2sect
<1>4. Sector = 0 .. (database + y - 1)
  <2>1. NClust * CSize = y
    BY SMTT(30)
  <2> QED BY <2>1 DEF Sector
<1> HIDE DEF x, y
<1>5. clust2sect(c) + k \in 0 .. (database + y - 1) /\ clust2sect(c) + k >= database
      /\ clust2sect(c) \in Nat /\ clust2sect(c) >= database
  BY <1>1, <1>2, <1>3
<1> QED BY <1>4, <1>5

\* Positions: i is the place in its chain of the cluster that the position p belongs to
LEMMA ByteFacts ==
    ASSUME NEW i \in Nat
    PROVE  i * Bytes \in Nat /\ i * Bytes = SS * (CSize * i) /\ (i + 1) * Bytes = i * Bytes + Bytes
           /\ CSize * SS = Bytes /\ SS * CSize = Bytes /\ SS <= Bytes /\ CSize * i \in Nat
<1> USE FatFsAssumption
<1>1. i * Bytes \in Nat /\ i * Bytes = SS * (CSize * i) /\ (i + 1) * Bytes = i * Bytes + Bytes /\ CSize * i \in Nat
  BY SMTT(30) DEF Bytes
<1>2. CSize * SS = Bytes /\ SS * CSize = Bytes
  BY SMTT(30) DEF Bytes
<1>3. SS * 1 <= SS * CSize
  <2>1. 1 \in Nat /\ CSize \in Nat /\ 1 <= CSize
    OBVIOUS
  <2> QED BY <2>1, MulMono
<1> QED BY <1>1, <1>2, <1>3

\* Inside a sector the rest of it belongs to the cluster
LEMMA MidSector ==
    ASSUME NEW p \in Nat, NEW i \in Nat, p % SS # 0, i * Bytes < p, p <= (i + 1) * Bytes,
           NEW k \in Nat, k <= SS - (p % SS)
    PROVE  i * Bytes < p + k /\ p + k <= (i + 1) * Bytes
<1> USE FatFsAssumption
<1> DEFINE s == p \div SS
           r == p % SS
           t == CSize * (i + 1)
           x == SS * s
           y == SS * t
<1>1. s \in Nat /\ r \in 0 .. SS - 1 /\ p = x + r
  BY DivParts
<1>2. t \in Nat /\ (i + 1) * Bytes = y
  <2>1. i + 1 \in Nat
    OBVIOUS
  <2> QED BY <2>1, ByteFacts
<1> DEFINE b == i * Bytes
           e == (i + 1) * Bytes
<1>3. b \in Nat
  BY ByteFacts
<1> HIDE DEF s, r, t
<1>4. x < y => x + SS <= y
  BY <1>1, <1>2, MulMono
<1>5. x \in Nat /\ y \in Nat
  BY <1>1, <1>2, MulMono
<1>6. b < p /\ p <= e /\ e = y /\ r # 0
  BY <1>2 DEF r
<1> HIDE DEF x, y, b, e
<1>7. x < y
  BY <1>1, <1>5, <1>6
<1>8. k <= SS - r
  BY DEF r
<1>9. b < p + k /\ p + k <= e
  BY <1>1, <1>3, <1>4, <1>5, <1>6, <1>7, <1>8
<1> QED BY <1>9 DEF b, e

\* At the start of a sector the number of the sector in its cluster tells how much of it is left
LEMMA AtSectorStart ==
    ASSUME NEW p \in Nat, NEW i \in Nat, p % SS = 0, i * Bytes <= p, p < (i + 1) * Bytes
    PROVE  /\ (p \div SS) % CSize \in 0 .. CSize - 1
           /\ p = i * Bytes + SS * ((p \div SS) % CSize)
           /\ p + SS * (CSize - ((p \div SS) % CSize)) = (i + 1) * Bytes
<1> USE FatFsAssumption
<1> DEFINE s == p \div SS
           a == CSize * i
           b == CSize * (i + 1)
           r == s - a
<1>1. s \in Nat /\ p = SS * s
  <2> DEFINE x == SS * s
  <2>1. s \in Nat /\ p = x + (p % SS)
    BY DivParts
  <2>2. x \in Nat
    BY <2>1, MulMono
  <2> HIDE DEF x, s
  <2>3. p = x
    BY <2>1, <2>2
  <2> QED BY <2>1, <2>3 DEF x
<1>2. a \in Nat /\ b \in Nat /\ i * Bytes = SS * a /\ (i + 1) * Bytes = SS * b /\ b = a + CSize
  <2>1. i + 1 \in Nat
    OBVIOUS
  <2>2. a \in Nat /\ b \in Nat /\ i * Bytes = SS * a /\ (i + 1) * Bytes = SS * b
    BY <2>1, ByteFacts
  <2>3. b = a + CSize
    BY MulMono
  <2> QED BY <2>2, <2>3
<1> HIDE DEF s, a, b
<1>3. s < b /\ a <= s
  <2>1. SS * s < SS * b /\ SS * a <= SS * s
    BY <1>1, <1>2
  <2>2. SS * s < SS * b => s < b
    BY <1>1, <1>2, MulMono
  <2>3. SS * a < SS * s \/ SS * a = SS * s
    <3> DEFINE u == SS * a
               v == SS * s
    <3>1. u \in Nat /\ v \in Nat /\ u <= v
      BY <1>1, <1>2, <2>1, MulMono
    <3> HIDE DEF u, v
    <3>2. u < v \/ u = v
      BY <3>1
    <3> QED BY <3>2 DEF u, v
  <2>4. (SS * a < SS * s => a < s) /\ (SS * a = SS * s => a = s)
    BY <1>1, <1>2, MulMono
  <2> QED BY <1>1, <1>2, <2>1, <2>2, <2>3, <2>4
<1>4. r \in 0 .. CSize - 1 /\ s = a + r
  BY <1>1, <1>2, <1>3
<1> HIDE DEF r
<1>5. s % CSize = r
  <2>1. s = CSize * i + r
    BY <1>4 DEF a
  <2> QED BY <1>4, <2>1, DivUnique
<1>6. SS * s = SS * a + SS * r /\ SS * s + SS * (CSize - r) = SS * b
  <2>1. SS * (a + r) = SS * a + SS * r
    BY <1>2, <1>4, SMTT(30)
  <2>2. CSize - r \in Nat /\ (a + r) + (CSize - r) = b
    BY <1>2, <1>4
  <2>3. SS * (a + r) + SS * (CSize - r) = SS * ((a + r) + (CSize - r))
    BY <1>2, <1>4, <2>2, SMTT(30)
  <2> QED BY <1>4, <2>1, <2>2, <2>3
<1>7. p = i * Bytes + SS * r /\ p + SS * (CSize - r) = (i + 1) * Bytes
  BY <1>1, <1>2, <1>6
<1> QED BY <1>4, <1>5, <1>7 DEF s

\* At the boundary of two clusters the position is the end of the one that it was read in
LEMMA AtClusterStart ==
    ASSUME NEW p \in Nat, NEW i \in Nat, p % SS = 0, (p \div SS) % CSize = 0, i * Bytes < p, p <= (i + 1) * Bytes
    PROVE  p = (i + 1) * Bytes
<1> SUFFICES ASSUME p < (i + 1) * Bytes PROVE FALSE
  <2> DEFINE e == (i + 1) * Bytes
  <2>1. e \in Nat
    <3>1. i + 1 \in Nat
      OBVIOUS
    <3> QED BY <3>1, ByteFacts
  <2> HIDE DEF e
  <2>2. p = e \/ p < e
    <3>1. p <= e
      BY DEF e
    <3> QED BY <2>1, <3>1
  <2> QED BY <2>2 DEF e
<1> DEFINE b == i * Bytes
<1>1. b \in Nat
  BY ByteFacts
<1>2. b <= p
  <2>1. b < p
    OBVIOUS
  <2> HIDE DEF b
  <2> QED BY <1>1, <2>1
<1>3. p = b + SS * 0
  BY <1>2, AtSectorStart
<1>4. SS * 0 = 0
  BY FatFsAssumption, SMTT(30)
<1> HIDE DEF b
<1>5. p = b
  BY <1>1, <1>3, <1>4
<1>6. b < p
  BY DEF b
<1> QED BY <1>1, <1>5, <1>6

\* Between two boundaries it is not
LEMMA InCluster ==
    ASSUME NEW p \in Nat, NEW i \in Nat, p % SS = 0, (p \div SS) % CSize # 0, i * Bytes < p, p <= (i + 1) * Bytes
    PROVE  p < (i + 1) * Bytes /\ i * Bytes <= p
<1> DEFINE e == (i + 1) * Bytes
           b == i * Bytes
<1>1. b \in Nat /\ e \in Nat /\ e + Bytes = (i + 2) * Bytes /\ Bytes \in Nat \ {0} /\ e = b + Bytes
  <2>1. i + 1 \in Nat /\ (i + 1) + 1 = i + 2
    OBVIOUS
  <2> QED BY <2>1, ByteFacts, BytesNat
<1>2. p # e
  <2> SUFFICES ASSUME p = e PROVE FALSE
    OBVIOUS
  <2>1. (i + 1) * Bytes <= p /\ p < ((i + 1) + 1) * Bytes
    <3>1. (i + 1) + 1 = i + 2
      OBVIOUS
    <3> DEFINE f == (i + 2) * Bytes
    <3>2. e + Bytes = f
      BY <1>1
    <3> HIDE DEF b, e, f
    <3>3. e <= p /\ p < f
      BY <1>1, <3>2
    <3> QED BY <3>1, <3>3 DEF e, f
  <2> DEFINE o == (p \div SS) % CSize
  <2>2. p = e + SS * o /\ o \in 0 .. CSize - 1
    <3>1. i + 1 \in Nat
      OBVIOUS
    <3> HIDE DEF b
    <3> QED BY <2>1, <3>1, AtSectorStart
  <2>3. o \in Nat /\ o # 0
    BY <2>2, FatFsAssumption
  <2> HIDE DEF o, e
  <2>4. SS * 0 + SS <= SS * o /\ SS * o \in Nat /\ SS * 0 \in Nat
    <3>1. 0 \in Nat /\ 0 < o
      BY <2>3
    <3> QED BY <2>3, <3>1, MulMono, FatFsAssumption
  <2> DEFINE x == SS * o
             z == SS * 0
  <2>5. p = e + x /\ z + SS <= x /\ x \in Nat /\ z \in Nat
    BY <2>2, <2>4
  <2> HIDE DEF x, z
  <2> QED BY <1>1, <2>5, FatFsAssumption
<1> HIDE DEF e, b
<1>3. b < p /\ p <= e
  BY DEF b, e
<1>4. p < e /\ b <= p
  BY <1>1, <1>2, <1>3
<1> QED BY <1>4 DEF e, b

\* The place in its chain of the cluster that ends at a position or holds it
LEMMA PlaceOf ==
    ASSUME NEW p \in Nat, NEW i \in Nat, i * Bytes < p, p <= (i + 1) * Bytes
    PROVE  (p - 1) \div Bytes = i
<1> DEFINE b == i * Bytes
           r == p - 1 - b
<1>1. b \in Nat /\ (i + 1) * Bytes = b + Bytes /\ Bytes \in Nat \ {0} /\ Bytes * i = b
  <2>1. Bytes \in Nat \ {0}
    BY BytesNat
  <2>2. Bytes * i = i * Bytes
    BY <2>1, SMTT(30)
  <2> QED BY <2>1, <2>2, ByteFacts
<1>2. b < p /\ p <= b + Bytes
  BY <1>1
<1> HIDE DEF b
<1>3. r \in 0 .. Bytes - 1 /\ p - 1 = b + r
  BY <1>1, <1>2
<1> HIDE DEF r
<1>4. (Bytes * i + r) \div Bytes = i
  BY <1>1, <1>3, DivUnique
<1> QED BY <1>1, <1>3, <1>4

-------------------------------------------------------------------------------
(* A file in hand: the FIL of the running call stands apart from the other files *)

\* A file object as the FAT operations of its own call see it: its position says nothing yet
Parked(p) == [p EXCEPT !.err = "FR_DISK_ERR"]

\* The volume is in order while a call works on the open file n, whose object m.fp is
Hand(m, n, o, L, T, q) ==
    /\ InOrder(m, [o EXCEPT ![n] = Parked(m.fp)], L, T, {}, q)
    /\ n \in Name /\ o \in [Name -> File] /\ m.fp \in OpenFile
    /\ \A k \in Name : {n, k} \notin T

\* The file in hand, as the other names see it while the call runs.
LEMMA ParkedFacts ==
    ASSUME NEW p \in OpenFile
    PROVE  /\ Parked(p) \in OpenFile /\ Parked(p).open /\ p.open /\ p \in File /\ Parked(p) \in File
           /\ Parked(p).sclust = p.sclust /\ Parked(p).fsize = p.fsize /\ Parked(p).slot = p.slot
           /\ Parked(p).written = p.written /\ Parked(p).dirty = p.dirty /\ Parked(p).dsect = p.dsect
           /\ Parked(p).fptr = p.fptr /\ Parked(p).clust = p.clust /\ Parked(p).err # "FR_OK"
           /\ \A q, n : PosOK(q, n, Parked(p))
<1>1. /\ Parked(p) \in OpenFile /\ Parked(p).open /\ p.open
      /\ Parked(p).sclust = p.sclust /\ Parked(p).fsize = p.fsize /\ Parked(p).slot = p.slot
      /\ Parked(p).written = p.written /\ Parked(p).dirty = p.dirty /\ Parked(p).dsect = p.dsect
      /\ Parked(p).fptr = p.fptr /\ Parked(p).clust = p.clust /\ Parked(p).err = "FR_DISK_ERR"
  BY OkResult DEF OpenFile, Parked
<1>2. Parked(p).err # "FR_OK"
  BY <1>1
<1>3. \A q, n : PosOK(q, n, Parked(p))
  BY <1>2, Zenon DEF PosOK
<1>4. p \in File /\ Parked(p) \in File
  BY <1>1 DEF File
<1> QED BY <1>1, <1>2, <1>3, <1>4

\* The parts of Hand, with the directory and the open files named.
HandParts(m, n, o, L, T, q, o1, D) ==
    /\ InOrder(m, o1, L, T, {}, q) /\ o1 \in [Name -> File] /\ o1[n] = Parked(m.fp) /\ o1[n].open
    /\ m \in Machines /\ Sound(m) /\ m.mounted /\ q \in Certificate /\ q.al[n] \in Name
    /\ Holds(Fat(Seen(m)), D, o1, L, T, {}, q)
    /\ Root(D, o1)[n] = m.fp.sclust /\ Size(D, o1)[n] = m.fp.fsize
    /\ RootedAt(q, n, m.fp.sclust, m.fp.fsize) /\ FiledAt(D, n, Parked(m.fp), L)
    /\ m.fp.dirty => m.fp.dsect >= database

\* They follow from it.
LEMMA HandFacts ==
    ASSUME NEW m, NEW n, NEW o, NEW L, NEW T, NEW q, Hand(m, n, o, L, T, q)
    PROVE  HandParts(m, n, o, L, T, q, [o EXCEPT ![n] = Parked(m.fp)], Dir(Seen(m)))
<1> DEFINE p == Parked(m.fp)
           o1 == [o EXCEPT ![n] = p]
           D == Dir(Seen(m))
<1>1. InOrder(m, o1, L, T, {}, q) /\ n \in Name /\ o \in [Name -> File] /\ m.fp \in OpenFile
  BY Zenon DEF Hand
<1>2. p \in File /\ p.open /\ p.sclust = m.fp.sclust /\ p.fsize = m.fp.fsize /\ p.dirty = m.fp.dirty /\ p.dsect = m.fp.dsect
  BY <1>1, ParkedFacts
<1> HIDE DEF p
<1>3. o1 \in [Name -> File] /\ o1[n] = p
  BY <1>1, <1>2
<1> HIDE DEF o1, D
<1>4. m \in Machines /\ Sound(m) /\ m.mounted /\ Holds(Fat(Seen(m)), D, o1, L, T, {}, q)
      /\ q \in Certificate /\ D \in Folder
  BY <1>1, InOrderFacts, Zenon DEF D
<1>5. q.al[n] \in Name
  BY <1>1, <1>4 DEF Certificate
<1>6. Root(D, o1)[n] = p.sclust /\ Size(D, o1)[n] = p.fsize
  BY <1>1, <1>2, <1>3, <1>4, RootType
<1>7. RootedAt(q, n, Root(D, o1)[n], Size(D, o1)[n]) /\ FiledAt(D, n, p, L)
  BY <1>1, <1>3, <1>4, HoldsParts DEF Filed
<1>8. p.dirty => p.dsect >= database
  BY <1>2, <1>7, Zenon DEF FiledAt, BufOK
<1>9. RootedAt(q, n, m.fp.sclust, m.fp.fsize)
  BY <1>2, <1>6, <1>7, Zenon
<1> QED BY <1>1, <1>2, <1>3, <1>4, <1>5, <1>6, <1>7, <1>8, <1>9, Zenon DEF D, o1, p, HandParts

\* The last replacement counts.
LEMMA ParkTwice ==
    ASSUME NEW o, NEW n, NEW x, NEW y, o \in [Name -> File], n \in Name
    PROVE  [[o EXCEPT ![n] = x] EXCEPT ![n] = y] = [o EXCEPT ![n] = y]
OBVIOUS

\* A call takes the FIL in hand.
LEMMA HandStart ==
    ASSUME NEW m, NEW n \in Name, NEW o, NEW L, NEW T, NEW q, InOrder(m, o, L, T, {}, q),
           o[n] = m.fp, m.fp.open, \A k \in Name : {n, k} \notin T
    PROVE  Hand(m, n, o, L, T, q)
<1> DEFINE D == Dir(Seen(m))
           p == Parked(m.fp)
<1>1. Holds(Fat(Seen(m)), D, o, L, T, {}, q) /\ o \in [Name -> File]
  BY InOrderFacts, Zenon
<1>2. m.fp \in OpenFile /\ Root(D, o)[n] = m.fp.sclust /\ Size(D, o)[n] = m.fp.fsize
  BY <1>1, SlotOpen
<1>3. RootedAt(q, n, Root(D, o)[n], Size(D, o)[n]) /\ FiledAt(D, n, m.fp, L)
  BY <1>1, HoldsParts DEF Filed
<1>4. /\ p \in File /\ p.open /\ p.sclust = m.fp.sclust /\ p.fsize = m.fp.fsize /\ p.slot = m.fp.slot
      /\ p.written = m.fp.written /\ p.dirty = m.fp.dirty /\ p.dsect = m.fp.dsect /\ p.err # "FR_OK" /\ PosOK(q, n, p)
  BY <1>2, ParkedFacts
<1> HIDE DEF p
<1>5. FiledAt(D, n, p, L)
  <2>1. BufOK(p)
    BY <1>3, <1>4, Zenon DEF FiledAt, BufOK
  <2> QED BY <1>3, <1>4, <2>1, Zenon DEF FiledAt, Fits
<1>6. (IF p.open THEN p.sclust ELSE Entry(D, n).clust) = Root(D, o)[n] /\ RootedAt(q, n, Root(D, o)[n], p.fsize)
      /\ (IF p.open THEN p.fsize ELSE Entry(D, n).size) = p.fsize
  BY <1>2, <1>3, <1>4, Zenon
<1>7. Holds(Fat(Seen(m)), D, [o EXCEPT ![n] = p], L, T, {}, q)
  <2> DEFINE z == p.fsize
  <2>1. L \subseteq L
    OBVIOUS
  <2> HIDE DEF D
  <2> QED BY <1>1, <1>4, <1>5, <1>6, <2>1, FileChange
<1>8. InOrder(m, [o EXCEPT ![n] = p], L, T, {}, q)
  <2>1. Sound(m) /\ m.mounted /\ m.disk \in {m.disk, Seen(m)} /\ L \subseteq L
    BY InOrderFacts, Zenon
  <2> QED BY <1>7, <2>1, InOrderStep
<1> QED BY <1>1, <1>2, <1>8, Zenon DEF Hand, p

\* The call ends: the position of the file is right, or the file has been given up
LEMMA HandEnd ==
    ASSUME NEW m, NEW n, NEW o, NEW L, NEW T, NEW q, Hand(m, n, o, L, T, q),
           PosOK(q, n, m.fp), BufOK(m.fp)
    PROVE  InOrder(m, [o EXCEPT ![n] = m.fp], L, T, {}, q)
<1> DEFINE D == Dir(Seen(m))
           o1 == [o EXCEPT ![n] = Parked(m.fp)]
           p == m.fp
           z == p.fsize
<1>0. HandParts(m, n, o, L, T, q, o1, D)
  BY HandFacts
<1>1. /\ InOrder(m, o1, L, T, {}, q) /\ o1 \in [Name -> File] /\ Sound(m) /\ m.mounted
      /\ Holds(Fat(Seen(m)), D, o1, L, T, {}, q)
      /\ Root(D, o1)[n] = p.sclust /\ RootedAt(q, n, p.sclust, p.fsize) /\ FiledAt(D, n, Parked(p), L)
  BY <1>0, Zenon DEF HandParts
<1>2. n \in Name /\ o \in [Name -> File] /\ p \in OpenFile
  BY DEF Hand
<1>3. /\ p.open /\ p \in File
      /\ Parked(p).open /\ Parked(p).sclust = p.sclust /\ Parked(p).fsize = p.fsize /\ Parked(p).slot = p.slot
      /\ Parked(p).written = p.written
  BY <1>2, ParkedFacts
<1>4. FiledAt(D, n, p, L)
  BY <1>1, <1>3, Zenon DEF FiledAt, Fits
<1>5. (IF p.open THEN p.sclust ELSE Entry(D, n).clust) = Root(D, o1)[n] /\ RootedAt(q, n, Root(D, o1)[n], z)
      /\ z = (IF p.open THEN p.fsize ELSE Entry(D, n).size)
  BY <1>1, <1>3, Zenon
<1>6. [o1 EXCEPT ![n] = p] = [o EXCEPT ![n] = p]
  BY <1>2, ParkTwice
<1> HIDE DEF D, o1, p, z
<1>7. Holds(Fat(Seen(m)), D, [o1 EXCEPT ![n] = p], L, T, {}, q)
  <2>1. L \subseteq L
    OBVIOUS
  <2>2. PosOK(q, n, p)
    BY DEF p
  <2> QED BY <1>1, <1>2, <1>3, <1>4, <1>5, <2>1, <2>2, FileChange
<1>8. InOrder(m, [o EXCEPT ![n] = p], L, T, {}, q)
  <2>1. m.disk \in {m.disk, Seen(m)} /\ L \subseteq L
    OBVIOUS
  <2>2. Holds(Fat(Seen(m)), Dir(Seen(m)), [o EXCEPT ![n] = p], L, T, {}, q)
    BY <1>6, <1>7, Zenon DEF D
  <2> QED BY <1>1, <2>1, <2>2, InOrderStep
<1> QED BY <1>8 DEF p

\* A step that leaves the window and the sectors before the data area alone
Local(m, w) ==
    /\ w \in Machines
    /\ w.win = m.win /\ w.winsect = m.winsect /\ w.wflag = m.wflag /\ w.mounted = m.mounted
    /\ \A x \in 0 .. database - 1 : w.disk[x] = m.disk[x]

\* Steps that leave FAT and directory alone.
LEMMA LocalTrans ==
    ASSUME NEW m, NEW w, NEW u, Local(m, w), Local(w, u)
    PROVE  Local(m, u)
BY Zenon DEF Local

LEMMA LocalFacts ==
    ASSUME NEW m, Sound(m), NEW w, Local(m, w)
    PROVE  /\ Sound(w) /\ Fat(Seen(w)) = Fat(Seen(m)) /\ Dir(Seen(w)) = Dir(Seen(m))
           /\ Fat(w.disk) = Fat(m.disk) /\ Dir(w.disk) = Dir(m.disk)
<1> USE LayoutFacts, SectorFacts
<1>1. /\ w.win = m.win /\ w.winsect = m.winsect /\ w.wflag = m.wflag /\ w \in Machines /\ m \in Machines
      /\ \A x \in 0 .. database - 1 : w.disk[x] = m.disk[x]
  BY Zenon DEF Local, Sound
<1>2. Windowed(w)
  <2>1. Windowed(m)
    BY DEF Sound
  <2>2. w.winsect # Unknown => w.winsect \in 0 .. database - 1
    BY <1>1, <2>1, Zenon DEF Windowed
  <2>3. ~w.wflag /\ w.winsect # Unknown => w.win = w.disk[w.winsect]
    BY <1>1, <2>1, <2>2, Zenon DEF Windowed
  <2> QED BY <1>1, <2>1, <2>3, Zenon DEF Windowed
<1>3. \A x \in 0 .. database - 1 : Seen(w)[x] = Seen(m)[x]
  BY <1>1, Zenon DEF Seen
<1>4. ASSUME NEW s, NEW t, \A x \in 0 .. database - 1 : s[x] = t[x]
      PROVE  Fat(s) = Fat(t) /\ Dir(s) = Dir(t)
  <2>1. \A c \in Cluster : FatSect(c) \in 0 .. database - 1
    BY DEF Cluster
  <2>2. \A i \in 0 .. NRootDir - 1 : DirSect(i) \in 0 .. database - 1
    OBVIOUS
  <2> QED BY <1>4, <2>1, <2>2, Zenon DEF Fat, Dir, Slot
<1>5. Fat(Seen(w)) = Fat(Seen(m)) /\ Dir(Seen(w)) = Dir(Seen(m))
  BY <1>3, <1>4, Zenon
<1>6. Fat(w.disk) = Fat(m.disk) /\ Dir(w.disk) = Dir(m.disk)
  BY <1>1, <1>4, Zenon
<1> QED BY <1>1, <1>2, <1>5, <1>6, Zenon DEF Sound

\* They keep InOrder.
LEMMA InOrderLocal ==
    ASSUME NEW m, NEW w, NEW o, NEW L, NEW T, NEW X, NEW q, InOrder(m, o, L, T, X, q), Local(m, w)
    PROVE  InOrder(w, o, L, T, X, q)
<1>1. Sound(m) /\ m.mounted /\ Fine(m.disk, L) /\ Holds(Fat(Seen(m)), Dir(Seen(m)), o, L, T, X, q)
  BY InOrderFacts, Zenon
<1>2. /\ Sound(w) /\ Fat(Seen(w)) = Fat(Seen(m)) /\ Dir(Seen(w)) = Dir(Seen(m))
      /\ Fat(w.disk) = Fat(m.disk) /\ Dir(w.disk) = Dir(m.disk)
  BY <1>1, LocalFacts
<1>3. Fine(w.disk, L)
  BY <1>1, <1>2, Zenon DEF Fine
<1>4. w.mounted
  BY <1>1, Zenon DEF Local
<1>5. Holds(Fat(Seen(w)), Dir(Seen(w)), o, L, T, X, q)
  BY <1>1, <1>2, Zenon
<1> QED BY <1>2, <1>3, <1>4, <1>5, Zenon DEF InOrder

\* A step of the call on the file object that leaves the volume alone
LEMMA HandStep ==
    ASSUME NEW m, NEW n, NEW o, NEW L, NEW T, NEW q, Hand(m, n, o, L, T, q), NEW w, Local(m, w),
           w.fp \in OpenFile, w.fp.slot = m.fp.slot, w.fp.sclust = m.fp.sclust,
           RootedAt(q, n, w.fp.sclust, w.fp.fsize), NEW L1, L \subseteq L1,
           \/ n \in L1 /\ w.fp.written
           \/ w.fp.fsize >= m.fp.fsize /\ (w.fp.written \/ ~m.fp.written),
           w.fp.dirty => w.fp.dsect >= database
    PROVE  Hand(w, n, o, L1, T, q)
<1> DEFINE D == Dir(Seen(m))
           o1 == [o EXCEPT ![n] = Parked(m.fp)]
           p == Parked(w.fp)
           z == p.fsize
<1>0. HandParts(m, n, o, L, T, q, o1, D)
  BY HandFacts
<1>1. /\ InOrder(m, o1, L, T, {}, q) /\ o1 \in [Name -> File] /\ Sound(m) /\ m.mounted /\ m \in Machines
      /\ Holds(Fat(Seen(m)), D, o1, L, T, {}, q)
      /\ Root(D, o1)[n] = m.fp.sclust /\ FiledAt(D, n, Parked(m.fp), L)
  BY <1>0, Zenon DEF HandParts
<1>2. n \in Name /\ o \in [Name -> File] /\ m.fp \in OpenFile /\ \A k \in Name : {n, k} \notin T
  BY Zenon DEF Hand
<1>3. /\ p \in File /\ p.open /\ p.sclust = w.fp.sclust /\ p.fsize = w.fp.fsize /\ p.slot = w.fp.slot
      /\ p.written = w.fp.written /\ p.dirty = w.fp.dirty /\ p.dsect = w.fp.dsect /\ p.err # "FR_OK" /\ PosOK(q, n, p)
  BY ParkedFacts
<1>4. /\ Parked(m.fp).open /\ Parked(m.fp).sclust = m.fp.sclust /\ Parked(m.fp).fsize = m.fp.fsize
      /\ Parked(m.fp).slot = m.fp.slot /\ Parked(m.fp).written = m.fp.written
  BY <1>2, ParkedFacts
<1>5. FiledAt(D, n, p, L1)
  <2>1. BufOK(p)
    BY <1>3, Zenon DEF BufOK
  <2>2. ASSUME n \notin L1 \/ ~p.written PROVE Fits(D[p.slot], p)
    <3> HIDE DEF p
    <3>1. n \notin L \/ ~Parked(m.fp).written
      BY <2>2, <1>3, <1>4, Zenon
    <3>2. Fits(D[p.slot], Parked(m.fp))
      BY <1>1, <1>3, <1>4, <3>1, Zenon DEF FiledAt
    <3>3. w.fp.fsize >= m.fp.fsize
      BY <2>2, <1>3, Zenon
    <3>4. D \in Folder
      BY <1>1, HoldsParts
    <3>5. D[p.slot].size \in Nat /\ m.fp.fsize \in Nat /\ w.fp.fsize \in Nat
      BY <1>2, <1>3, <3>4 DEF OpenFile, Folder, DirEntry
    <3> HIDE DEF D
    <3>6. D[p.slot].size <= m.fp.fsize => D[p.slot].size <= w.fp.fsize
      BY <3>3, <3>5
    <3> QED BY <3>2, <3>6, <1>3, <1>4, Zenon DEF Fits
  <2> QED BY <1>1, <1>3, <1>4, <2>1, <2>2, Zenon DEF FiledAt
<1>6. (IF p.open THEN p.sclust ELSE Entry(D, n).clust) = Root(D, o1)[n] /\ RootedAt(q, n, Root(D, o1)[n], z)
      /\ z = (IF p.open THEN p.fsize ELSE Entry(D, n).size)
  BY <1>1, <1>3, Zenon
<1>7. [o1 EXCEPT ![n] = p] = [o EXCEPT ![n] = p]
  BY <1>2, ParkTwice
<1>8. InOrder(w, o1, L, T, {}, q) /\ w.fp = w.fp
  BY <1>1, InOrderLocal
<1>9. Seen(w) = Seen(w) /\ Fat(Seen(w)) = Fat(Seen(m)) /\ Dir(Seen(w)) = D
  BY <1>1, LocalFacts
<1> HIDE DEF D, o1, p, z
<1>10. Holds(Fat(Seen(m)), D, [o1 EXCEPT ![n] = p], L1, T, {}, q)
  BY <1>1, <1>2, <1>3, <1>5, <1>6, FileChange
<1>11. InOrder(w, [o EXCEPT ![n] = p], L1, T, {}, q)
  <2>1. w.disk \in {w.disk, Seen(w)} /\ Sound(w) /\ w.mounted
    BY <1>8, InOrderFacts
  <2>2. Holds(Fat(Seen(w)), Dir(Seen(w)), [o EXCEPT ![n] = p], L1, T, {}, q)
    BY <1>7, <1>9, <1>10, Zenon
  <2> QED BY <1>8, <2>1, <2>2, InOrderStep
<1> QED BY <1>2, <1>11, Zenon DEF p, Hand

\* A step of the call on the volume that leaves the file object alone
LEMMA HandFat ==
    ASSUME NEW m, NEW n, NEW o, NEW L, NEW T, NEW q, Hand(m, n, o, L, T, q), NEW w, Keeps(m, w),
           NEW r, InOrder(w, [o EXCEPT ![n] = Parked(m.fp)], L, T, {}, r)
    PROVE  Hand(w, n, o, L, T, r)
BY Zenon DEF Hand, Keeps

\* The first cluster of an empty file
RootedNow(F, D, o, L, T, q, u, a) ==
    \E r : Holds(F, D, o, L, T, {}, r) /\ Grows(q, r) /\ r.own[u] = a /\ r.idx[u] = 0

\* NewRoot, the whole invariant.
LEMMA NewRootPlain ==
    ASSUME NEW F, NEW D, NEW o, NEW L, NEW T,  NEW q, Holds(F, D, o, L, T, {}, q),
           NEW n \in Name, o[n].open, o[n].sclust = 0, \A k \in Name : {n, k} \notin T,
           NEW u \in Cluster, q.own[u] = NoName, F[u] = EndOfChain,
           NEW p, Rooted(o[n], p, u)
    PROVE  RootedNow(F, D, With(o, n, p), L, T, q, u, q.al[n])
<1> DEFINE X == {}
<1>1. u \notin X
  OBVIOUS
<1>2. Holds(F, D, o, L, T, X, q)
  OBVIOUS
<1> HIDE DEF X
<1>3. \E r : /\ Holds(F, D, With(o, n, p), L, T, X, r) /\ Grows(q, r)
             /\ r.own[u] = q.al[n] /\ r.idx[u] = 0
  BY <1>1, <1>2, NewRoot
<1> QED BY <1>3 DEF X, RootedNow

\* The file in hand takes its first cluster (f_write, f_lseek).
LEMMA HandRoot ==
    ASSUME NEW m, NEW n, NEW o, NEW L, NEW T, NEW q, Hand(m, n, o, L, T, q), m.fp.sclust = 0,
           NEW u \in Cluster, q.own[u] = NoName, Fat(Seen(m))[u] = EndOfChain,
           NEW w, Local(m, w), w.fp \in OpenFile, w.fp.sclust = u, w.fp.fsize = m.fp.fsize, w.fp.slot = m.fp.slot,
           w.fp.written = m.fp.written, w.fp.dirty = m.fp.dirty, w.fp.dsect = m.fp.dsect
    PROVE  \E r : Hand(w, n, o, L, T, r) /\ Grows(q, r) /\ r.own[u] = q.al[n] /\ r.idx[u] = 0
<1> DEFINE D == Dir(Seen(m))
           F == Fat(Seen(m))
           o1 == [o EXCEPT ![n] = Parked(m.fp)]
           p == Parked(w.fp)
<1>0. HandParts(m, n, o, L, T, q, o1, D)
  BY HandFacts
<1>1. /\ InOrder(m, o1, L, T, {}, q) /\ o1 \in [Name -> File] /\ Sound(m) /\ m.mounted /\ m \in Machines
      /\ o1[n] = Parked(m.fp) /\ o1[n].open
      /\ Holds(F, D, o1, L, T, {}, q)
  BY <1>0, Zenon DEF HandParts
<1>2. n \in Name /\ o \in [Name -> File] /\ m.fp \in OpenFile /\ \A k \in Name : {n, k} \notin T
  BY Zenon DEF Hand
<1>3. /\ o1[n].sclust = 0 /\ o1[n].fsize = m.fp.fsize /\ o1[n].slot = m.fp.slot
      /\ o1[n].written = m.fp.written /\ o1[n].dirty = m.fp.dirty /\ o1[n].dsect = m.fp.dsect
  BY <1>1, <1>2, ParkedFacts
<1>4. /\ p \in OpenFile /\ p.open /\ p.sclust = u /\ p.fsize = o1[n].fsize /\ p.slot = o1[n].slot
      /\ p.written = o1[n].written /\ p.dirty = o1[n].dirty /\ p.dsect = o1[n].dsect /\ p.err # "FR_OK"
  BY <1>3, ParkedFacts
<1> HIDE DEF p
<1>41. Rooted(o1[n], p, u)
  BY <1>4, Zenon DEF Rooted
<1>5. [o1 EXCEPT ![n] = p] = [o EXCEPT ![n] = p]
  BY <1>2, ParkTwice
<1>6. Fat(Seen(w)) = F /\ Dir(Seen(w)) = D
  BY <1>1, LocalFacts
<1>7. InOrder(w, o1, L, T, {}, q) /\ Sound(w) /\ w.mounted
  <2>1. InOrder(w, o1, L, T, {}, q)
    BY <1>1, InOrderLocal
  <2> QED BY <2>1, InOrderFacts
<1> HIDE DEF D, o1, p, F
<1>8. RootedNow(F, D, With(o1, n, p), L, T, q, u, q.al[n])
  <2>1. F[u] = EndOfChain
    BY DEF F
  <2>2. o1[n].open /\ o1[n].sclust = 0 /\ Holds(F, D, o1, L, T, {}, q)
    BY <1>1, <1>3, Zenon
  <2>3. n \in Name /\ \A k \in Name : {n, k} \notin T
    BY <1>2, Zenon
  <2> QED BY <2>1, <2>2, <2>3, <1>41, NewRootPlain
<1>9. PICK r : Holds(F, D, With(o1, n, p), L, T, {}, r) /\ Grows(q, r) /\ r.own[u] = q.al[n] /\ r.idx[u] = 0
  BY <1>8, Zenon DEF RootedNow
<1>10. InOrder(w, [o EXCEPT ![n] = p], L, T, {}, r)
  <2>1. w.disk \in {w.disk, Seen(w)} /\ L \subseteq L
    OBVIOUS
  <2>2. Holds(Fat(Seen(w)), Dir(Seen(w)), [o EXCEPT ![n] = p], L, T, {}, r)
    BY <1>5, <1>6, <1>9, Zenon DEF With
  <2> QED BY <1>7, <2>1, <2>2, InOrderStep
<1>11. Hand(w, n, o, L, T, r)
  BY <1>2, <1>10, Zenon DEF p, Hand
<1> QED BY <1>9, <1>11

-------------------------------------------------------------------------------
(* The data sectors and the buffer of a file: nothing of the FAT or the directory moves *)

\* p and its successor w differ by k in the position, and in the buffer
Slid(p, w, k) ==
    /\ w \in OpenFile /\ w.slot = p.slot /\ w.mode = p.mode /\ w.sclust = p.sclust /\ w.clust = p.clust
    /\ w.fsize = p.fsize /\ w.written = p.written /\ w.err = p.err /\ w.fptr = p.fptr + k
    /\ w.dirty => w.dsect >= database
\* What a step on the buffer of the file leaves alone
Buffers(m, w, k) == Local(m, w) /\ Slid(m.fp, w.fp, k) /\ w.val = m.val

\* Moves of the file pointer add up.
LEMMA SlidTrans ==
    ASSUME NEW p, NEW w, NEW u, NEW j \in Nat, NEW k \in Nat, p.fptr \in Nat, Slid(p, w, j), Slid(w, u, k)
    PROVE  Slid(p, u, j + k)
<1>1. u.fptr = p.fptr + (j + k)
  BY DEF Slid
<1> QED BY <1>1, Zenon DEF Slid

\* The medium and the window unchanged.
LEMMA SameLocal ==
    ASSUME NEW m, NEW w \in Machines, w.win = m.win, w.winsect = m.winsect, w.wflag = m.wflag,
           w.mounted = m.mounted, w.disk = m.disk
    PROVE  Local(m, w)
BY Zenon DEF Local

\* The fields of an open file.
LEMMA OpenFacts ==
    ASSUME NEW p \in OpenFile
    PROVE  /\ p.open /\ p.fptr \in Nat /\ p.fsize \in Nat /\ p.dsect \in Sector /\ p.buf \in DataSector
           /\ p.sclust \in {0} \union Cluster /\ p.clust \in {0} \union Cluster /\ p.slot \in 0 .. NRootDir - 1
           /\ p \in File /\ p.err \in Result /\ p.dirty \in BOOLEAN /\ p.written \in BOOLEAN
BY DEF OpenFile, File

\* The fields of a machine.
LEMMA MachineFacts ==
    ASSUME NEW m \in Machines
    PROVE  /\ m.disk \in Medium /\ m.data \in Seq(Nat) /\ m.val \in Int /\ m.res \in Result /\ m.fp \in File
           /\ \A x \in Sector : x >= database => m.disk[x] \in DataSector
<1>1. m.disk \in Medium /\ m.data \in Seq(Nat) /\ m.val \in Int /\ m.res \in Result /\ m.fp \in File
  BY DEF Machines
<1>2. \A x \in Sector : x >= database => m.disk[x] \in DataSector
  BY <1>1 DEF Medium, SectorOf
<1> QED BY <1>1, <1>2

\* disk_write into the data region leaves FAT and directory alone, power cuts included.
LEMMA DiskWriteFacts ==
    ASSUME NEW m \in Machines, NEW sect \in Nat, sect >= database, NEW cs \in Seq(DataSector)
    PROVE  LET w == disk_write(m, sect, cs) IN
           /\ Local(m, w) /\ w.fp = m.fp /\ w.data = m.data /\ w.val = m.val
           /\ w.res \in {"FR_OK", "FR_DISK_ERR"}
<1> DEFINE a == Access(m)
           d == [x \in Sector |-> IF x - sect + 1 \in 1 .. Len(cs) THEN cs[x - sect + 1] ELSE m.disk[x]]
           w == [a EXCEPT !.disk = d]
<1>1. /\ a \in Machines /\ a.disk = m.disk /\ a.fp = m.fp /\ a.mounted = m.mounted /\ a.data = m.data /\ a.val = m.val
      /\ a.win = m.win /\ a.winsect = m.winsect /\ a.wflag = m.wflag /\ a.res \in {"FR_OK", "FR_DISK_ERR"}
  BY AccessFacts
<1> HIDE DEF a
<1>2. d \in Medium /\ \A x \in 0 .. database - 1 : d[x] = m.disk[x]
  <2>1. m.disk \in [Sector -> AnySector] /\ \A x \in Sector : m.disk[x] \in SectorOf(x)
    BY DEF Machines, Medium
  <2>2. \A i \in 1 .. Len(cs) : cs[i] \in DataSector
    OBVIOUS
  <2>3. \A x \in Sector : d[x] \in SectorOf(x)
    <3> TAKE x \in Sector
    <3>1. CASE x - sect + 1 \in 1 .. Len(cs)
      <4>1. x >= database
        BY <3>1, LayoutFacts, SectorFacts
      <4> QED BY <2>2, <3>1, <4>1 DEF SectorOf
    <3>2. CASE x - sect + 1 \notin 1 .. Len(cs)
      BY <2>1, <3>2
    <3> QED BY <3>1, <3>2
  <2>4. \A x \in Sector : d[x] \in AnySector
    BY <2>3 DEF SectorOf, AnySector
  <2>5. \A x \in 0 .. database - 1 : d[x] = m.disk[x]
    BY LayoutFacts, SectorFacts
  <2> HIDE DEF d
  <2>6. d \in [Sector -> AnySector]
    <3>1. d = [x \in Sector |-> d[x]]
      BY DEF d
    <3> QED BY <2>4, <3>1
  <2> QED BY <2>3, <2>5, <2>6 DEF Medium
<1>3. disk_write(m, sect, cs) = IF ~Lands(m) THEN a ELSE w
  <2>1. w = [Access(m) EXCEPT !.disk = [x \in Sector |-> IF x - sect + 1 \in 1 .. Len(cs) THEN cs[x - sect + 1] ELSE a.disk[x]]]
    BY <1>1, Zenon DEF a
  <2> QED BY <2>1, Zenon DEF disk_write, a
<1> HIDE DEF d
<1>4. /\ w \in Machines /\ w.fp = m.fp /\ w.mounted = m.mounted /\ w.data = m.data /\ w.val = m.val
      /\ w.win = m.win /\ w.winsect = m.winsect /\ w.wflag = m.wflag /\ w.res = a.res /\ w.disk = d
  BY <1>1, <1>2 DEF Machines
<1> HIDE DEF w
<1>5. Local(m, w) /\ Local(m, a)
  BY <1>1, <1>2, <1>4, Zenon DEF Local
<1> QED BY <1>1, <1>3, <1>4, <1>5

\* The machine with another file object
LEMMA WithFile ==
    ASSUME NEW m \in Machines, NEW p \in OpenFile
    PROVE  LET w == [m EXCEPT !.fp = p] IN
           /\ w \in Machines /\ Local(m, w) /\ w.fp = p /\ w.val = m.val /\ w.data = m.data /\ w.res = m.res
           /\ w.disk = m.disk
<1> DEFINE w == [m EXCEPT !.fp = p]
<1>1. /\ w \in Machines /\ w.fp = p /\ w.val = m.val /\ w.data = m.data /\ w.res = m.res
      /\ w.win = m.win /\ w.winsect = m.winsect /\ w.wflag = m.wflag /\ w.mounted = m.mounted /\ w.disk = m.disk
  BY DEF Machines, File
<1>2. Local(m, w)
  <2> HIDE DEF w
  <2> QED BY <1>1, SameLocal
<1> QED BY <1>1, <1>2

\* Results, values and accesses do so too.
LEMMA ReturnLocal ==
    ASSUME NEW m \in Machines, NEW r \in Result
    PROVE  LET w == Return(m, r) IN
           Local(m, w) /\ w \in Machines /\ w.fp = m.fp /\ w.val = m.val /\ w.data = m.data /\ w.res = r /\ w.disk = m.disk
<1> DEFINE w == Return(m, r)
<1>1. /\ w \in Machines /\ w.fp = m.fp /\ w.val = m.val /\ w.data = m.data /\ w.res = r
      /\ w.win = m.win /\ w.winsect = m.winsect /\ w.wflag = m.wflag /\ w.mounted = m.mounted /\ w.disk = m.disk
  BY DEF Machines, Return
<1>2. Local(m, w)
  <2> HIDE DEF w
  <2> QED BY <1>1, SameLocal
<1> QED BY <1>1, <1>2

LEMMA ValueLocal ==
    ASSUME NEW m \in Machines, NEW x \in Int
    PROVE  LET w == Value(m, x) IN
           Local(m, w) /\ w \in Machines /\ w.fp = m.fp /\ w.val = x /\ w.data = m.data /\ w.res = m.res /\ w.disk = m.disk
<1> DEFINE w == Value(m, x)
<1>1. /\ w \in Machines /\ w.fp = m.fp /\ w.val = x /\ w.data = m.data /\ w.res = m.res
      /\ w.win = m.win /\ w.winsect = m.winsect /\ w.wflag = m.wflag /\ w.mounted = m.mounted /\ w.disk = m.disk
  BY DEF Machines, Value
<1>2. Local(m, w)
  <2> HIDE DEF w
  <2> QED BY <1>1, SameLocal
<1> QED BY <1>1, <1>2

LEMMA AccessLocal ==
    ASSUME NEW m \in Machines
    PROVE  LET w == Access(m) IN
           /\ Local(m, w) /\ w \in Machines /\ w.fp = m.fp /\ w.val = m.val /\ w.data = m.data
           /\ w.res \in {"FR_OK", "FR_DISK_ERR"} /\ w.disk = m.disk
<1> DEFINE w == Access(m)
<1>1. /\ w \in Machines /\ w.fp = m.fp /\ w.val = m.val /\ w.data = m.data /\ w.res \in {"FR_OK", "FR_DISK_ERR"}
      /\ w.win = m.win /\ w.winsect = m.winsect /\ w.wflag = m.wflag /\ w.mounted = m.mounted /\ w.disk = m.disk
  BY AccessFacts
<1>2. Local(m, w)
  <2> HIDE DEF w
  <2> QED BY <1>1, SameLocal
<1> QED BY <1>1, <1>2

\* No move is a move by nothing.
LEMMA SlidRefl ==
    ASSUME NEW p \in OpenFile, p.dirty => p.dsect >= database
    PROVE  Slid(p, p, 0)
<1>1. p.fptr = p.fptr + 0
  BY OpenFacts
<1> QED BY <1>1, Zenon DEF Slid

\* The dirty buffer is written back to the data region.
LEMMA WriteBackFacts ==
    ASSUME NEW m \in Machines, m.fp \in OpenFile, m.fp.dirty => m.fp.dsect >= database
    PROVE  LET w == WriteBack(m) IN
           /\ Buffers(m, w, 0) /\ w.fp.dsect = m.fp.dsect /\ w.data = m.data
           /\ w.res \in {"FR_OK", "FR_DISK_ERR"} /\ (w.res = "FR_OK" => ~w.fp.dirty)
<1> DEFINE w == WriteBack(m)
           a == disk_write(m, m.fp.dsect, <<m.fp.buf>>)
           p == [m.fp EXCEPT !.dirty = FALSE]
           b == [a EXCEPT !.fp = p]
<1>1. CASE ~m.fp.dirty
  <2>1. w = Return(m, "FR_OK")
    BY <1>1, Zenon DEF WriteBack
  <2>2. Local(m, w) /\ w.fp = m.fp /\ w.val = m.val /\ w.data = m.data /\ w.res = "FR_OK"
    <3>1. LET r == Return(m, "FR_OK") IN
          Local(m, r) /\ r.fp = m.fp /\ r.val = m.val /\ r.data = m.data /\ r.res = "FR_OK"
      BY OkResult, ReturnLocal
    <3> QED BY <2>1, <3>1, Zenon
  <2>3. Slid(m.fp, w.fp, 0)
    BY <2>2, SlidRefl
  <2> QED BY <1>1, <2>2, <2>3, Zenon DEF Buffers
<1>2. CASE m.fp.dirty
  <2>1. m.fp.dsect \in Nat /\ m.fp.dsect >= database /\ <<m.fp.buf>> \in Seq(DataSector)
    BY <1>2, OpenFacts, SectorFacts
  <2>2. Local(m, a) /\ a.fp = m.fp /\ a.data = m.data /\ a.val = m.val /\ a.res \in {"FR_OK", "FR_DISK_ERR"}
    BY <2>1, DiskWriteFacts
  <2>3. w = IF a.res = "FR_OK" THEN b ELSE a
    <3>1. w = IF a.res = "FR_OK" THEN [a EXCEPT !.fp = [a.fp EXCEPT !.dirty = FALSE]] ELSE a
      BY <1>2, Zenon DEF WriteBack, IfOk
    <3> QED BY <2>2, <3>1, Zenon
  <2>4. p \in OpenFile /\ Slid(m.fp, p, 0) /\ p.dsect = m.fp.dsect /\ ~p.dirty
    <3>1. /\ p \in OpenFile /\ p.slot = m.fp.slot /\ p.mode = m.fp.mode /\ p.sclust = m.fp.sclust /\ p.clust = m.fp.clust
          /\ p.fsize = m.fp.fsize /\ p.written = m.fp.written /\ p.err = m.fp.err /\ p.fptr = m.fp.fptr
          /\ p.dsect = m.fp.dsect
      BY DEF OpenFile
    <3>2. p.dirty = FALSE
      BY DEF OpenFile
    <3> HIDE DEF p
    <3>3. p.fptr = m.fp.fptr + 0
      BY <3>1, OpenFacts
    <3> QED BY <3>1, <3>2, <3>3, Zenon DEF Slid
  <2> HIDE DEF a, p
  <2>5. a \in Machines
    BY <2>2 DEF Local
  <2>6. b \in Machines /\ Local(a, b) /\ b.fp = p /\ b.val = a.val /\ b.data = a.data /\ b.res = a.res
    BY <2>4, <2>5, WithFile
  <2> HIDE DEF b
  <2>7. Local(m, b)
    BY <2>2, <2>6, LocalTrans
  <2>8. Slid(m.fp, m.fp, 0)
    BY SlidRefl
  <2> QED BY <2>2, <2>3, <2>4, <2>6, <2>7, <2>8, Zenon DEF Buffers
<1> QED BY <1>1, <1>2

\* The buffer is filled with a data sector.
LEMMA LoadBufferFacts ==
    ASSUME NEW m \in Machines, m.fp \in OpenFile, m.fp.dirty => m.fp.dsect >= database,
           NEW sect \in Sector, sect >= database
    PROVE  LET w == LoadBuffer(m, sect) IN
           /\ Buffers(m, w, 0) /\ w.data = m.data
           /\ w.res \in {"FR_OK", "FR_DISK_ERR"} /\ (w.res = "FR_OK" => w.fp.dsect = sect)
<1> DEFINE w == LoadBuffer(m, sect)
           a == WriteBack(m)
           r == disk_read(a)
           p == [r.fp EXCEPT !.buf = r.disk[sect], !.dsect = sect]
           f == [r EXCEPT !.fp = p]
<1>1. /\ Buffers(m, a, 0) /\ a.data = m.data
      /\ a.res \in {"FR_OK", "FR_DISK_ERR"} /\ (a.res = "FR_OK" => ~a.fp.dirty)
  BY WriteBackFacts
<1>2. w = IF a.res = "FR_OK" THEN (IF r.res = "FR_OK" THEN f ELSE r) ELSE a
  BY Zenon DEF LoadBuffer, IfOk
<1>3. /\ Local(m, a) /\ Slid(m.fp, a.fp, 0) /\ a.val = m.val /\ a \in Machines /\ a.fp \in OpenFile
  BY <1>1 DEF Buffers, Local, Slid
<1>4. CASE a.res # "FR_OK"
  BY <1>1, <1>2, <1>4
<1>5. CASE a.res = "FR_OK"
  <2> HIDE DEF a
  <2>1. /\ Local(a, r) /\ r \in Machines /\ r.fp = a.fp /\ r.val = a.val /\ r.data = a.data
        /\ r.res \in {"FR_OK", "FR_DISK_ERR"}
    BY <1>3, AccessLocal DEF disk_read
  <2> HIDE DEF r
  <2>2. p \in OpenFile /\ Slid(a.fp, p, 0) /\ p.dsect = sect
    <3>1. r.disk[sect] \in DataSector
      BY <2>1, MachineFacts
    <3>2. /\ p \in OpenFile /\ p.slot = a.fp.slot /\ p.mode = a.fp.mode /\ p.sclust = a.fp.sclust /\ p.clust = a.fp.clust
          /\ p.fsize = a.fp.fsize /\ p.written = a.fp.written /\ p.err = a.fp.err /\ p.fptr = a.fp.fptr
          /\ p.dsect = sect
      <4> DEFINE g == r.fp
                 x == r.disk[sect]
      <4>1. g \in OpenFile /\ x \in DataSector /\ g = a.fp /\ p = [g EXCEPT !.buf = x, !.dsect = sect]
        BY <1>3, <2>1, <3>1
      <4> HIDE DEF p, g, x
      <4> QED BY <4>1 DEF OpenFile
    <3> HIDE DEF p
    <3>3. p.fptr = a.fp.fptr + 0
      BY <1>3, <3>2, OpenFacts
    <3> QED BY <3>2, <3>3, Zenon DEF Slid
  <2> HIDE DEF p
  <2>3. f \in Machines /\ Local(r, f) /\ f.fp = p /\ f.val = r.val /\ f.data = r.data /\ f.res = r.res
    BY <2>1, <2>2, WithFile
  <2> HIDE DEF f
  <2>4. Local(m, r) /\ Local(m, f)
    BY <1>3, <2>1, <2>3, LocalTrans
  <2>5. Slid(m.fp, p, 0)
    <3>1. 0 \in Nat /\ 0 + 0 = 0 /\ m.fp.fptr \in Nat
      BY OpenFacts
    <3> QED BY <1>3, <2>2, <3>1, SlidTrans
  <2> QED BY <1>1, <1>2, <1>3, <1>5, <2>1, <2>2, <2>3, <2>4, <2>5, Zenon DEF Buffers
<1> QED BY <1>4, <1>5

\* The FIL and the caller's data changed.
LEMMA WithFileData ==
    ASSUME NEW m \in Machines, NEW p \in OpenFile, NEW e \in Seq(Nat)
    PROVE  LET w == [m EXCEPT !.fp = p, !.data = e] IN
           w \in Machines /\ Local(m, w) /\ w.fp = p /\ w.val = m.val /\ w.data = e /\ w.res = m.res
<1> DEFINE w == [m EXCEPT !.fp = p, !.data = e]
<1>1. /\ w \in Machines /\ w.fp = p /\ w.val = m.val /\ w.data = e /\ w.res = m.res
      /\ w.win = m.win /\ w.winsect = m.winsect /\ w.wflag = m.wflag /\ w.mounted = m.mounted /\ w.disk = m.disk
  BY DEF Machines, File
<1>2. Local(m, w)
  <2> HIDE DEF w
  <2> QED BY <1>1, SameLocal
<1> QED BY <1>1, <1>2

LEMMA WithDataFile ==
    ASSUME NEW m \in Machines, NEW p \in OpenFile, NEW e \in Seq(Nat)
    PROVE  LET w == [m EXCEPT !.data = e, !.fp = p] IN
           w \in Machines /\ Local(m, w) /\ w.fp = p /\ w.val = m.val /\ w.data = e /\ w.res = m.res
<1> DEFINE w == [m EXCEPT !.data = e, !.fp = p]
<1>1. /\ w \in Machines /\ w.fp = p /\ w.val = m.val /\ w.data = e /\ w.res = m.res
      /\ w.win = m.win /\ w.winsect = m.winsect /\ w.wflag = m.wflag /\ w.mounted = m.mounted /\ w.disk = m.disk
  BY DEF Machines, File
<1>2. Local(m, w)
  <2> HIDE DEF w
  <2> QED BY <1>1, SameLocal
<1> QED BY <1>1, <1>2

\* The pointer moved by k.
LEMMA SlideFacts ==
    ASSUME NEW p \in OpenFile, NEW k \in Nat, p.dirty => p.dsect >= database
    PROVE  LET w == [p EXCEPT !.fptr = @ + k] IN Slid(p, w, k) /\ w \in OpenFile /\ w.dsect = p.dsect
<1> DEFINE x == p.fptr + k
           w == [p EXCEPT !.fptr = x]
<1>1. x \in Nat
  BY OpenFacts
<1>2. /\ w \in OpenFile /\ w.slot = p.slot /\ w.mode = p.mode /\ w.sclust = p.sclust /\ w.clust = p.clust
      /\ w.fsize = p.fsize /\ w.written = p.written /\ w.err = p.err /\ w.fptr = x /\ w.dsect = p.dsect /\ w.dirty = p.dirty
  <2> HIDE DEF x
  <2> QED BY <1>1 DEF OpenFile
<1> HIDE DEF w
<1>3. Slid(p, w, k) /\ w \in OpenFile /\ w.dsect = p.dsect
  BY <1>2, Zenon DEF Slid, x
<1> QED BY <1>3, Zenon DEF w, x

\* Part of a sector is a sequence of bytes.
LEMMA SectorPart ==
    ASSUME NEW p \in Nat, NEW k \in Nat, k <= SS - (p % SS), NEW b \in DataSector
    PROVE  [i \in 1 .. k |-> b[(p % SS) + i - 1]] \in Seq(Nat)
<1> DEFINE x == p % SS
<1>1. x \in 0 .. SS - 1 /\ SS \in Nat \ {0}
  BY FatFsAssumption, DivParts
<1> HIDE DEF x
<1>2. \A i \in 1 .. k : x + i - 1 \in 0 .. SS - 1
  BY <1>1 DEF x
<1>3. \A i \in 1 .. k : b[x + i - 1] \in Nat
  BY <1>2 DEF DataSector
<1> QED BY <1>3 DEF x

\* Bytes read from the buffer.
LEMMA PickFacts ==
    ASSUME NEW m \in Machines, m.fp \in OpenFile, m.fp.dirty => m.fp.dsect >= database,
           NEW n \in Nat, n <= SS - (m.fp.fptr % SS)
    PROVE  LET w == Pick(m, n) IN Buffers(m, w, n) /\ w.fp.dsect = m.fp.dsect /\ w.res = m.res
<1> DEFINE w == Pick(m, n)
           d == [i \in 1 .. n |-> m.fp.buf[(m.fp.fptr % SS) + i - 1]]
           e == m.data \o d
           p == [m.fp EXCEPT !.fptr = @ + n]
<1>1. d \in Seq(Nat)
  BY OpenFacts, SectorPart
<1>2. w = [m EXCEPT !.data = e, !.fp = p]
  BY Zenon DEF Pick
<1>3. p \in OpenFile /\ Slid(m.fp, p, n) /\ p.dsect = m.fp.dsect
  BY SlideFacts
<1> HIDE DEF d
<1>4. e \in Seq(Nat)
  BY <1>1, MachineFacts
<1> HIDE DEF e, p
<1> DEFINE u == [m EXCEPT !.data = e, !.fp = p]
<1>5. u \in Machines /\ Local(m, u) /\ u.fp = p /\ u.val = m.val /\ u.data = e /\ u.res = m.res
  BY <1>3, <1>4, WithDataFile
<1> HIDE DEF u
<1> QED BY <1>2, <1>3, <1>5, Zenon DEF Buffers, u

\* Bytes written into the buffer.
LEMMA PutFacts ==
    ASSUME NEW m \in Machines, m.fp \in OpenFile, m.fp.dsect >= database, NEW d \in Seq(Nat)
    PROVE  LET w == Put(m, d) IN Buffers(m, w, Len(d)) /\ w.fp.dsect = m.fp.dsect /\ w.res = m.res
<1> DEFINE w == Put(m, d)
           b == [i \in 0 .. SS - 1 |-> LET k == i - (m.fp.fptr % SS) + 1 IN IF k \in 1 .. Len(d) THEN d[k] ELSE m.fp.buf[i]]
           x == m.fp.fptr + Len(d)
           p == [m.fp EXCEPT !.buf = b, !.dirty = TRUE, !.fptr = x]
<1>1. b \in DataSector
  <2>1. \A i \in 0 .. SS - 1 : m.fp.buf[i] \in Nat
    BY OpenFacts DEF DataSector
  <2>2. \A k \in 1 .. Len(d) : d[k] \in Nat
    OBVIOUS
  <2> QED BY <2>1, <2>2, Zenon DEF DataSector
<1>2. w = [m EXCEPT !.fp = p]
  BY Zenon DEF Put
<1>3. x \in Nat
  BY OpenFacts
<1> HIDE DEF b, x
<1>4. /\ p \in OpenFile /\ p.slot = m.fp.slot /\ p.mode = m.fp.mode /\ p.sclust = m.fp.sclust /\ p.clust = m.fp.clust
      /\ p.fsize = m.fp.fsize /\ p.written = m.fp.written /\ p.err = m.fp.err /\ p.fptr = x /\ p.dsect = m.fp.dsect
  BY <1>1, <1>3 DEF OpenFile
<1> HIDE DEF p, w
<1>5. w \in Machines /\ Local(m, w) /\ w.fp = p /\ w.val = m.val /\ w.res = m.res
  BY <1>2, <1>4, WithFile
<1>6. Slid(m.fp, p, Len(d))
  BY <1>4, Zenon DEF Slid, x
<1> QED BY <1>4, <1>5, <1>6, Zenon DEF Buffers, w

\* Sector and offset of a byte.
LEMMA SectorIndex ==
    ASSUME NEW cc \in Nat, NEW i \in Nat, i < SS * cc
    PROVE  i \div SS \in 0 .. cc - 1 /\ i % SS \in 0 .. SS - 1
<1>1. SS \in Nat \ {0}
  BY FatFsAssumption
<1>2. i \div SS \in Nat /\ i % SS \in 0 .. SS - 1 /\ i = SS * (i \div SS) + (i % SS)
  BY <1>1, DivParts
<1> DEFINE q == i \div SS
<1>3. SS * q \in Nat /\ SS * cc \in Nat /\ (SS * q < SS * cc => q < cc)
  BY <1>1, <1>2, MulMono
<1> HIDE DEF q
<1>4. SS * q <= i
  <2> DEFINE x == SS * q
             y == i % SS
  <2>1. x \in Nat /\ y \in 0 .. SS - 1 /\ i = x + y
    BY <1>2, <1>3 DEF q
  <2> HIDE DEF x, y
  <2> QED BY <2>1, <1>1 DEF x
<1>5. q < cc
  <2> DEFINE x == SS * q
             y == SS * cc
  <2>1. x \in Nat /\ y \in Nat /\ (x < y => q < cc) /\ x <= i /\ i < y
    BY <1>3, <1>4
  <2> HIDE DEF x, y
  <2> QED BY <2>1
<1> QED BY <1>2, <1>5 DEF q

\* A machine with its FIL and data replaced.
FileData(m, p, e) == [m EXCEPT !.fp = p, !.data = e]

\* It is a machine, with the same FAT and directory.
LEMMA FileDataFacts ==
    ASSUME NEW m \in Machines, NEW p \in OpenFile, NEW e \in Seq(Nat)
    PROVE  /\ FileData(m, p, e) \in Machines /\ Local(m, FileData(m, p, e)) /\ FileData(m, p, e).fp = p
           /\ FileData(m, p, e).val = m.val /\ FileData(m, p, e).res = m.res
BY WithFileData DEF FileData

\* Whole sectors read past the buffer.
LEMMA ReadWholeFacts ==
    ASSUME NEW m \in Machines, m.fp \in OpenFile, m.fp.dirty => m.fp.dsect >= database,
           NEW sect \in Nat, sect >= database, NEW cc \in Nat, \A k \in 0 .. cc - 1 : sect + k \in Sector
    PROVE  LET w == ReadWhole(m, sect, cc) IN Buffers(m, w, SS * cc) /\ w.fp.dsect = m.fp.dsect /\ w.res = m.res
<1> DEFINE w == ReadWhole(m, sect, cc)
           source(x) == IF m.fp.dirty /\ m.fp.dsect = x THEN m.fp.buf ELSE m.disk[x]
           n == SS * cc
           d == [i \in 1 .. n |-> source(sect + ((i - 1) \div SS))[(i - 1) % SS]]
           e == m.data \o d
           p == [m.fp EXCEPT !.fptr = @ + n]
<1>1. n \in Nat
  BY FatFsAssumption, MulMono
<1>2. \A x \in Sector : x >= database => source(x) \in DataSector
  BY MachineFacts, OpenFacts
<1>3. d \in Seq(Nat)
  <2>1. ASSUME NEW i \in 1 .. n
        PROVE  source(sect + ((i - 1) \div SS))[(i - 1) % SS] \in Nat
    <3> DEFINE j == (i - 1) \div SS
               k == (i - 1) % SS
    <3>1. j \in 0 .. cc - 1 /\ k \in 0 .. SS - 1
      <4>1. i - 1 \in Nat /\ i - 1 < n
        BY <1>1
      <4> QED BY <4>1, SectorIndex
    <3> HIDE DEF j, k
    <3>2. sect + j \in Sector /\ sect + j >= database
      BY <3>1, LayoutFacts
    <3>3. source(sect + j) \in DataSector
      BY <1>2, <3>2
    <3> HIDE DEF source
    <3>4. source(sect + j)[k] \in Nat
      BY <3>1, <3>3 DEF DataSector
    <3> QED BY <3>4 DEF j, k
  <2> HIDE DEF n, source
  <2> QED BY <1>1, <2>1
<1>4. w = [m EXCEPT !.fp = p, !.data = e]
  BY Zenon DEF ReadWhole
<1> HIDE DEF n
<1>5. p \in OpenFile /\ Slid(m.fp, p, n) /\ p.dsect = m.fp.dsect
  BY <1>1, SlideFacts
<1> HIDE DEF d
<1>6. e \in Seq(Nat)
  BY <1>3, MachineFacts
<1> HIDE DEF e, p, source
<1>7. w = FileData(m, p, e)
  BY <1>4, Zenon DEF FileData
<1> HIDE DEF w
<1>8. w \in Machines /\ Local(m, w) /\ w.fp = p /\ w.val = m.val /\ w.res = m.res
  BY <1>5, <1>6, <1>7, FileDataFacts
<1> QED BY <1>5, <1>8, Zenon DEF Buffers, w, n

\* The buffer is brought up to date when its sector was written past it.
LEMMA WroteWholeFacts ==
    ASSUME NEW m \in Machines, m.fp \in OpenFile, m.fp.dirty => m.fp.dsect >= database,
           NEW sect \in Nat, NEW cs \in Seq(DataSector)
    PROVE  LET w == WroteWhole(m, sect, cs) IN
           Buffers(m, w, SS * Len(cs)) /\ w.fp.dsect = m.fp.dsect /\ w.res = m.res
<1> DEFINE w == WroteWhole(m, sect, cs)
           n == SS * Len(cs)
           c == m.fp.dsect - sect + 1
           b == IF c \in 1 .. Len(cs) THEN cs[c] ELSE m.fp.buf
           x == m.fp.fptr + n
           p == [m.fp EXCEPT !.fptr = x, !.buf = b]
<1>1. n \in Nat
  BY FatFsAssumption, MulMono
<1>2. b \in DataSector
  BY OpenFacts
<1>3. w = [m EXCEPT !.fp = p]
  BY Zenon DEF WroteWhole
<1> HIDE DEF n, b
<1>4. x \in Nat
  BY <1>1, OpenFacts
<1> HIDE DEF x
<1>5. /\ p \in OpenFile /\ p.slot = m.fp.slot /\ p.mode = m.fp.mode /\ p.sclust = m.fp.sclust /\ p.clust = m.fp.clust
      /\ p.fsize = m.fp.fsize /\ p.written = m.fp.written /\ p.err = m.fp.err /\ p.fptr = x /\ p.dsect = m.fp.dsect
      /\ p.dirty = m.fp.dirty
  BY <1>2, <1>4 DEF OpenFile
<1> HIDE DEF p
<1>6. Slid(m.fp, p, n)
  BY <1>5, Zenon DEF Slid, x
<1> DEFINE u == [m EXCEPT !.fp = p]
<1>7. u \in Machines /\ Local(m, u) /\ u.fp = p /\ u.val = m.val /\ u.res = m.res
  BY <1>5, WithFile
<1> HIDE DEF u
<1> QED BY <1>3, <1>5, <1>6, <1>7, Zenon DEF Buffers, u, n

\* Data cut into sectors.
LEMMA SectorsOf ==
    ASSUME NEW d \in Seq(Nat), NEW cc \in Nat, SS * cc <= Len(d)
    PROVE  LET cs == [k \in 1 .. cc |-> [i \in 0 .. SS - 1 |-> d[(k - 1) * SS + i + 1]]] IN
           cs \in Seq(DataSector) /\ Len(cs) = cc
<1> DEFINE cs == [k \in 1 .. cc |-> [i \in 0 .. SS - 1 |-> d[(k - 1) * SS + i + 1]]]
<1>0. SS \in Nat \ {0}
  BY FatFsAssumption
<1>1. ASSUME NEW k \in 1 .. cc
      PROVE  [i \in 0 .. SS - 1 |-> d[(k - 1) * SS + i + 1]] \in DataSector
  <2> DEFINE j == (k - 1) * SS
  <2>1. j \in Nat /\ j + SS <= Len(d)
    <3>1. k - 1 \in Nat /\ k - 1 < cc
      OBVIOUS
    <3>2. SS * (k - 1) \in Nat /\ SS * cc \in Nat /\ SS * (k - 1) + SS <= SS * cc
      BY <1>0, <3>1, MulMono
    <3>3. SS * (k - 1) = (k - 1) * SS
      BY <1>0, <3>1
    <3> DEFINE y == SS * cc
               x == SS * (k - 1)
    <3>4. x \in Nat /\ y \in Nat /\ x + SS <= y /\ y <= Len(d) /\ x = j
      BY <3>2, <3>3
    <3> HIDE DEF x, y, j
    <3> QED BY <3>4, <1>0
  <2> HIDE DEF j
  <2>2. \A i \in 0 .. SS - 1 : d[j + i + 1] \in Nat
    <3> TAKE i \in 0 .. SS - 1
    <3>1. j + i + 1 \in 1 .. Len(d)
      BY <2>1, <1>0
    <3> QED BY <3>1
  <2> QED BY <2>2 DEF DataSector, j
<1>2. cs \in [1 .. cc -> DataSector]
  BY <1>1
<1> HIDE DEF cs
<1>3. cs \in Seq(DataSector) /\ Len(cs) = cc
  BY <1>2
<1> QED BY <1>3 DEF cs

\* Whole sectors up to the end of the cluster
LEMMA WholeFacts ==
    ASSUME NEW m, m.fp.fptr \in Nat, NEW n \in Nat, n >= SS
    PROVE  /\ Whole(m, n) \in 1 .. (CSize - OffsetInCluster(m.fp)) /\ OffsetInCluster(m.fp) \in 0 .. CSize - 1
           /\ SS * Whole(m, n) \in Nat /\ SS * Whole(m, n) <= n
<1> DEFINE o == OffsetInCluster(m.fp)
           c == n \div SS
           h == Whole(m, n)
<1>0. SS \in Nat \ {0} /\ CSize \in Nat \ {0}
  BY FatFsAssumption
<1>1. o \in 0 .. CSize - 1
  BY <1>0, DivParts DEF OffsetInCluster
<1>2. c \in Nat /\ n = SS * c + (n % SS) /\ n % SS \in 0 .. SS - 1
  BY <1>0, DivParts
<1>3. h = IF c < CSize - o THEN c ELSE CSize - o
  BY DEF Whole
<1> HIDE DEF c, o, h
<1>4. c # 0
  BY <1>0, <1>2
<1>5. h \in 1 .. (CSize - o) /\ h <= c /\ h \in Nat
  BY <1>0, <1>1, <1>2, <1>3, <1>4
<1>6. SS * h \in Nat /\ SS * c \in Nat /\ SS * h <= SS * c
  BY <1>0, <1>2, <1>5, MulMono
<1>7. SS * h <= n
  <2> DEFINE x == SS * h
             y == SS * c
             z == n % SS
  <2>1. x \in Nat /\ y \in Nat /\ x <= y /\ z \in 0 .. SS - 1 /\ n = y + z
    BY <1>2, <1>6
  <2> HIDE DEF x, y, z
  <2>2. x <= n
    BY <2>1, <1>0
  <2> QED BY <2>2 DEF x
<1> QED BY <1>1, <1>5, <1>6, <1>7 DEF h, o
===============================================================================
