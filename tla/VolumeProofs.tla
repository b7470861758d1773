----------------------------- MODULE VolumeProofs -----------------------------
(***************************************************************************)
(* Theorems of Volume, for every geometry, number of clusters, set of      *)
(* names, sizes, offsets and faults: the calls of the interface, on top of *)
(* what FatFsProofs says of the functions they use, and the variables of   *)
(* the module between the calls.                                           *)
(*                                                                         *)
(*   Kept      what a call on an open file leaves behind                   *)
(*   Coherent  Vol of the variables of the module: inductive               *)
(***************************************************************************)
EXTENDS Volume, FatFsProofs

-------------------------------------------------------------------------------
(* Where the file pointer stands in its chain *)

\* The position stands right behind, or within, the current cluster of the file
Placed(q, n, p) ==
    \/ p.fptr = 0
    \/ /\ p.clust \in Cluster /\ q.own[p.clust] = q.al[n]
       /\ q.idx[p.clust] * Bytes < p.fptr /\ p.fptr <= (q.idx[p.clust] + 1) * Bytes

\* The pointer stands in cluster clust, before its end.
Inside(q, n, p) ==
    /\ p.clust \in Cluster /\ q.own[p.clust] = q.al[n]
    /\ q.idx[p.clust] * Bytes <= p.fptr /\ p.fptr < (q.idx[p.clust] + 1) * Bytes

\* At the start of a cluster it does.
LEMMA InsideNew ==
    ASSUME NEW q \in Certificate, NEW n, NEW p, p.clust \in Cluster, q.own[p.clust] = q.al[n],
           p.fptr = q.idx[p.clust] * Bytes
    PROVE  Inside(q, n, p)
<1>1. q.idx[p.clust] \in Nat
  BY DEF Certificate
<1> DEFINE i == q.idx[p.clust]
<1>2. i * Bytes \in Nat /\ (i + 1) * Bytes = i * Bytes + Bytes /\ Bytes \in Nat \ {0}
  BY <1>1, ByteFacts, BytesNat
<1>3. i * Bytes <= p.fptr /\ p.fptr < (i + 1) * Bytes
  BY <1>2
<1> QED BY <1>3 DEF Inside

\* At a sector within a cluster it does.
LEMMA InsideMid ==
    ASSUME NEW q \in Certificate, NEW n, NEW p \in OpenFile, Placed(q, n, p), p.fptr % SS = 0, OffsetInCluster(p) # 0
    PROVE  Inside(q, n, p)
<1>1. p.fptr \in Nat /\ p.fptr # 0
  <2>1. (0 \div SS) % CSize = 0
    <3>1. SS \in Nat \ {0} /\ CSize \in Nat \ {0} /\ 0 \in Nat /\ SS * 0 + 0 = 0 /\ CSize * 0 + 0 = 0 /\ 0 \in 0 .. SS - 1 /\ 0 \in 0 .. CSize - 1
      BY FatFsAssumption
    <3>2. (SS * 0 + 0) \div SS = 0 /\ (CSize * 0 + 0) % CSize = 0
      BY <3>1, DivUnique
    <3> QED BY <3>1, <3>2
  <2> QED BY <2>1, OpenFacts DEF OffsetInCluster
<1>2. p.clust \in Cluster /\ q.own[p.clust] = q.al[n]
      /\ q.idx[p.clust] * Bytes < p.fptr /\ p.fptr <= (q.idx[p.clust] + 1) * Bytes
  BY <1>1 DEF Placed
<1>3. q.idx[p.clust] \in Nat
  BY <1>2 DEF Certificate
<1>4. p.fptr < (q.idx[p.clust] + 1) * Bytes /\ q.idx[p.clust] * Bytes <= p.fptr
  BY <1>1, <1>2, <1>3, InCluster DEF OffsetInCluster
<1> QED BY <1>2, <1>4 DEF Inside

\* At the end of a cluster the next one is due.
LEMMA AtNext ==
    ASSUME NEW q \in Certificate, NEW n, NEW p \in OpenFile, Placed(q, n, p), p.fptr % SS = 0,
           OffsetInCluster(p) = 0, p.fptr # 0
    PROVE  /\ p.clust \in Cluster /\ q.own[p.clust] = q.al[n] /\ q.idx[p.clust] \in Nat
           /\ p.fptr = (q.idx[p.clust] + 1) * Bytes
<1>1. p.clust \in Cluster /\ q.own[p.clust] = q.al[n]
      /\ q.idx[p.clust] * Bytes < p.fptr /\ p.fptr <= (q.idx[p.clust] + 1) * Bytes
  BY DEF Placed
<1>2. q.idx[p.clust] \in Nat /\ p.fptr \in Nat
  BY <1>1, OpenFacts DEF Certificate
<1>3. p.fptr = (q.idx[p.clust] + 1) * Bytes
  BY <1>1, <1>2, AtClusterStart DEF OffsetInCluster
<1> QED BY <1>1, <1>2, <1>3

\* The sectors ahead in the cluster are data sectors.
LEMMA InsideSector ==
    ASSUME NEW q \in Certificate, NEW n, NEW p \in OpenFile, Inside(q, n, p), p.fptr % SS = 0
    PROVE  /\ CurSect(p) \in Nat /\ CurSect(p) >= database /\ CurSect(p) \in Sector
           /\ \A k \in 0 .. CSize - OffsetInCluster(p) - 1 : CurSect(p) + k \in Sector
<1> DEFINE o == OffsetInCluster(p)
           s == clust2sect(p.clust)
<1>1. o \in 0 .. CSize - 1 /\ CSize \in Nat \ {0} /\ SS \in Nat \ {0}
  BY FatFsAssumption, OpenFacts, DivParts DEF OffsetInCluster
<1>2. p.clust \in Cluster
  BY DEF Inside
<1>3. \A j \in 0 .. CSize - 1 : s + j \in Sector /\ s + j >= database /\ s \in Nat /\ s >= database
  BY <1>2, ClusterSector
<1>4. CurSect(p) = s + o
  BY Zenon DEF CurSect
<1>5. \A k \in 0 .. CSize - o - 1 : o + k \in 0 .. CSize - 1
  BY <1>1
<1>6. s \in Nat
  BY <1>1, <1>3
<1> HIDE DEF s, o
<1>7. \A k \in 0 .. CSize - o - 1 : (s + o) + k \in Sector
  <2> TAKE k \in 0 .. CSize - o - 1
  <2>1. s + (o + k) \in Sector
    BY <1>3, <1>5
  <2>2. s + (o + k) = (s + o) + k
    BY <1>1, <1>6
  <2> QED BY <2>1, <2>2
<1>8. s + o \in Nat /\ s + o >= database /\ s + o \in Sector
  BY <1>1, <1>3, <1>6
<1> QED BY <1>4, <1>7, <1>8 DEF o

\* The pointer stays placed when it moves to the cluster's end at most.
LEMMA InsideSlid ==
    ASSUME NEW q \in Certificate, NEW n, NEW p \in OpenFile, Inside(q, n, p), p.fptr % SS = 0,
           NEW k \in Nat, k # 0, k <= SS * (CSize - OffsetInCluster(p)), NEW w, Slid(p, w, k)
    PROVE  Placed(q, n, w)
<1> DEFINE i == q.idx[p.clust]
           o == OffsetInCluster(p)
<1>1. /\ p.clust \in Cluster /\ q.own[p.clust] = q.al[n]
      /\ i * Bytes <= p.fptr /\ p.fptr < (i + 1) * Bytes
  BY DEF Inside
<1>2. i \in Nat /\ p.fptr \in Nat
  BY <1>1, OpenFacts DEF Certificate
<1>3. p.fptr + SS * (CSize - o) = (i + 1) * Bytes /\ o \in 0 .. CSize - 1
  BY <1>1, <1>2, AtSectorStart DEF OffsetInCluster
<1>4. w.fptr = p.fptr + k /\ w.clust = p.clust
  BY DEF Slid
<1>5. i * Bytes < p.fptr + k /\ p.fptr + k <= (i + 1) * Bytes
  <2> DEFINE x == i * Bytes
             y == (i + 1) * Bytes
             z == SS * (CSize - o)
  <2>1. x \in Nat /\ y \in Nat /\ x <= p.fptr /\ k <= z /\ p.fptr + z = y
    BY <1>1, <1>2, <1>3, ByteFacts
  <2>2. z \in Int
    BY <1>3, FatFsAssumption
  <2> HIDE DEF x, y, z
  <2> QED BY <2>1, <2>2, <1>2 DEF x, y
<1> QED BY <1>1, <1>4, <1>5 DEF Placed

\* Or to the sector's end.
LEMMA MidSlid ==
    ASSUME NEW q \in Certificate, NEW n, NEW p \in OpenFile, Placed(q, n, p), p.fptr % SS # 0,
           NEW k \in Nat, k <= SS - (p.fptr % SS), NEW w, Slid(p, w, k)
    PROVE  Placed(q, n, w)
<1>0. p.fptr # 0
  <2>1. SS \in Nat \ {0} /\ SS * 0 + 0 = 0 /\ 0 \in 0 .. SS - 1
    BY FatFsAssumption
  <2>2. (SS * 0 + 0) % SS = 0
    BY <2>1, DivUnique
  <2> QED BY <2>1, <2>2
<1>1. p.clust \in Cluster /\ q.own[p.clust] = q.al[n]
      /\ q.idx[p.clust] * Bytes < p.fptr /\ p.fptr <= (q.idx[p.clust] + 1) * Bytes
  BY <1>0 DEF Placed
<1>2. q.idx[p.clust] \in Nat /\ p.fptr \in Nat
  BY <1>1, OpenFacts DEF Certificate
<1>3. q.idx[p.clust] * Bytes < p.fptr + k /\ p.fptr + k <= (q.idx[p.clust] + 1) * Bytes
  BY <1>1, <1>2, MidSector
<1>4. w.fptr = p.fptr + k /\ w.clust = p.clust
  BY DEF Slid
<1> QED BY <1>1, <1>3, <1>4 DEF Placed

\* An open file that has moved away from its start has a chain
LEMMA PlacedRoot ==
    ASSUME NEW m, NEW n, NEW o, NEW L, NEW T, NEW q, Hand(m, n, o, L, T, q), Placed(q, n, m.fp), m.fp.sclust = 0
    PROVE  m.fp.fptr = 0
<1> DEFINE D == Dir(Seen(m))
           o1 == [o EXCEPT ![n] = Parked(m.fp)]
<1>0. HandParts(m, n, o, L, T, q, o1, D)
  BY HandFacts
<1>1. Holds(Fat(Seen(m)), D, o1, L, T, {}, q) /\ Root(D, o1)[n] = m.fp.sclust
  BY <1>0, Zenon DEF HandParts
<1>2. Apart(q, Root(D, o1), T)
  BY <1>1, HoldsParts
<1>3. n \in Name /\ \A k \in Name : {n, k} \notin T
  BY DEF Hand
<1> HIDE DEF o1, D
<1>4. \A c \in Cluster : q.own[c] # q.al[n]
  BY <1>1, <1>2, <1>3, Zenon DEF Apart
<1> QED BY <1>4, Zenon DEF Placed

-------------------------------------------------------------------------------
(* f_read *)

\* w is the object p with another position, buffer or error
Kin(p, w) ==
    /\ w \in OpenFile /\ w.slot = p.slot /\ w.mode = p.mode /\ w.sclust = p.sclust
    /\ w.fsize = p.fsize /\ w.written = p.written
\* A call on n has done its part, or has given the file up
Fed(m, w, n, o, L, T, q, end) ==
    /\ Hand(w, n, o, L, T, q) /\ Kin(m.fp, w.fp)
    /\ \/ w.fp.err = "FR_OK" /\ Placed(q, n, w.fp) /\ BufOK(w.fp) /\ w.fp.fptr <= end
       \/ w.fp.err # "FR_OK" /\ w.res # "FR_OK"

\* What f_read leaves of a FIL.
LEMMA KinTrans ==
    ASSUME NEW p, NEW w, NEW u, Kin(p, w), Kin(w, u)
    PROVE  Kin(p, u)
BY Zenon DEF Kin

\* The file in hand stays in hand under such steps.
LEMMA HandKin ==
    ASSUME NEW m, NEW n, NEW o, NEW L, NEW T, NEW q, Hand(m, n, o, L, T, q), NEW w, Local(m, w), Kin(m.fp, w.fp),
           w.fp.dirty => w.fp.dsect >= database
    PROVE  Hand(w, n, o, L, T, q)
<1>1. /\ w.fp \in OpenFile /\ w.fp.slot = m.fp.slot /\ w.fp.sclust = m.fp.sclust
      /\ w.fp.fsize = m.fp.fsize /\ w.fp.written = m.fp.written
  BY Zenon DEF Kin
<1>2. HandParts(m, n, o, L, T, q, [o EXCEPT ![n] = Parked(m.fp)], Dir(Seen(m)))
  BY HandFacts
<1>3. RootedAt(q, n, w.fp.sclust, w.fp.fsize)
  BY <1>1, <1>2, Zenon DEF HandParts
<1>4. w.fp.fsize >= m.fp.fsize /\ L \subseteq L
  BY <1>1, OpenFacts
<1>5. w.fp.written \/ ~m.fp.written
  BY <1>1, Zenon
<1> QED BY <1>1, <1>3, <1>4, <1>5, HandStep

\* The parts of Hand that concern the FIL alone.
LEMMA HandPlain ==
    ASSUME NEW m, NEW n, NEW o, NEW L, NEW T, NEW q, Hand(m, n, o, L, T, q)
    PROVE  /\ m \in Machines /\ m.fp \in OpenFile /\ (m.fp.dirty => m.fp.dsect >= database) /\ n \in Name
           /\ q \in Certificate /\ RootedAt(q, n, m.fp.sclust, m.fp.fsize) /\ Sound(m)
<1>1. HandParts(m, n, o, L, T, q, [o EXCEPT ![n] = Parked(m.fp)], Dir(Seen(m)))
  BY HandFacts
<1> QED BY <1>1, Zenon DEF HandParts, Hand

\* Moves of the buffer keep it.
LEMMA HandBuffers ==
    ASSUME NEW m, NEW n, NEW o, NEW L, NEW T, NEW q, Hand(m, n, o, L, T, q), NEW k, NEW w, Buffers(m, w, k)
    PROVE  Hand(w, n, o, L, T, q) /\ Kin(m.fp, w.fp)
<1>1. Local(m, w) /\ Kin(m.fp, w.fp) /\ (w.fp.dirty => w.fp.dsect >= database)
  BY Zenon DEF Buffers, Slid, Kin
<1> QED BY <1>1, HandKin

\* So does ABORT.
LEMMA HandAbort ==
    ASSUME NEW m, NEW n, NEW o, NEW L, NEW T, NEW q, Hand(m, n, o, L, T, q), NEW r \in Result
    PROVE  LET w == Abort(m, r) IN
           Hand(w, n, o, L, T, q) /\ Kin(m.fp, w.fp) /\ w.fp.err = r /\ w.res = r
<1> DEFINE w == Abort(m, r)
           p == [m.fp EXCEPT !.err = r]
           u == [m EXCEPT !.fp = p]
<1>1. m \in Machines /\ m.fp \in OpenFile /\ (m.fp.dirty => m.fp.dsect >= database)
  BY HandPlain
<1>2. /\ p \in OpenFile /\ p.slot = m.fp.slot /\ p.mode = m.fp.mode /\ p.sclust = m.fp.sclust
      /\ p.fsize = m.fp.fsize /\ p.written = m.fp.written /\ p.err = r /\ p.dirty = m.fp.dirty /\ p.dsect = m.fp.dsect
  BY <1>1 DEF OpenFile
<1>3. w = Return(u, r)
  BY Zenon DEF Abort, Return
<1> HIDE DEF p
<1>4. u \in Machines /\ Local(m, u) /\ u.fp = p
  BY <1>1, <1>2, WithFile
<1> HIDE DEF u, w
<1>5. Local(u, w) /\ w.fp = u.fp /\ w.res = r
  <2>1. LET x == Return(u, r) IN Local(u, x) /\ x.fp = u.fp /\ x.res = r
    BY <1>4, ReturnLocal
  <2> QED BY <1>3, <2>1, Zenon
<1>6. Local(m, w) /\ Kin(m.fp, w.fp) /\ (w.fp.dirty => w.fp.dsect >= database)
  <2>1. Local(m, w)
    BY <1>4, <1>5, LocalTrans
  <2> QED BY <1>1, <1>2, <1>4, <1>5, <2>1, Zenon DEF Kin
<1>7. Hand(w, n, o, L, T, q)
  BY <1>6, HandKin
<1> QED BY <1>2, <1>4, <1>5, <1>6, <1>7, Zenon DEF w

\* A read that aborts.
LEMMA FedAbort ==
    ASSUME NEW m, NEW n, NEW o, NEW L, NEW T, NEW q, Hand(m, n, o, L, T, q), NEW r \in {"FR_DISK_ERR", "FR_INT_ERR"}, NEW end
    PROVE  Fed(m, Abort(m, r), n, o, L, T, q, end)
<1>1. r \in Result /\ r # "FR_OK"
  BY DEF Result
<1> DEFINE w == Abort(m, r)
<1>2. Hand(w, n, o, L, T, q) /\ Kin(m.fp, w.fp) /\ w.fp.err = r /\ w.res = r
  BY <1>1, HandAbort
<1> QED BY <1>1, <1>2, Zenon DEF Fed

\* A read after a read.
LEMMA FedAfter ==
    ASSUME NEW m, NEW u, NEW w, NEW n, NEW o, NEW L, NEW T, NEW q, NEW r, NEW end, Kin(m.fp, u.fp), Fed(u, w, n, o, L, T, r, end)
    PROVE  Fed(m, w, n, o, L, T, r, end)
<1>1. Kin(m.fp, w.fp)
  BY KinTrans DEF Fed
<1> QED BY <1>1, Zenon DEF Fed

\* Results and values keep the file in hand.
LEMMA HandReturn ==
    ASSUME NEW m, NEW n, NEW o, NEW L, NEW T, NEW q, Hand(m, n, o, L, T, q), NEW r \in Result
    PROVE  LET w == Return(m, r) IN
           Hand(w, n, o, L, T, q) /\ w.fp = m.fp /\ w.res = r /\ w.val = m.val /\ w.data = m.data
<1> DEFINE w == Return(m, r)
<1>1. m \in Machines /\ m.fp \in OpenFile /\ (m.fp.dirty => m.fp.dsect >= database)
  BY HandPlain
<1>2. Local(m, w) /\ w.fp = m.fp /\ w.res = r /\ w.val = m.val /\ w.data = m.data
  BY <1>1, ReturnLocal
<1>3. Hand(w, n, o, L, T, q)
  <2> HIDE DEF w
  <2>1. Kin(m.fp, w.fp) /\ (w.fp.dirty => w.fp.dsect >= database)
    BY <1>1, <1>2, Zenon DEF Kin
  <2> QED BY <1>2, <2>1, HandKin
<1> QED BY <1>2, <1>3

LEMMA HandValue ==
    ASSUME NEW m, NEW n, NEW o, NEW L, NEW T, NEW q, Hand(m, n, o, L, T, q), NEW x \in Int
    PROVE  LET w == Value(m, x) IN
           Hand(w, n, o, L, T, q) /\ w.fp = m.fp /\ w.res = m.res /\ w.val = x /\ Fat(Seen(w)) = Fat(Seen(m))
<1> DEFINE w == Value(m, x)
<1>1. m \in Machines /\ m.fp \in OpenFile /\ (m.fp.dirty => m.fp.dsect >= database) /\ Sound(m)
  BY HandPlain
<1>2. Local(m, w) /\ w.fp = m.fp /\ w.res = m.res /\ w.val = x
  BY <1>1, ValueLocal
<1>3. Hand(w, n, o, L, T, q) /\ Fat(Seen(w)) = Fat(Seen(m))
  <2> HIDE DEF w
  <2>1. Kin(m.fp, w.fp) /\ (w.fp.dirty => w.fp.dsect >= database)
    BY <1>1, <1>2, Zenon DEF Kin
  <2> QED BY <1>1, <1>2, <2>1, HandKin, LocalFacts
<1> QED BY <1>2, <1>3

\* get_fat on the file's own chain gives the next cluster, or its end.
LEMMA HandGet ==
    ASSUME NEW m, NEW n, NEW o, NEW L, NEW T, NEW q, Hand(m, n, o, L, T, q), NEW c \in Cluster, q.own[c] = q.al[n]
    PROVE  LET w == get_fat(m, c) IN
           /\ Hand(w, n, o, L, T, q) /\ w.fp = m.fp /\ Fat(Seen(w)) = Fat(Seen(m))
           /\ \/ w.res = "FR_DISK_ERR" /\ w.val = DiskErr
              \/ w.res = "FR_OK" /\ w.val = EndOfChain /\ Fat(Seen(m))[c] = EndOfChain
              \/ w.res = "FR_OK" /\ w.val \in Cluster /\ q.own[w.val] = q.al[n] /\ q.idx[w.val] = q.idx[c] + 1
                 /\ Fat(Seen(m))[c] = w.val
<1> DEFINE w == get_fat(m, c)
           o1 == [o EXCEPT ![n] = Parked(m.fp)]
<1>0. HandParts(m, n, o, L, T, q, o1, Dir(Seen(m)))
  BY HandFacts
<1>1. InOrder(m, o1, L, T, {}, q) /\ Holds(Fat(Seen(m)), Dir(Seen(m)), o1, L, T, {}, q) /\ q \in Certificate /\ n \in Name
  BY <1>0, Zenon DEF HandParts, Hand
<1>2. /\ InOrder(w, o1, L, T, {}, q) /\ Keeps(m, w) /\ Passes(m, w)
      /\ \/ w.res = "FR_OK" /\ w.val = Fat(Seen(m))[c]
         \/ w.res = "FR_DISK_ERR" /\ w.val = DiskErr
  <2> HIDE DEF o1
  <2> QED BY <1>1, InOrderGet
<1>3. Chained(Fat(Seen(m)), q)
  BY <1>1, HoldsParts
<1>4. \/ Fat(Seen(m))[c] = EndOfChain
      \/ Fat(Seen(m))[c] \in Cluster /\ q.own[Fat(Seen(m))[c]] = q.al[n] /\ q.idx[Fat(Seen(m))[c]] = q.idx[c] + 1
  BY <1>1, <1>3, NextLink
<1> HIDE DEF w
<1>5. Hand(w, n, o, L, T, q)
  BY <1>2, HandFat DEF o1
<1>6. w.fp = m.fp /\ Seen(w) = Seen(m)
  BY <1>2, Zenon DEF Passes
<1> QED BY <1>2, <1>4, <1>5, <1>6, Zenon DEF w

\* Whole sectors lead from sector start to sector start.
LEMMA SectorEnds ==
    ASSUME NEW p \in Nat, p % SS = 0, NEW c \in Nat
    PROVE  (p + SS * c) % SS = 0
<1>1. SS \in Nat \ {0} /\ p \div SS \in Nat /\ p = SS * (p \div SS) + (p % SS)
  BY FatFsAssumption, DivParts
<1> DEFINE s == p \div SS
<1>2. p = SS * s
  <2> DEFINE x == SS * s
  <2>1. x \in Nat /\ p = x + 0
    BY <1>1, MulMono
  <2> HIDE DEF x
  <2>2. p = x
    BY <2>1
  <2> QED BY <2>2 DEF x
<1>3. SS * (s + c) = SS * s + SS * c
  BY <1>1
<1>4. (SS * (s + c) + 0) % SS = 0
  BY <1>1, DivUnique
<1>5. SS * (s + c) + 0 = SS * (s + c)
  BY <1>1
<1> QED BY <1>2, <1>3, <1>4, <1>5

\* Whole sectors past the buffer
LEMMA DirectSlid ==
    ASSUME NEW q \in Certificate, NEW n, NEW p \in OpenFile, Inside(q, n, p), p.fptr % SS = 0,
           NEW k \in Nat, k >= SS, NEW w, Slid(p, w, SS * Whole([fp |-> p], k))
    PROVE  Placed(q, n, w) /\ w.fptr <= p.fptr + k /\ (p.err = "FR_OK" => BufOK(w)) /\ w.fptr % SS = 0
<1> DEFINE c == Whole([fp |-> p], k)
           y == SS * c
           o == OffsetInCluster(p)
<1>0. p.fptr \in Nat /\ SS \in Nat \ {0} /\ CSize \in Nat \ {0}
  BY OpenFacts, FatFsAssumption
<1>1. c \in 1 .. (CSize - o) /\ o \in 0 .. CSize - 1 /\ y \in Nat /\ y <= k
  BY <1>0, WholeFacts
<1>2. y # 0 /\ y <= SS * (CSize - o)
  <2> HIDE DEF c, o
  <2>1. c \in Nat /\ CSize - o \in Nat /\ 1 <= c /\ c <= CSize - o /\ 1 \in Nat
    BY <1>0, <1>1
  <2>2. SS * c <= SS * (CSize - o) /\ SS * 1 <= SS * c
    BY <1>0, <2>1, MulMono
  <2>3. SS * 1 = SS
    BY <1>0
  <2> DEFINE z == SS * (CSize - o)
  <2> HIDE DEF y, z
  <2> QED BY <1>0, <1>1, <2>2, <2>3 DEF y, z
<1> HIDE DEF y, c, o
<1>3. Slid(p, w, y) /\ w.fptr = p.fptr + y
  BY DEF Slid, y, c
<1>4. Placed(q, n, w)
  BY <1>1, <1>2, <1>3, InsideSlid DEF o
<1>5. w.fptr <= p.fptr + k
  BY <1>0, <1>1, <1>3
<1>6. w.fptr % SS = 0
  <2>1. c \in Nat
    BY <1>1
  <2>2. (p.fptr + SS * c) % SS = 0
    BY <1>0, <2>1, SectorEnds
  <2> QED BY <1>3, <2>2, Zenon DEF y
<1>7. BufOK(w)
  BY <1>3, <1>6, Zenon DEF BufOK, Slid
<1> QED BY <1>4, <1>5, <1>6, <1>7

\* A part of the sector in the buffer, at the start of it
LEMMA StartSlid ==
    ASSUME NEW q \in Certificate, NEW n, NEW p \in OpenFile, Inside(q, n, p), p.fptr % SS = 0,
           NEW k \in Nat, k # 0, k <= SS, NEW w, Slid(p, w, k), w.dsect >= database
    PROVE  Placed(q, n, w) /\ BufOK(w)
<1>1. OffsetInCluster(p) \in 0 .. CSize - 1 /\ SS \in Nat \ {0} /\ CSize \in Nat \ {0}
  BY OpenFacts, FatFsAssumption, DivParts DEF OffsetInCluster
<1> DEFINE o == OffsetInCluster(p)
           z == SS * (CSize - o)
<1>2. SS <= z /\ z \in Nat
  <2> HIDE DEF o
  <2>1. CSize - o \in Nat /\ 1 <= CSize - o /\ 1 \in Nat
    BY <1>1 DEF o
  <2>2. SS * 1 <= z /\ z \in Nat
    BY <1>1, <2>1, MulMono
  <2>3. SS * 1 = SS
    BY <1>1
  <2> QED BY <2>2, <2>3
<1>3. k <= z
  <2> HIDE DEF z
  <2> QED BY <1>1, <1>2
<1>4. Placed(q, n, w)
  BY <1>3, InsideSlid
<1> QED BY <1>4, Zenon DEF BufOK

\* The part of f_read's loop behind the choice of the cluster.
ReadSector(f, btr) ==
    LET Direct(g, cc) == OrAbort(Access(g), LAMBDA a : ReadWhole(a, CurSect(g.fp), cc))
        Buffered(g, sect) ==
            OrAbort(IF g.fp.dsect = sect THEN Return(g, "FR_OK") ELSE LoadBuffer(g, sect),
                    LAMBDA l : Pick(l, btr)) IN
    IF btr >= SS THEN Direct(f, Whole(f, btr)) ELSE Buffered(f, CurSect(f.fp))

\* It reads within the cluster.
LEMMA ReadSectorFacts ==
    ASSUME NEW m, NEW n, NEW o, NEW L, NEW T, NEW q, Hand(m, n, o, L, T, q), m.fp.err = "FR_OK",
           Inside(q, n, m.fp), m.fp.fptr % SS = 0, NEW btr \in Nat, btr # 0
    PROVE  Fed(m, ReadSector(m, btr), n, o, L, T, q, m.fp.fptr + btr)
<1>1. m \in Machines /\ m.fp \in OpenFile /\ (m.fp.dirty => m.fp.dsect >= database) /\ q \in Certificate
  BY HandPlain
<1>2. /\ CurSect(m.fp) \in Nat /\ CurSect(m.fp) >= database /\ CurSect(m.fp) \in Sector
      /\ \A k \in 0 .. CSize - OffsetInCluster(m.fp) - 1 : CurSect(m.fp) + k \in Sector
  BY <1>1, InsideSector
<1>3. m.fp.fptr \in Nat /\ SS \in Nat \ {0} /\ CSize \in Nat \ {0}
  BY <1>1, OpenFacts, FatFsAssumption
<1>4. CASE btr >= SS
  <2> DEFINE cc == Whole(m, btr)
             a == Access(m)
             b == ReadWhole(a, CurSect(m.fp), cc)
  <2>1. ReadSector(m, btr) = IF a.res = "FR_OK" THEN b ELSE Abort(a, "FR_DISK_ERR")
    BY <1>4, Zenon DEF ReadSector, OrAbort
  <2>2. Local(m, a) /\ a \in Machines /\ a.fp = m.fp /\ a.val = m.val /\ a.data = m.data
    BY <1>1, AccessLocal
  <2> HIDE DEF a
  <2>3. Hand(a, n, o, L, T, q) /\ Kin(m.fp, a.fp)
    <3>1. Kin(m.fp, a.fp) /\ (a.fp.dirty => a.fp.dsect >= database)
      BY <1>1, <2>2, Zenon DEF Kin
    <3> QED BY <2>2, <3>1, HandKin
  <2>4. CASE a.res # "FR_OK"
    <3>1. Fed(a, Abort(a, "FR_DISK_ERR"), n, o, L, T, q, m.fp.fptr + btr)
      BY <2>3, FedAbort
    <3> QED BY <2>1, <2>3, <2>4, <3>1, FedAfter
  <2>5. CASE a.res = "FR_OK"
    <3>1. cc \in 1 .. (CSize - OffsetInCluster(m.fp)) /\ SS * cc \in Nat
      BY <1>3, <1>4, WholeFacts
    <3>2. cc = Whole([fp |-> m.fp], btr)
      BY Zenon DEF Whole
    <3> HIDE DEF cc
    <3>3. cc \in Nat /\ \A k \in 0 .. cc - 1 : CurSect(m.fp) + k \in Sector
      <4>1. OffsetInCluster(m.fp) \in 0 .. CSize - 1
        BY <1>3, DivParts DEF OffsetInCluster
      <4>2. \A k \in 0 .. cc - 1 : k \in 0 .. CSize - OffsetInCluster(m.fp) - 1
        BY <3>1, <4>1, <1>3
      <4> QED BY <3>1, <4>1, <4>2, <1>2, <1>3
    <3>4. Buffers(a, b, SS * cc) /\ b.fp.dsect = a.fp.dsect /\ b.res = a.res
      <4>1. a.fp \in OpenFile /\ (a.fp.dirty => a.fp.dsect >= database)
        BY <1>1, <2>2, Zenon
      <4> QED BY <2>2, <3>3, <4>1, <1>2, ReadWholeFacts
    <3> HIDE DEF b
    <3>5. Hand(b, n, o, L, T, q) /\ Kin(a.fp, b.fp)
      BY <2>3, <3>4, HandBuffers
    <3>6. Slid(m.fp, b.fp, SS * Whole([fp |-> m.fp], btr))
      BY <2>2, <3>2, <3>4, Zenon DEF Buffers
    <3>7. Placed(q, n, b.fp) /\ b.fp.fptr <= m.fp.fptr + btr /\ (m.fp.err = "FR_OK" => BufOK(b.fp))
      BY <1>1, <1>4, <3>6, DirectSlid
    <3>8. b.fp.err = "FR_OK"
      BY <3>6, Zenon DEF Slid
    <3>9. Fed(a, b, n, o, L, T, q, m.fp.fptr + btr)
      BY <3>5, <3>7, <3>8, Zenon DEF Fed
    <3> QED BY <2>1, <2>3, <2>5, <3>9, FedAfter
  <2> QED BY <2>4, <2>5
<1>5. CASE ~(btr >= SS)
  <2> DEFINE sect == CurSect(m.fp)
             a == IF m.fp.dsect = sect THEN Return(m, "FR_OK") ELSE LoadBuffer(m, sect)
             b == Pick(a, btr)
  <2>1. ReadSector(m, btr) = IF a.res = "FR_OK" THEN b ELSE Abort(a, "FR_DISK_ERR")
    BY <1>5, Zenon DEF ReadSector, OrAbort
  <2>2. Buffers(m, a, 0) /\ (a.res = "FR_OK" => a.fp.dsect = sect)
    <3>1. CASE m.fp.dsect = sect
      <4>1. Hand(Return(m, "FR_OK"), n, o, L, T, q) /\ Return(m, "FR_OK").fp = m.fp /\ Return(m, "FR_OK").val = m.val
            /\ Local(m, Return(m, "FR_OK"))
        BY <1>1, OkResult, HandReturn, ReturnLocal
      <4>2. Slid(m.fp, m.fp, 0)
        BY <1>1, SlidRefl
      <4>3. a = Return(m, "FR_OK")
        BY <3>1
      <4> HIDE DEF a
      <4> QED BY <3>1, <4>1, <4>2, <4>3, Zenon DEF Buffers
    <3>2. CASE m.fp.dsect # sect
      <4>1. LET w == LoadBuffer(m, sect) IN Buffers(m, w, 0) /\ (w.res = "FR_OK" => w.fp.dsect = sect)
        BY <1>1, <1>2, LoadBufferFacts
      <4> QED BY <3>2, <4>1
    <3> QED BY <3>1, <3>2
  <2> HIDE DEF a
  <2>3. Hand(a, n, o, L, T, q) /\ Kin(m.fp, a.fp)
    BY <2>2, HandBuffers
  <2>4. CASE a.res # "FR_OK"
    <3>1. Fed(a, Abort(a, "FR_DISK_ERR"), n, o, L, T, q, m.fp.fptr + btr)
      BY <2>3, FedAbort
    <3> QED BY <2>1, <2>3, <2>4, <3>1, FedAfter
  <2>5. CASE a.res = "FR_OK"
    <3>1. a \in Machines /\ a.fp \in OpenFile /\ (a.fp.dirty => a.fp.dsect >= database) /\ a.fp.fptr = m.fp.fptr
      <4>1. a.fp.fptr = m.fp.fptr + 0
        BY <2>2 DEF Buffers, Slid
      <4> QED BY <2>3, <4>1, <1>3, HandPlain
    <3>2. Buffers(a, b, btr) /\ b.fp.dsect = a.fp.dsect
      <4>1. btr <= SS - (a.fp.fptr % SS)
        BY <1>3, <1>5, <3>1
      <4> QED BY <3>1, <4>1, PickFacts
    <3> HIDE DEF b
    <3>3. Hand(b, n, o, L, T, q) /\ Kin(a.fp, b.fp)
      BY <2>3, <3>2, HandBuffers
    <3>4. Slid(m.fp, b.fp, btr)
      <4>1. 0 + btr = btr /\ 0 \in Nat
        OBVIOUS
      <4>2. Slid(m.fp, a.fp, 0) /\ Slid(a.fp, b.fp, btr)
        BY <2>2, <3>2, Zenon DEF Buffers
      <4>3. Slid(m.fp, b.fp, 0 + btr)
        BY <4>1, <4>2, <1>3, SlidTrans
      <4> QED BY <4>1, <4>3
    <3>5. b.fp.dsect >= database
      BY <1>2, <2>2, <2>5, <3>2
    <3>6. Placed(q, n, b.fp) /\ BufOK(b.fp)
      <4>1. btr <= SS
        BY <1>3, <1>5
      <4> QED BY <1>1, <3>4, <3>5, <4>1, StartSlid
    <3>7. b.fp.err = "FR_OK" /\ b.fp.fptr <= m.fp.fptr + btr
      <4>1. b.fp.fptr = m.fp.fptr + btr /\ b.fp.err = m.fp.err
        BY <3>4, Zenon DEF Slid
      <4> QED BY <4>1, <1>3
    <3>8. Fed(a, b, n, o, L, T, q, m.fp.fptr + btr)
      BY <3>3, <3>6, <3>7, Zenon DEF Fed
    <3> QED BY <2>1, <2>3, <2>5, <3>8, FedAfter
  <2> QED BY <2>4, <2>5
<1> QED BY <1>4, <1>5

\* The place at which u stands in the chain of n holds the position of p
Reached(q, n, p, u) ==
    u \in Cluster /\ q.own[u] = q.al[n] /\ q.idx[u] * Bytes <= p.fptr /\ p.fptr < (q.idx[u] + 1) * Bytes

\* The cluster the pointer is about to enter.
LEMMA ReachedNew ==
    ASSUME NEW q \in Certificate, NEW n, NEW p, NEW u \in Cluster, q.own[u] = q.al[n],
           p.fptr = q.idx[u] * Bytes
    PROVE  Reached(q, n, p, u)
<1>1. Inside(q, n, [clust |-> u, fptr |-> p.fptr])
  BY InsideNew
<1> QED BY <1>1 DEF Inside, Reached

LEMMA ReachedMid ==
    ASSUME NEW q \in Certificate, NEW n, NEW p \in OpenFile, Placed(q, n, p), p.fptr % SS = 0, OffsetInCluster(p) # 0
    PROVE  Reached(q, n, p, p.clust)
<1>1. Inside(q, n, p)
  BY InsideMid
<1> QED BY <1>1, Zenon DEF Inside, Reached

LEMMA ReachedRoot ==
    ASSUME NEW q \in Certificate, NEW n, NEW p \in OpenFile, p.fptr = 0, NEW z, RootedAt(q, n, p.sclust, z), p.sclust # 0
    PROVE  Reached(q, n, p, p.sclust)
<1>1. p.sclust \in Cluster /\ q.own[p.sclust] = q.al[n] /\ q.idx[p.sclust] = 0
  BY DEF RootedAt
<1>2. 0 * Bytes = 0
  BY BytesNat
<1> QED BY <1>1, <1>2, ReachedNew

\* The pointer enters it.
LEMMA HandEnter ==
    ASSUME NEW m, NEW n, NEW o, NEW L, NEW T, NEW q, Hand(m, n, o, L, T, q), NEW u, Reached(q, n, m.fp, u)
    PROVE  LET w == [m EXCEPT !.fp.clust = u] IN
           /\ Hand(w, n, o, L, T, q) /\ Kin(m.fp, w.fp) /\ Inside(q, n, w.fp) /\ w.fp.err = m.fp.err
           /\ w.fp.fptr = m.fp.fptr /\ w.fp.dsect = m.fp.dsect /\ w.res = m.res /\ w.val = m.val
<1> DEFINE p == [m.fp EXCEPT !.clust = u]
           w == [m EXCEPT !.fp = p]
<1>1. m \in Machines /\ m.fp \in OpenFile /\ (m.fp.dirty => m.fp.dsect >= database)
  BY HandPlain
<1>2. u \in Cluster
  BY DEF Reached
<1>3. /\ p \in OpenFile /\ p.slot = m.fp.slot /\ p.mode = m.fp.mode /\ p.sclust = m.fp.sclust
      /\ p.fsize = m.fp.fsize /\ p.written = m.fp.written /\ p.err = m.fp.err /\ p.dirty = m.fp.dirty /\ p.dsect = m.fp.dsect
      /\ p.fptr = m.fp.fptr /\ p.clust = u
  BY <1>1, <1>2 DEF OpenFile
<1> HIDE DEF p
<1>4. Local(m, w) /\ w.fp = p /\ w.res = m.res /\ w.val = m.val
  BY <1>1, <1>3, WithFile
<1>5. w = [m EXCEPT !.fp.clust = u]
  BY Zenon DEF p
<1> HIDE DEF w
<1>6. Kin(m.fp, w.fp) /\ (w.fp.dirty => w.fp.dsect >= database)
  BY <1>1, <1>3, <1>4, Zenon DEF Kin
<1>7. Hand(w, n, o, L, T, q)
  BY <1>4, <1>6, HandKin
<1>8. Inside(q, n, w.fp)
  BY <1>3, <1>4, Zenon DEF Inside, Reached
<1> QED BY <1>3, <1>4, <1>5, <1>6, <1>7, <1>8, Zenon

\* The cluster that f_read goes on in
LEMMA ReadTarget ==
    ASSUME NEW m, NEW n, NEW o, NEW L, NEW T, NEW q, Hand(m, n, o, L, T, q), Placed(q, n, m.fp), m.fp.fptr % SS = 0
    PROVE  LET c == AtCluster(m, FollowRead) IN
           /\ Hand(c, n, o, L, T, q) /\ c.fp = m.fp
           /\ c.val \in Cluster => Reached(q, n, m.fp, c.val)
<1> DEFINE c == AtCluster(m, FollowRead)
           p == m.fp
<1>1. m \in Machines /\ p \in OpenFile /\ q \in Certificate /\ RootedAt(q, n, p.sclust, p.fsize)
  BY HandPlain
<1>2. p.sclust \in Int /\ p.clust \in Int /\ (p.sclust \in {0} \union Cluster) /\ p.fptr \in Nat
  <2>1. p.sclust \in {0} \union Cluster /\ p.clust \in {0} \union Cluster /\ p.fptr \in Nat
    BY <1>1, OpenFacts
  <2> HIDE DEF p
  <2>2. {0} \union Cluster \subseteq Int
    BY LayoutFacts
  <2> QED BY <2>1, <2>2
<1>3. CASE OffsetInCluster(p) # 0
  <2>1. c = Value(m, p.clust)
    BY <1>3, Zenon DEF AtCluster
  <2>2. Reached(q, n, p, p.clust)
    BY <1>1, <1>3, ReachedMid
  <2>3. LET w == Value(m, p.clust) IN Hand(w, n, o, L, T, q) /\ w.fp = m.fp /\ w.val = p.clust
    BY <1>2, HandValue
  <2> QED BY <2>1, <2>2, <2>3, Zenon
<1>4. CASE OffsetInCluster(p) = 0 /\ p.fptr = 0
  <2>1. c = Value(m, p.sclust)
    BY <1>4, Zenon DEF AtCluster, FollowRead
  <2>2. p.sclust \in Cluster => Reached(q, n, p, p.sclust)
    BY <1>1, <1>4, ReachedRoot, ClusterFacts
  <2>3. LET w == Value(m, p.sclust) IN Hand(w, n, o, L, T, q) /\ w.fp = m.fp /\ w.val = p.sclust
    BY <1>2, HandValue
  <2> QED BY <2>1, <2>2, <2>3, Zenon
<1>5. CASE OffsetInCluster(p) = 0 /\ p.fptr # 0
  <2>1. c = get_fat(m, p.clust)
    BY <1>5, Zenon DEF AtCluster, FollowRead
  <2>2. /\ p.clust \in Cluster /\ q.own[p.clust] = q.al[n] /\ q.idx[p.clust] \in Nat
        /\ p.fptr = (q.idx[p.clust] + 1) * Bytes
    BY <1>1, <1>5, AtNext
  <2>3. /\ Hand(c, n, o, L, T, q) /\ c.fp = m.fp
        /\ c.val \in Cluster => q.own[c.val] = q.al[n] /\ q.idx[c.val] = q.idx[p.clust] + 1
    <3> DEFINE g == get_fat(m, p.clust)
    <3>1. /\ Hand(g, n, o, L, T, q) /\ g.fp = m.fp
          /\ \/ g.val = DiskErr
             \/ g.val = EndOfChain
             \/ g.val \in Cluster /\ q.own[g.val] = q.al[n] /\ q.idx[g.val] = q.idx[p.clust] + 1
      BY <2>2, HandGet
    <3> HIDE DEF g
    <3>2. g.val \in Cluster => q.own[g.val] = q.al[n] /\ q.idx[g.val] = q.idx[p.clust] + 1
      BY <3>1, ClusterFacts
    <3> QED BY <2>1, <3>1, <3>2, Zenon DEF g
  <2> HIDE DEF c
  <2>4. c.val \in Cluster => Reached(q, n, p, c.val)
    BY <1>1, <2>2, <2>3, ReachedNew
  <2> QED BY <2>3, <2>4 DEF c
<1> QED BY <1>3, <1>4, <1>5

\* One round of f_read's loop.
LEMMA ReadRoundFacts ==
    ASSUME NEW m, NEW n, NEW o, NEW L, NEW T, NEW q, NEW end \in Nat, Fed(m, m, n, o, L, T, q, end)
    PROVE  Fed(m, ReadRound(m, end), n, o, L, T, q, end)
<1> DEFINE btr == end - m.fp.fptr
           c == AtCluster(m, FollowRead)
           e == [c EXCEPT !.fp.clust = c.val]
           u == Pick(m, Rest(m, btr))
<1>1. ReadRound(m, end) =
        IF m.res # "FR_OK" \/ btr = 0 THEN m
        ELSE IF m.fp.fptr % SS # 0 THEN u
        ELSE IF c.val = DiskErr THEN Abort(c, "FR_DISK_ERR")
        ELSE IF c.val \notin Cluster THEN Abort(c, "FR_INT_ERR") ELSE ReadSector(e, btr)
  BY Zenon DEF ReadRound, ReadSector
<1>2. CASE m.res # "FR_OK" \/ btr = 0
  BY <1>1, <1>2
<1>3. CASE ~(m.res # "FR_OK" \/ btr = 0)
  <2>1. m.fp.err = "FR_OK" /\ Placed(q, n, m.fp) /\ BufOK(m.fp) /\ m.fp.fptr <= end /\ Hand(m, n, o, L, T, q)
    BY <1>3, Zenon DEF Fed
  <2>2. m \in Machines /\ m.fp \in OpenFile /\ (m.fp.dirty => m.fp.dsect >= database) /\ q \in Certificate
    BY <2>1, HandPlain
  <2>3. m.fp.fptr \in Nat /\ SS \in Nat \ {0} /\ btr \in Nat /\ btr # 0 /\ m.fp.fptr + btr = end
    BY <1>3, <2>1, <2>2, OpenFacts, FatFsAssumption
  <2>4. CASE m.fp.fptr % SS # 0
    <3> DEFINE k == Rest(m, btr)
               x == m.fp.fptr % SS
    <3>1. k = IF btr < SS - x THEN btr ELSE SS - x
      BY DEF Rest
    <3>2. x \in 0 .. SS - 1
      BY <2>3, DivParts
    <3> HIDE DEF btr, x
    <3>3. k \in Nat /\ k <= SS - x /\ k <= btr
      BY <2>3, <3>1, <3>2
    <3> HIDE DEF k
    <3>4. LET w == Pick(m, k) IN Buffers(m, w, k) /\ w.fp.dsect = m.fp.dsect
      BY <2>2, <3>3, PickFacts DEF x
    <3>5. Buffers(m, u, k) /\ u.fp.dsect = m.fp.dsect
      BY <3>4, Zenon DEF k
    <3> HIDE DEF u
    <3>6. Hand(u, n, o, L, T, q) /\ Kin(m.fp, u.fp)
      BY <2>1, <3>5, HandBuffers
    <3>7. Slid(m.fp, u.fp, k)
      BY <3>5, Zenon DEF Buffers
    <3>8. Placed(q, n, u.fp)
      BY <2>1, <2>2, <2>4, <3>3, <3>7, MidSlid DEF x
    <3>9. u.fp.err = "FR_OK" /\ u.fp.fptr <= end
      <4>1. u.fp.fptr = m.fp.fptr + k /\ u.fp.err = m.fp.err
        BY <3>7, Zenon DEF Slid
      <4> QED BY <2>1, <2>3, <3>3, <4>1
    <3>10. BufOK(u.fp)
      BY <2>1, <2>4, <3>5, <3>7, Zenon DEF BufOK, Slid
    <3> QED BY <1>1, <1>3, <2>4, <3>6, <3>8, <3>9, <3>10, Zenon DEF Fed
  <2>5. CASE m.fp.fptr % SS = 0
    <3>1. /\ Hand(c, n, o, L, T, q) /\ c.fp = m.fp
          /\ c.val \in Cluster => Reached(q, n, m.fp, c.val)
      BY <2>1, <2>5, ReadTarget
    <3>2. Kin(m.fp, c.fp)
      BY <2>2, <3>1, Zenon DEF Kin
    <3> HIDE DEF c, btr, u
    <3>3. CASE c.val \notin Cluster
      <4>1. ReadRound(m, end) \in {Abort(c, "FR_DISK_ERR"), Abort(c, "FR_INT_ERR")}
        BY <1>1, <1>3, <2>5, <3>3, ClusterFacts
      <4>2. Fed(c, ReadRound(m, end), n, o, L, T, q, end)
        BY <3>1, <4>1, FedAbort
      <4> QED BY <3>2, <4>2, FedAfter
    <3>4. CASE c.val \in Cluster
      <4>1. Hand(e, n, o, L, T, q) /\ Kin(c.fp, e.fp) /\ Inside(q, n, e.fp) /\ e.fp.err = c.fp.err /\ e.fp.fptr = c.fp.fptr
        BY <3>1, <3>4, HandEnter
      <4> HIDE DEF e
      <4>2. Kin(m.fp, e.fp)
        BY <3>1, <4>1
      <4>3. Fed(e, ReadSector(e, btr), n, o, L, T, q, e.fp.fptr + btr)
        BY <2>1, <2>3, <2>5, <3>1, <4>1, ReadSectorFacts
      <4>4. e.fp.fptr + btr = end
        BY <2>3, <3>1, <4>1
      <4>5. ReadRound(m, end) = ReadSector(e, btr)
        BY <1>1, <1>3, <2>5, <3>4, ClusterFacts
      <4> QED BY <4>2, <4>3, <4>4, <4>5, FedAfter
    <3> QED BY <3>3, <3>4
  <2> QED BY <2>4, <2>5
<1> QED BY <1>2, <1>3

\* All of them.
LEMMA ReadLoopFacts ==
    ASSUME NEW m, NEW f, NEW o, NEW L, NEW T, NEW q, Hand(m, f, o, L, T, q), m.fp.err = "FR_OK",
           Placed(q, f, m.fp), BufOK(m.fp), NEW btr \in Nat
    PROVE  Fed(m, ReadLoop(m, btr), f, o, L, T, q, m.fp.fptr + btr)
<1> DEFINE n == btr
           h == Return(m, "FR_OK")
           end == m.fp.fptr + btr
           J == {w \in Machines : Fed(m, w, f, o, L, T, q, end)}
           S == [k \in 0 .. n |-> J]
<1>1. n \in Nat
  OBVIOUS
<1>2. m.fp \in OpenFile /\ end \in Nat /\ m.fp.fptr <= end
  BY HandPlain, OpenFacts
<1>3. h \in J
  <2>1. Hand(h, f, o, L, T, q) /\ h.fp = m.fp /\ h.res = "FR_OK"
    BY HandReturn, OkResult
  <2> HIDE DEF h, end
  <2>2. h \in Machines /\ Kin(m.fp, h.fp)
    BY <1>2, <2>1, HandPlain, Zenon DEF Kin
  <2> QED BY <1>2, <2>1, <2>2, Zenon DEF Fed
<1>4. \A w \in J : ReadRound(w, m.fp.fptr + btr) \in J
  <2> SUFFICES ASSUME NEW w \in J PROVE ReadRound(w, end) \in J
    BY DEF end
  <2> DEFINE u == ReadRound(w, end)
  <2>1. Fed(m, w, f, o, L, T, q, end)
    OBVIOUS
  <2> HIDE DEF end
  <2>2. Kin(w.fp, w.fp)
    BY <2>1, Zenon DEF Fed, Kin
  <2>3. Fed(w, w, f, o, L, T, q, end)
    BY <2>1, <2>2, Zenon DEF Fed
  <2>4. Fed(w, u, f, o, L, T, q, end)
    BY <1>2, <2>3, ReadRoundFacts
  <2> HIDE DEF u
  <2>5. Fed(m, u, f, o, L, T, q, end)
    <3>1. Kin(m.fp, w.fp)
      BY <2>1, Zenon DEF Fed
    <3> QED BY <2>4, <3>1, FedAfter
  <2>6. u \in Machines
    BY <2>5, HandPlain DEF Fed
  <2> QED BY <2>5, <2>6 DEF u
<1>5. \A k \in 0 .. n : S[k] = J
  OBVIOUS
<1>6. J \subseteq Machines
  OBVIOUS
<1> HIDE DEF S, n, J, h
<1>7. h \in S[0]
  <2>1. 0 \in 0 .. n
    BY <1>1
  <2> QED BY <2>1, <1>3, <1>5, Zenon
<1>8. \A k \in 1 .. n : \A w \in S[k - 1] : ReadRound(w, m.fp.fptr + btr) \in S[k]
  <2>1. \A k \in 1 .. n : S[k - 1] = J /\ S[k] = J
    BY <1>1, <1>5
  <2> TAKE k \in 1 .. n
  <2> TAKE w \in S[k - 1]
  <2>2. w \in J /\ S[k] = J
    BY <2>1
  <2>3. ReadRound(w, m.fp.fptr + btr) \in J
    BY <2>2, <1>4
  <2> QED BY <2>2, <2>3, Zenon
<1>9. \A k \in 0 .. n : S[k] \subseteq Machines
  BY <1>5, <1>6
<1> DEFINE g == [p \in Machines \X (1 .. n) |-> ReadRound(p[1], m.fp.fptr + btr)]
<1>10. \A k \in 1 .. n : \A w \in Machines : g[<<w, k>>] = ReadRound(w, m.fp.fptr + btr)
  OBVIOUS
<1> HIDE DEF g
<1>11. \E r : RunOf(n, S, h, g, r)
  <2>1. Steady(n, S, g)
    <3>1. \A k \in 1 .. n : \A w \in S[k - 1] : w \in Machines
      BY <1>1, <1>9
    <3> QED BY <3>1, <1>8, <1>10, Zenon DEF Steady
  <2> QED BY <1>1, <1>7, <2>1, RunExists
<1> DEFINE R == CHOOSE R : R = [k \in 0 .. n |-> IF k = 0 THEN h ELSE ReadRound(R[k - 1], m.fp.fptr + btr)]
<1>12. R = [k \in 0 .. n |-> IF k = 0 THEN h ELSE ReadRound(R[k - 1], m.fp.fptr + btr)]
  <2>1. PICK r : RunOf(n, S, h, g, r)
    BY <1>11, Zenon
  <2>2. \A k \in 0 .. n : k # 0 => g[<<r[k - 1], k>>] = ReadRound(r[k - 1], m.fp.fptr + btr)
    <3> TAKE k \in 0 .. n
    <3>1. k # 0 => k \in 1 .. n /\ k - 1 \in 0 .. n
      BY <1>1
    <3> QED BY <2>1, <3>1, <1>9, <1>10, Zenon DEF RunOf
  <2>3. r = [k \in 0 .. n |-> IF k = 0 THEN h ELSE ReadRound(r[k - 1], m.fp.fptr + btr)]
    <3> DEFINE a == [k \in 0 .. n |-> IF k = 0 THEN h ELSE g[<<r[k - 1], k>>]]
               b == [k \in 0 .. n |-> IF k = 0 THEN h ELSE ReadRound(r[k - 1], m.fp.fptr + btr)]
    <3>1. \A k \in 0 .. n : a[k] = b[k]
      BY <2>2
    <3>2. a = b
      BY <3>1
    <3>3. r = a
      BY <2>1, Zenon DEF RunOf
    <3> QED BY <3>2, <3>3, Zenon
  <2> QED BY <2>3, Zenon
<1>13. ReadLoop(m, btr) = R[n]
  BY Zenon DEF ReadLoop, Loop, h, n
<1> HIDE DEF R
<1>14. \A k \in 0 .. n : R[k] \in S[k]
  <2>1. R[0] = h /\ \A k \in 1 .. n : R[k] = ReadRound(R[k - 1], m.fp.fptr + btr)
    BY <1>1, <1>12
  <2>2. R[0] \in S[0]
    BY <2>1, <1>7
  <2>3. \A k \in 1 .. n : R[k - 1] \in S[k - 1] => R[k] \in S[k]
    BY <2>1, <1>8, Zenon
  <2> QED BY <1>1, <2>2, <2>3, RunInduct
<1>15. ReadLoop(m, btr) \in S[n]
  <2>1. n \in 0 .. n
    BY <1>1
  <2> QED BY <1>13, <1>14, <2>1, Zenon
<1>16. ReadLoop(m, btr) \in J
  <2>1. n \in 0 .. n
    BY <1>1
  <2> QED BY <2>1, <1>5, <1>15, Zenon
<1> QED BY <1>16, Zenon DEF J

\* What a call on the open file n leaves: the volume is in order, and the position of the file is
\* right unless the call has given the file up
Kept(m, w, n, o, L, T, q) ==
    /\ Hand(w, n, o, L, T, q) /\ w.fp.slot = m.fp.slot
    /\ w.fp.err = "FR_OK" => Placed(q, n, w.fp) /\ BufOK(w.fp) /\ w.fp.fptr <= w.fp.fsize

\* f_read keeps the invariant.
LEMMA ReadFacts ==
    ASSUME NEW m, NEW n, NEW o, NEW L, NEW T, NEW q, Kept(m, m, n, o, L, T, q), NEW btr \in Nat
    PROVE  Kept(m, f_read(m, btr), n, o, L, T, q) /\ Kin(m.fp, f_read(m, btr).fp)
<1> DEFINE remain == m.fp.fsize - m.fp.fptr
           k == IF btr > remain THEN remain ELSE btr
           w == f_read(m, btr)
           l == ReadLoop(m, k)
<1>1. Hand(m, n, o, L, T, q) /\ m.fp \in OpenFile
  BY HandPlain DEF Kept
<1>2. w = IF m.fp.err # "FR_OK" THEN Return(m, m.fp.err)
          ELSE IF "READ" \notin m.fp.mode THEN Return(m, "FR_DENIED") ELSE l
  BY Zenon DEF f_read
<1>3. CASE m.fp.err # "FR_OK" \/ "READ" \notin m.fp.mode
  <2>1. PICK x \in Result : w = Return(m, x)
    <3>1. m.fp.err \in Result /\ "FR_DENIED" \in Result
      BY <1>1, OpenFacts, OkResult
    <3> QED BY <1>2, <1>3, <3>1
  <2>2. LET r == Return(m, x) IN Hand(r, n, o, L, T, q) /\ r.fp = m.fp
    BY <1>1, HandReturn
  <2> QED BY <1>1, <2>1, <2>2, Zenon DEF Kept, Kin
<1>4. CASE m.fp.err = "FR_OK" /\ "READ" \in m.fp.mode
  <2>1. Placed(q, n, m.fp) /\ BufOK(m.fp) /\ m.fp.fptr <= m.fp.fsize
    BY <1>4, Zenon DEF Kept
  <2>2. m.fp.fptr \in Nat /\ m.fp.fsize \in Nat
    BY <1>1, OpenFacts
  <2>3. k \in Nat /\ m.fp.fptr + k <= m.fp.fsize
    BY <2>1, <2>2
  <2> HIDE DEF k
  <2>4. Fed(m, l, n, o, L, T, q, m.fp.fptr + k)
    BY <1>1, <1>4, <2>1, <2>3, ReadLoopFacts
  <2> HIDE DEF l
  <2>5. l.fp.slot = m.fp.slot /\ l.fp.fsize = m.fp.fsize /\ l.fp \in OpenFile
    BY <2>4, Zenon DEF Fed, Kin
  <2>6. l.fp.err = "FR_OK" => Placed(q, n, l.fp) /\ BufOK(l.fp) /\ l.fp.fptr <= m.fp.fptr + k
    BY <2>4, Zenon DEF Fed
  <2>7. l.fp.err = "FR_OK" => l.fp.fptr <= l.fp.fsize
    BY <2>2, <2>3, <2>5, <2>6, OpenFacts
  <2> QED BY <1>2, <1>4, <2>4, <2>5, <2>6, <2>7, Zenon DEF Kept, Fed
<1> QED BY <1>3, <1>4

-------------------------------------------------------------------------------
(* f_write: a cluster is linked behind the chain before the pointer enters it *)

\* w is the object p, and its first cluster may be a new one
Kith(p, w) == w \in OpenFile /\ w.slot = p.slot /\ w.mode = p.mode /\ w.fsize = p.fsize /\ w.written = p.written

\* What f_write's rounds leave: the file in hand under a certificate that may have grown.
Wrote(m, w, n, o, L, T, lo, hi) ==
    \E r : /\ Hand(w, n, o, L, T, r) /\ Kith(m.fp, w.fp)
           /\ \/ w.fp.err = "FR_OK" /\ w.res = "FR_OK" /\ Placed(r, n, w.fp) /\ BufOK(w.fp) /\ lo <= w.fp.fptr /\ w.fp.fptr <= hi
              \/ w.fp.err # "FR_OK" /\ w.res # "FR_OK"

\* What f_write and f_lseek leave of a FIL.
LEMMA KithTrans ==
    ASSUME NEW p, NEW w, NEW u, Kith(p, w), Kith(w, u) \/ Kin(w, u)
    PROVE  Kith(p, u)
BY Zenon DEF Kith, Kin

\* A write that aborts.
LEMMA WroteAbort ==
    ASSUME NEW m, NEW w, NEW n, NEW o, NEW L, NEW T, NEW q, Hand(w, n, o, L, T, q), Kith(m.fp, w.fp),
           NEW r \in {"FR_DISK_ERR", "FR_INT_ERR"}, NEW lo, NEW hi
    PROVE  Wrote(m, Abort(w, r), n, o, L, T, lo, hi)
<1>1. r \in Result /\ r # "FR_OK"
  BY DEF Result
<1> DEFINE u == Abort(w, r)
<1>2. Hand(u, n, o, L, T, q) /\ Kin(w.fp, u.fp) /\ u.fp.err = r /\ u.res = r
  BY <1>1, HandAbort
<1> HIDE DEF u
<1>3. Kith(m.fp, u.fp)
  BY <1>2, KithTrans
<1>4. Wrote(m, u, n, o, L, T, lo, hi)
  BY <1>1, <1>2, <1>3, Zenon DEF Wrote
<1> QED BY <1>4 DEF u

\* A write after a write.
LEMMA WroteAfter ==
    ASSUME NEW m, NEW u, NEW w, NEW n, NEW o, NEW L, NEW T, NEW lo, NEW hi, Kith(m.fp, u.fp), Wrote(u, w, n, o, L, T, lo, hi)
    PROVE  Wrote(m, w, n, o, L, T, lo, hi)
BY KithTrans, Zenon DEF Wrote

\* create_chain(0) for the file in hand.
LEMMA HandFresh ==
    ASSUME NEW m, NEW n, NEW o, NEW L, NEW T, NEW q, Hand(m, n, o, L, T, q)
    PROVE  LET w == create_chain(m, 0) IN
           /\ Hand(w, n, o, L, T, q) /\ w.fp = m.fp /\ w.val \in Answer
           /\ w.val \in Cluster => q.own[w.val] = NoName /\ Fat(Seen(w))[w.val] = EndOfChain
<1> DEFINE w == create_chain(m, 0)
           o1 == [o EXCEPT ![n] = Parked(m.fp)]
<1>0. HandParts(m, n, o, L, T, q, o1, Dir(Seen(m)))
  BY HandFacts
<1>1. InOrder(m, o1, L, T, {}, q)
  BY <1>0, Zenon DEF HandParts
<1>2. Fresh(m, w, o1, L, T, q)
  <2> HIDE DEF o1
  <2> QED BY <1>1, CreateFresh
<1>3. /\ InOrder(w, o1, L, T, {}, q) /\ Keeps(m, w) /\ w.val \in Answer
      /\ w.val \in Cluster => q.own[w.val] = NoName /\ Fat(Seen(w))[w.val] = EndOfChain
  BY <1>2, Zenon DEF Fresh
<1>4. Hand(w, n, o, L, T, q)
  <2> HIDE DEF w
  <2> QED BY <1>3, HandFat DEF o1
<1> QED BY <1>3, <1>4, Zenon DEF Keeps

\* A cluster linked behind the file's chain.
LinkedBehind(m, w, n, o, L, T, q, c, r) ==
    /\ Hand(w, n, o, L, T, r) /\ Grows(q, r)
    /\ w.val \in Cluster => w.res = "FR_OK" /\ r.own[w.val] = r.al[n] /\ r.idx[w.val] = q.idx[c] + 1

\* The pointer stays placed when the chain grows.
LEMMA PlacedGrows ==
    ASSUME NEW q \in Certificate, NEW r, Grows(q, r), NEW n \in Name, NEW p, Placed(q, n, p)
    PROVE  Placed(r, n, p)
<1>1. q.al[n] # NoName
  BY FatFsAssumption DEF Certificate
<1>2. r.al = q.al /\ \A c \in Cluster : q.own[c] = q.al[n] => r.own[c] = q.own[c] /\ r.idx[c] = q.idx[c]
  BY <1>1 DEF Grows
<1> QED BY <1>2 DEF Placed

\* create_chain(c) for the file in hand.
LEMMA HandBehind ==
    ASSUME NEW m, NEW n, NEW o, NEW L, NEW T, NEW q, Hand(m, n, o, L, T, q), NEW c \in Cluster, q.own[c] = q.al[n]
    PROVE  LET w == create_chain(m, c) IN
           w.fp = m.fp /\ w.val \in Answer /\ \E r : LinkedBehind(m, w, n, o, L, T, q, c, r)
<1> DEFINE w == create_chain(m, c)
           o1 == [o EXCEPT ![n] = Parked(m.fp)]
<1>0. HandParts(m, n, o, L, T, q, o1, Dir(Seen(m)))
  BY HandFacts
<1>1. InOrder(m, o1, L, T, {}, q) /\ n \in Name
  BY <1>0, Zenon DEF HandParts, Hand
<1>2. \E r : Longer(m, w, o1, L, T, q, n, c, r)
  <2> HIDE DEF o1
  <2> QED BY <1>1, CreateBehind
<1>3. PICK r : Longer(m, w, o1, L, T, q, n, c, r)
  BY <1>2
<1> HIDE DEF w
<1>4. /\ InOrder(w, o1, L, T, {}, r) /\ Keeps(m, w) /\ r.al = q.al /\ w.val \in Answer /\ Grows(q, r)
      /\ w.val \in Cluster => w.res = "FR_OK" /\ r.own[w.val] = q.al[n] /\ r.idx[w.val] = q.idx[c] + 1
  BY <1>3, Zenon DEF Longer, Grows
<1>5. Hand(w, n, o, L, T, r)
  BY <1>4, HandFat DEF o1
<1>6. LinkedBehind(m, w, n, o, L, T, q, c, r)
  BY <1>4, <1>5, Zenon DEF LinkedBehind
<1>7. w.fp = m.fp
  BY <1>4, Zenon DEF Keeps
<1> QED BY <1>4, <1>6, <1>7, Zenon DEF w

\* The cluster is entered, and is the first one when the file had none.
Entered(c) == [c EXCEPT !.fp.clust = c.val, !.fp.sclust = IF @ = 0 THEN c.val ELSE @]

\* Only the FIL changes.
LEMMA EnteredFacts ==
    ASSUME NEW c \in Machines, c.fp \in OpenFile, c.val \in Cluster
    PROVE  LET w == Entered(c) IN
           /\ Local(c, w) /\ Kith(c.fp, w.fp) /\ w.fp.sclust = (IF c.fp.sclust = 0 THEN c.val ELSE c.fp.sclust)
           /\ w.fp.clust = c.val /\ w.fp.err = c.fp.err /\ w.fp.dirty = c.fp.dirty /\ w.fp.dsect = c.fp.dsect
           /\ w.fp.fptr = c.fp.fptr /\ w.res = c.res
<1> DEFINE s == IF c.fp.sclust = 0 THEN c.val ELSE c.fp.sclust
           v == c.val
           p == [c.fp EXCEPT !.clust = v, !.sclust = s]
           u == [c EXCEPT !.fp = p]
<1>1. Entered(c) = u
  BY Zenon DEF Entered
<1>2. s \in {0} \union Cluster /\ v \in Cluster
  BY OpenFacts
<1> HIDE DEF s, v
<1>3. /\ p \in OpenFile /\ p.slot = c.fp.slot /\ p.mode = c.fp.mode /\ p.fsize = c.fp.fsize /\ p.written = c.fp.written
      /\ p.err = c.fp.err /\ p.dirty = c.fp.dirty /\ p.dsect = c.fp.dsect /\ p.fptr = c.fp.fptr /\ p.clust = v /\ p.sclust = s
  BY <1>2 DEF OpenFile
<1> HIDE DEF p
<1>4. Local(c, u) /\ u.fp = p /\ u.res = c.res
  BY <1>3, WithFile
<1> HIDE DEF u
<1>5. Kith(c.fp, p)
  BY <1>3, Zenon DEF Kith
<1> QED BY <1>1, <1>3, <1>4, <1>5, Zenon DEF s, v

\* The cluster that f_write goes on in, with it as the current and perhaps the first one of the file
Begun(m, c, n, o, L, T, r) ==
    IF c.val \in Cluster
    THEN /\ Hand(Entered(c), n, o, L, T, r) /\ Kith(m.fp, Entered(c).fp) /\ Inside(r, n, Entered(c).fp)
         /\ Entered(c).fp.err = m.fp.err /\ Entered(c).fp.fptr = m.fp.fptr
    ELSE Hand(c, n, o, L, T, r) /\ Placed(r, n, c.fp)

\* The target of a write in a file that has a chain.
LEMMA BegunKnown ==
    ASSUME NEW m, NEW c, NEW n, NEW o, NEW L, NEW T, NEW r, Hand(c, n, o, L, T, r), c.fp = m.fp, c.fp.sclust # 0,
           Placed(r, n, c.fp), c.val \in Cluster => Reached(r, n, c.fp, c.val)
    PROVE  Begun(m, c, n, o, L, T, r)
<1>1. c \in Machines /\ c.fp \in OpenFile /\ (c.fp.dirty => c.fp.dsect >= database)
  BY HandPlain
<1>2. CASE c.val \notin Cluster
  BY <1>2, Zenon DEF Begun
<1>3. CASE c.val \in Cluster
  <2> DEFINE w == Entered(c)
  <2>1. /\ Local(c, w) /\ Kith(c.fp, w.fp) /\ w.fp.sclust = c.fp.sclust
        /\ w.fp.clust = c.val /\ w.fp.err = c.fp.err /\ w.fp.dirty = c.fp.dirty /\ w.fp.dsect = c.fp.dsect
        /\ w.fp.fptr = c.fp.fptr
    BY <1>1, <1>3, EnteredFacts
  <2> HIDE DEF w
  <2>2. Kin(c.fp, w.fp) /\ (w.fp.dirty => w.fp.dsect >= database)
    BY <1>1, <2>1, Zenon DEF Kith, Kin
  <2>3. Hand(w, n, o, L, T, r)
    BY <2>1, <2>2, HandKin
  <2>4. Inside(r, n, w.fp)
    BY <1>3, <2>1, Zenon DEF Inside, Reached
  <2> QED BY <1>3, <2>1, <2>3, <2>4, Zenon DEF Begun, w
<1> QED BY <1>2, <1>3

\* The target of a write.
LEMMA WriteTarget ==
    ASSUME NEW m, NEW n, NEW o, NEW L, NEW T, NEW q, Hand(m, n, o, L, T, q), Placed(q, n, m.fp), m.fp.fptr % SS = 0
    PROVE  LET c == AtCluster(m, FollowWrite) IN
           c.fp = m.fp /\ c.val \in Answer /\ \E r : Begun(m, c, n, o, L, T, r)
<1> DEFINE c == AtCluster(m, FollowWrite)
           p == m.fp
<1>1. m \in Machines /\ p \in OpenFile /\ q \in Certificate /\ RootedAt(q, n, p.sclust, p.fsize) /\ (p.dirty => p.dsect >= database)
  BY HandPlain
<1>2. p.sclust \in {0} \union Cluster /\ p.clust \in {0} \union Cluster /\ p.fptr \in Nat
  BY <1>1, OpenFacts
<1>3. p.sclust = 0 => p.fptr = 0
  BY PlacedRoot
<1>4. CASE OffsetInCluster(p) # 0
  <2>1. c = Value(m, p.clust)
    BY <1>4, Zenon DEF AtCluster
  <2>2. Reached(q, n, p, p.clust)
    BY <1>1, <1>4, ReachedMid
  <2>3. p.sclust # 0 /\ p.clust \in Cluster /\ p.clust \in Int /\ p.clust \in Answer
    <3>1. p.clust \in Cluster
      BY <2>2, Zenon DEF Reached
    <3>2. p.fptr # 0
      <4>1. (0 \div SS) % CSize = 0
        <5>1. SS \in Nat \ {0} /\ CSize \in Nat \ {0} /\ 0 \in Nat /\ SS * 0 + 0 = 0 /\ CSize * 0 + 0 = 0 /\ 0 \in 0 .. SS - 1 /\ 0 \in 0 .. CSize - 1
          BY FatFsAssumption
        <5>2. (SS * 0 + 0) \div SS = 0 /\ (CSize * 0 + 0) % CSize = 0
          BY <5>1, DivUnique
        <5> QED BY <5>1, <5>2
      <4> QED BY <1>4, <4>1 DEF OffsetInCluster
    <3> HIDE DEF p
    <3> QED BY <1>3, <3>1, <3>2, LayoutFacts, AnswerFacts
  <2>4. LET w == Value(m, p.clust) IN Hand(w, n, o, L, T, q) /\ w.fp = m.fp /\ w.val = p.clust
    BY <2>3, HandValue
  <2>5. Hand(c, n, o, L, T, q) /\ c.fp = m.fp /\ c.val = p.clust
    BY <2>1, <2>4, Zenon
  <2> HIDE DEF c
  <2>6. Begun(m, c, n, o, L, T, q)
    BY <2>2, <2>3, <2>5, BegunKnown
  <2> QED BY <2>3, <2>5, <2>6 DEF c
<1>5. CASE OffsetInCluster(p) = 0 /\ p.fptr # 0
  <2>1. c = create_chain(m, p.clust)
    BY <1>5, Zenon DEF AtCluster, FollowWrite
  <2>2. /\ p.clust \in Cluster /\ q.own[p.clust] = q.al[n] /\ q.idx[p.clust] \in Nat
        /\ p.fptr = (q.idx[p.clust] + 1) * Bytes
    BY <1>1, <1>5, AtNext
  <2>3. c.fp = m.fp /\ c.val \in Answer /\ \E r : LinkedBehind(m, c, n, o, L, T, q, p.clust, r)
    <3>1. LET w == create_chain(m, p.clust) IN
          w.fp = m.fp /\ w.val \in Answer /\ \E r : LinkedBehind(m, w, n, o, L, T, q, p.clust, r)
      BY <2>2, HandBehind
    <3> QED BY <2>1, <3>1, Zenon
  <2> HIDE DEF c
  <2>4. PICK r : LinkedBehind(m, c, n, o, L, T, q, p.clust, r)
    BY <2>3
  <2>5. Hand(c, n, o, L, T, r) /\ Grows(q, r) /\ (c.val \in Cluster => r.own[c.val] = r.al[n] /\ r.idx[c.val] = q.idx[p.clust] + 1)
    BY <2>4, Zenon DEF LinkedBehind
  <2>6. c.val \in Cluster => Reached(r, n, c.fp, c.val)
    <3>1. r \in Certificate
      BY <2>5, HandPlain
    <3>2. c.val \in Cluster => c.fp.fptr = r.idx[c.val] * Bytes
      BY <2>2, <2>3, <2>5
    <3> QED BY <2>5, <3>1, <3>2, ReachedNew
  <2>7. Begun(m, c, n, o, L, T, r)
    <3>1. c.fp.sclust # 0
      BY <1>3, <1>5, <2>3
    <3>2. Placed(r, n, c.fp)
      BY <1>1, <2>3, <2>5, HandPlain, PlacedGrows
    <3> QED BY <2>3, <2>5, <2>6, <3>1, <3>2, BegunKnown
  <2> QED BY <2>3, <2>7 DEF c
<1>6. CASE OffsetInCluster(p) = 0 /\ p.fptr = 0 /\ p.sclust # 0
  <2>1. c = Value(m, p.sclust)
    BY <1>6, Zenon DEF AtCluster, FollowWrite
  <2>2. p.sclust \in Cluster /\ Reached(q, n, p, p.sclust)
    BY <1>1, <1>2, <1>6, ReachedRoot
  <2>3. p.sclust \in Int /\ p.sclust \in Answer
    <3> HIDE DEF p
    <3> QED BY <2>2, LayoutFacts, AnswerFacts
  <2>4. LET w == Value(m, p.sclust) IN Hand(w, n, o, L, T, q) /\ w.fp = m.fp /\ w.val = p.sclust
    BY <2>3, HandValue
  <2>5. Hand(c, n, o, L, T, q) /\ c.fp = m.fp /\ c.val = p.sclust
    BY <2>1, <2>4, Zenon
  <2> HIDE DEF c
  <2>6. Begun(m, c, n, o, L, T, q)
    BY <1>6, <2>2, <2>5, BegunKnown
  <2> QED BY <2>3, <2>5, <2>6 DEF c
<1>7. CASE OffsetInCluster(p) = 0 /\ p.fptr = 0 /\ p.sclust = 0
  <2>1. c = create_chain(m, 0)
    BY <1>7, Zenon DEF AtCluster, FollowWrite
  <2>2. /\ Hand(c, n, o, L, T, q) /\ c.fp = m.fp /\ c.val \in Answer
        /\ c.val \in Cluster => q.own[c.val] = NoName /\ Fat(Seen(c))[c.val] = EndOfChain
    <3>1. LET w == create_chain(m, 0) IN
           /\ Hand(w, n, o, L, T, q) /\ w.fp = m.fp /\ w.val \in Answer
           /\ w.val \in Cluster => q.own[w.val] = NoName /\ Fat(Seen(w))[w.val] = EndOfChain
      BY HandFresh
    <3> QED BY <2>1, <3>1, Zenon
  <2> HIDE DEF c
  <2>3. CASE c.val \notin Cluster
    <3>1. Begun(m, c, n, o, L, T, q)
      BY <2>2, <2>3, Zenon DEF Begun
    <3> QED BY <2>2, <3>1 DEF c
  <2>4. CASE c.val \in Cluster
    <3> DEFINE w == Entered(c)
    <3>0. c \in Machines
      BY <2>2, HandPlain
    <3>1. /\ Local(c, w) /\ Kith(c.fp, w.fp) /\ w.fp.sclust = c.val
          /\ w.fp.clust = c.val /\ w.fp.err = c.fp.err /\ w.fp.dirty = c.fp.dirty /\ w.fp.dsect = c.fp.dsect
          /\ w.fp.fptr = c.fp.fptr
      BY <1>1, <1>7, <2>2, <2>4, <3>0, EnteredFacts
    <3> HIDE DEF w
    <3>2. \E r : Hand(w, n, o, L, T, r) /\ Grows(q, r) /\ r.own[c.val] = q.al[n] /\ r.idx[c.val] = 0
      <4>1. /\ w.fp \in OpenFile /\ w.fp.sclust = c.val /\ w.fp.fsize = c.fp.fsize /\ w.fp.slot = c.fp.slot
            /\ w.fp.written = c.fp.written /\ w.fp.dirty = c.fp.dirty /\ w.fp.dsect = c.fp.dsect /\ c.fp.sclust = 0
        BY <1>7, <2>2, <3>1, Zenon DEF Kith
      <4> QED BY <2>2, <2>4, <3>1, <4>1, HandRoot
    <3>3. PICK r : Hand(w, n, o, L, T, r) /\ Grows(q, r) /\ r.own[c.val] = q.al[n] /\ r.idx[c.val] = 0
      BY <3>2
    <3>4. Inside(r, n, w.fp)
      <4>1. r \in Certificate /\ r.own[w.fp.clust] = r.al[n] /\ w.fp.clust \in Cluster
        BY <2>4, <3>1, <3>3, HandPlain DEF Grows
      <4>2. w.fp.fptr = r.idx[w.fp.clust] * Bytes
        BY <1>7, <2>2, <3>1, <3>3, BytesNat
      <4> QED BY <4>1, <4>2, InsideNew
    <3>5. Begun(m, c, n, o, L, T, r)
      BY <2>2, <2>4, <3>1, <3>3, <3>4, Zenon DEF Begun, w
    <3> QED BY <2>2, <3>5 DEF c
  <2> QED BY <2>3, <2>4
<1> QED BY <1>4, <1>5, <1>6, <1>7

\* What f_write does at the start of a sector
WriteSector(f, d) ==
    LET Sectors(cc) == [k \in 1..cc |-> [i \in 0..(SS - 1) |-> d[(k - 1) * SS + i + 1]]]
        Direct(g, cc) == OrAbort(disk_write(g, CurSect(g.fp), Sectors(cc)),
                                 LAMBDA a : WroteWhole(a, CurSect(g.fp), Sectors(cc)))
        Buffered(g, sect) ==
            OrAbort(IF g.fp.dsect # sect /\ g.fp.fptr < g.fp.fsize
                    THEN LoadBuffer(g, sect) ELSE Return(g, "FR_OK"),
                    LAMBDA l : Put([l EXCEPT !.fp.dsect = sect], d)) IN
    IF Len(d) >= SS THEN Direct(f, Whole(f, Len(d))) ELSE Buffered(f, CurSect(f.fp))

\* A fresh sector needs no read.
LEMMA TakeSector ==
    ASSUME NEW m \in Machines, m.fp \in OpenFile, NEW sect \in Sector, sect >= database
    PROVE  LET w == [m EXCEPT !.fp.dsect = sect] IN
           Buffers(m, w, 0) /\ w.fp.dsect = sect /\ w.res = m.res /\ w \in Machines /\ w.fp.fptr = m.fp.fptr
<1> DEFINE p == [m.fp EXCEPT !.dsect = sect]
           w == [m EXCEPT !.fp = p]
<1>1. /\ p \in OpenFile /\ p.slot = m.fp.slot /\ p.mode = m.fp.mode /\ p.sclust = m.fp.sclust /\ p.clust = m.fp.clust
      /\ p.fsize = m.fp.fsize /\ p.written = m.fp.written /\ p.err = m.fp.err /\ p.dsect = sect
      /\ p.fptr = m.fp.fptr
  BY DEF OpenFile
<1>2. p.fptr = m.fp.fptr + 0
  <2>1. m.fp.fptr \in Nat
    BY OpenFacts
  <2> QED BY <1>1, <2>1
<1>3. w = [m EXCEPT !.fp.dsect = sect]
  BY Zenon DEF p
<1> HIDE DEF p
<1>4. w \in Machines /\ Local(m, w) /\ w.fp = p /\ w.val = m.val /\ w.res = m.res
  BY <1>1, WithFile
<1> HIDE DEF w
<1>5. Slid(m.fp, p, 0)
  BY <1>1, <1>2, Zenon DEF Slid
<1> QED BY <1>1, <1>3, <1>4, <1>5, Zenon DEF Buffers

\* Moves of the buffer keep the file in hand.
LEMMA WroteBuffers ==
    ASSUME NEW m, NEW w, NEW n, NEW o, NEW L, NEW T, NEW q, Hand(m, n, o, L, T, q), Buffers(m, w, 0)
    PROVE  Hand(w, n, o, L, T, q) /\ Kith(m.fp, w.fp)
<1>1. Hand(w, n, o, L, T, q) /\ Kin(m.fp, w.fp)
  BY HandBuffers
<1> QED BY <1>1, Zenon DEF Kith, Kin

\* The part of f_write's loop behind the choice of the cluster.
LEMMA WriteSectorFacts ==
    ASSUME NEW m, NEW n, NEW o, NEW L, NEW T, NEW q, Hand(m, n, o, L, T, q), m.fp.err = "FR_OK",
           Inside(q, n, m.fp), m.fp.fptr % SS = 0, NEW d \in Seq(Nat), Len(d) # 0
    PROVE  Wrote(m, WriteSector(m, d), n, o, L, T, m.fp.fptr, m.fp.fptr + Len(d))
<1> DEFINE lo == m.fp.fptr
           hi == m.fp.fptr + Len(d)
<1>1. m \in Machines /\ m.fp \in OpenFile /\ (m.fp.dirty => m.fp.dsect >= database) /\ q \in Certificate
  BY HandPlain
<1>2. /\ CurSect(m.fp) \in Nat /\ CurSect(m.fp) >= database /\ CurSect(m.fp) \in Sector
      /\ \A k \in 0 .. CSize - OffsetInCluster(m.fp) - 1 : CurSect(m.fp) + k \in Sector
  BY <1>1, InsideSector
<1>3. m.fp.fptr \in Nat /\ SS \in Nat \ {0} /\ CSize \in Nat \ {0} /\ Len(d) \in Nat
  BY <1>1, OpenFacts, FatFsAssumption
<1>4. CASE Len(d) >= SS
  <2> DEFINE cc == Whole(m, Len(d))
             cs == [k \in 1 .. cc |-> [i \in 0 .. SS - 1 |-> d[(k - 1) * SS + i + 1]]]
             a == disk_write(m, CurSect(m.fp), cs)
             b == WroteWhole(a, CurSect(m.fp), cs)
  <2>1. WriteSector(m, d) = IF a.res = "FR_OK" THEN b ELSE Abort(a, "FR_DISK_ERR")
    BY <1>4, Zenon DEF WriteSector, OrAbort
  <2>2. cc \in 1 .. (CSize - OffsetInCluster(m.fp)) /\ SS * cc \in Nat /\ SS * cc <= Len(d)
    BY <1>3, <1>4, WholeFacts
  <2>3. cc \in Nat
    <3>1. OffsetInCluster(m.fp) \in 0 .. CSize - 1
      BY <1>3, <1>4, WholeFacts
    <3> HIDE DEF cc
    <3> QED BY <2>2, <3>1, <1>3
  <2>4. cc = Whole([fp |-> m.fp], Len(d))
    BY Zenon DEF Whole
  <2> HIDE DEF cc
  <2>5. cs \in Seq(DataSector) /\ Len(cs) = cc
    BY <2>2, <2>3, SectorsOf
  <2> HIDE DEF cs
  <2>6. Local(m, a) /\ a.fp = m.fp /\ a.val = m.val
    BY <1>1, <1>2, <2>5, DiskWriteFacts
  <2> HIDE DEF a
  <2>7. Hand(a, n, o, L, T, q) /\ Kith(m.fp, a.fp) /\ a \in Machines
    <3>1. Kin(m.fp, a.fp) /\ (a.fp.dirty => a.fp.dsect >= database)
      BY <1>1, <2>6, Zenon DEF Kin
    <3>2. Hand(a, n, o, L, T, q)
      BY <2>6, <3>1, HandKin
    <3> QED BY <3>1, <3>2, HandPlain, Zenon DEF Kin, Kith
  <2>8. CASE a.res # "FR_OK"
    <3>1. Wrote(m, Abort(a, "FR_DISK_ERR"), n, o, L, T, lo, hi)
      BY <2>7, WroteAbort
    <3> QED BY <2>1, <2>8, <3>1
  <2>9. CASE a.res = "FR_OK"
    <3>1. Buffers(a, b, SS * Len(cs)) /\ b.fp.dsect = a.fp.dsect /\ b.res = a.res
      <4>1. a.fp \in OpenFile /\ (a.fp.dirty => a.fp.dsect >= database)
        BY <1>1, <2>6, Zenon
      <4> QED BY <2>5, <2>7, <4>1, <1>2, WroteWholeFacts
    <3> HIDE DEF b
    <3>2. Hand(b, n, o, L, T, q) /\ Kin(a.fp, b.fp)
      BY <2>7, <3>1, HandBuffers
    <3>3. Slid(m.fp, b.fp, SS * Whole([fp |-> m.fp], Len(d)))
      BY <2>4, <2>5, <2>6, <3>1, Zenon DEF Buffers
    <3>4. Placed(q, n, b.fp) /\ b.fp.fptr <= m.fp.fptr + Len(d) /\ (m.fp.err = "FR_OK" => BufOK(b.fp))
      BY <1>1, <1>3, <1>4, <3>3, DirectSlid
    <3>5. b.fp.err = "FR_OK" /\ lo <= b.fp.fptr
      <4>1. b.fp.err = m.fp.err /\ b.fp.fptr = m.fp.fptr + SS * cc
        BY <2>4, <3>3, Zenon DEF Slid
      <4> HIDE DEF cc
      <4> DEFINE x == SS * cc
      <4>2. x \in Nat /\ b.fp.fptr = m.fp.fptr + x
        BY <2>2, <4>1
      <4> HIDE DEF x
      <4> QED BY <4>1, <4>2, <1>3
    <3>6. Kith(m.fp, b.fp)
      BY <2>7, <3>2, KithTrans
    <3>7. Wrote(m, b, n, o, L, T, lo, hi)
      BY <2>9, <3>1, <3>2, <3>4, <3>5, <3>6, Zenon DEF Wrote
    <3> QED BY <2>1, <2>9, <3>7
  <2> QED BY <2>8, <2>9
<1>5. CASE ~(Len(d) >= SS)
  <2> DEFINE sect == CurSect(m.fp)
             a == IF m.fp.dsect # sect /\ m.fp.fptr < m.fp.fsize THEN LoadBuffer(m, sect) ELSE Return(m, "FR_OK")
             e == [a EXCEPT !.fp.dsect = sect]
             b == Put(e, d)
  <2>1. WriteSector(m, d) = IF a.res = "FR_OK" THEN b ELSE Abort(a, "FR_DISK_ERR")
    BY <1>5, Zenon DEF WriteSector, OrAbort
  <2>2. Buffers(m, a, 0)
    <3>1. CASE m.fp.dsect # sect /\ m.fp.fptr < m.fp.fsize
      <4>1. LET w == LoadBuffer(m, sect) IN Buffers(m, w, 0)
        BY <1>1, <1>2, LoadBufferFacts
      <4> QED BY <3>1, <4>1
    <3>2. CASE ~(m.fp.dsect # sect /\ m.fp.fptr < m.fp.fsize)
      <4>1. Return(m, "FR_OK").fp = m.fp /\ Return(m, "FR_OK").val = m.val /\ Local(m, Return(m, "FR_OK"))
        BY <1>1, OkResult, ReturnLocal
      <4>2. Slid(m.fp, m.fp, 0)
        BY <1>1, SlidRefl
      <4>3. a = Return(m, "FR_OK")
        BY <3>2
      <4> HIDE DEF a
      <4> QED BY <4>1, <4>2, <4>3, Zenon DEF Buffers
    <3> QED BY <3>1, <3>2
  <2> HIDE DEF a
  <2>3. Hand(a, n, o, L, T, q) /\ Kith(m.fp, a.fp)
    BY <2>2, WroteBuffers
  <2>4. CASE a.res # "FR_OK"
    <3>1. Wrote(m, Abort(a, "FR_DISK_ERR"), n, o, L, T, lo, hi)
      BY <2>3, WroteAbort
    <3> QED BY <2>1, <2>4, <3>1
  <2>5. CASE a.res = "FR_OK"
    <3>1. a \in Machines /\ a.fp \in OpenFile
      BY <2>3, HandPlain
    <3>2. Buffers(a, e, 0) /\ e.fp.dsect = sect /\ e.res = a.res
      BY <3>1, <1>2, TakeSector
    <3> HIDE DEF e
    <3>3. Hand(e, n, o, L, T, q) /\ Kith(a.fp, e.fp)
      BY <2>3, <3>2, WroteBuffers
    <3>4. Buffers(e, b, Len(d)) /\ b.fp.dsect = e.fp.dsect /\ b.res = e.res
      <4>1. e \in Machines /\ e.fp \in OpenFile
        BY <3>3, HandPlain
      <4> QED BY <3>2, <4>1, <1>2, PutFacts
    <3> HIDE DEF b
    <3>5. Hand(b, n, o, L, T, q) /\ Kin(e.fp, b.fp)
      BY <3>3, <3>4, HandBuffers
    <3>6. Slid(m.fp, b.fp, Len(d))
      <4>1. 0 + 0 = 0 /\ 0 \in Nat /\ 0 + Len(d) = Len(d)
        BY <1>3
      <4>2. Slid(m.fp, a.fp, 0) /\ Slid(a.fp, e.fp, 0) /\ Slid(e.fp, b.fp, Len(d))
        BY <2>2, <3>2, <3>4, Zenon DEF Buffers
      <4>3. Slid(m.fp, e.fp, 0)
        <5>1. Slid(m.fp, e.fp, 0 + 0)
          BY <4>1, <4>2, <1>3, SlidTrans
        <5> QED BY <4>1, <5>1
      <4>4. Slid(m.fp, b.fp, 0 + Len(d))
        BY <4>1, <4>2, <4>3, <1>3, SlidTrans
      <4> QED BY <4>1, <4>4
    <3>7. b.fp.dsect >= database
      BY <1>2, <3>2, <3>4
    <3>8. Placed(q, n, b.fp) /\ BufOK(b.fp)
      <4>1. Len(d) <= SS
        BY <1>3, <1>5
      <4> QED BY <1>1, <1>3, <3>6, <3>7, <4>1, StartSlid
    <3>9. b.fp.err = "FR_OK" /\ b.fp.fptr <= hi /\ lo <= b.fp.fptr
      <4>1. b.fp.fptr = m.fp.fptr + Len(d) /\ b.fp.err = m.fp.err
        BY <3>6, Zenon DEF Slid
      <4> QED BY <4>1, <1>3
    <3>10. Kith(m.fp, b.fp)
      <4>1. Kith(m.fp, e.fp)
        BY <2>3, <3>3, KithTrans
      <4> QED BY <3>5, <4>1, KithTrans
    <3>11. Wrote(m, b, n, o, L, T, lo, hi)
      BY <2>5, <3>2, <3>4, <3>5, <3>8, <3>9, <3>10, Zenon DEF Wrote
    <3> QED BY <2>1, <2>5, <3>11
  <2> QED BY <2>4, <2>5
<1> QED BY <1>4, <1>5

\* The data not yet written.
LEMMA RestOfData ==
    ASSUME NEW data \in Seq(Nat), NEW k \in 0 .. Len(data)
    PROVE  LET d == SubSeq(data, k + 1, Len(data)) IN
           d \in Seq(Nat) /\ Len(d) = Len(data) - k /\ (d = <<>> <=> Len(d) = 0)
<1>1. Len(data) \in Nat /\ \A i \in 1 .. Len(data) : data[i] \in Nat
  OBVIOUS
<1> DEFINE d == SubSeq(data, k + 1, Len(data))
<1>2. d \in Seq(Nat) /\ Len(d) = Len(data) - k
  BY <1>1
<1> HIDE DEF d
<1>3. Len(d) = 0 => d = <<>>
  BY <1>2
<1> QED BY <1>2, <1>3 DEF d

\* The data written in one round.
LEMMA FirstOfData ==
    ASSUME NEW d \in Seq(Nat), NEW k \in 0 .. Len(d)
    PROVE  SubSeq(d, 1, k) \in Seq(Nat) /\ Len(SubSeq(d, 1, k)) = k
<1>1. Len(d) \in Nat /\ \A i \in 1 .. Len(d) : d[i] \in Nat
  OBVIOUS
<1> QED BY <1>1

\* Bounds on the pointer may be widened.
LEMMA WroteWider ==
    ASSUME NEW m, NEW w, NEW n, NEW o, NEW L, NEW T, NEW lo \in Nat, NEW hi \in Nat, NEW a \in Nat, NEW b \in Nat,
           Wrote(m, w, n, o, L, T, a, b), lo <= a, b <= hi
    PROVE  Wrote(m, w, n, o, L, T, lo, hi)
<1>1. PICK r : /\ Hand(w, n, o, L, T, r) /\ Kith(m.fp, w.fp)
               /\ \/ w.fp.err = "FR_OK" /\ w.res = "FR_OK" /\ Placed(r, n, w.fp) /\ BufOK(w.fp) /\ a <= w.fp.fptr /\ w.fp.fptr <= b
                  \/ w.fp.err # "FR_OK" /\ w.res # "FR_OK"
  BY Zenon DEF Wrote
<1>2. w.fp.fptr \in Nat
  BY <1>1, OpenFacts DEF Kith
<1>3. a <= w.fp.fptr /\ w.fp.fptr <= b => lo <= w.fp.fptr /\ w.fp.fptr <= hi
  BY <1>2
<1> QED BY <1>1, <1>3, Zenon DEF Wrote

\* A file in mid-write: where its position is
Writing(w, n, q, lo, hi) ==
    w.fp.err = "FR_OK" /\ w.res = "FR_OK" /\ Placed(q, n, w.fp) /\ BufOK(w.fp) /\ lo <= w.fp.fptr /\ w.fp.fptr <= hi

\* A write at a sector's start.
LEMMA WriteEnter ==
    ASSUME NEW m, NEW n, NEW o, NEW L, NEW T, NEW q, Hand(m, n, o, L, T, q), Inside(q, n, m.fp), m.fp.fptr % SS = 0,
           m.fp.err = "FR_OK", NEW d \in Seq(Nat), Len(d) # 0
    PROVE  LET b == WriteBack(m) IN
           Wrote(m, IF b.res = "FR_OK" THEN WriteSector(b, d) ELSE Abort(b, "FR_DISK_ERR"),
                 n, o, L, T, m.fp.fptr, m.fp.fptr + Len(d))
<1> DEFINE b == WriteBack(m)
<1>1. m \in Machines /\ m.fp \in OpenFile /\ (m.fp.dirty => m.fp.dsect >= database)
  BY HandPlain
<1>2. Buffers(m, b, 0)
  BY <1>1, WriteBackFacts
<1> HIDE DEF b
<1>3. Hand(b, n, o, L, T, q) /\ Kith(m.fp, b.fp)
  BY <1>2, WroteBuffers
<1>4. CASE b.res # "FR_OK"
  <2>1. Wrote(m, Abort(b, "FR_DISK_ERR"), n, o, L, T, m.fp.fptr, m.fp.fptr + Len(d))
    BY <1>3, WroteAbort
  <2> QED BY <1>4, <2>1, Zenon DEF b
<1>5. CASE b.res = "FR_OK"
  <2>1. b.fp.fptr = m.fp.fptr /\ b.fp.err = "FR_OK" /\ b.fp.clust = m.fp.clust
    <3>1. b.fp.fptr = m.fp.fptr + 0 /\ b.fp.err = m.fp.err /\ b.fp.clust = m.fp.clust
      BY <1>2, Zenon DEF Buffers, Slid
    <3> QED BY <1>1, <3>1, OpenFacts
  <2>2. Inside(q, n, b.fp)
    BY <2>1, Zenon DEF Inside
  <2>3. Wrote(b, WriteSector(b, d), n, o, L, T, m.fp.fptr, m.fp.fptr + Len(d))
    <3>1. b.fp.fptr % SS = 0
      BY <2>1
    <3>2. Wrote(b, WriteSector(b, d), n, o, L, T, b.fp.fptr, b.fp.fptr + Len(d))
      BY <1>3, <2>1, <2>2, <3>1, WriteSectorFacts
    <3> QED BY <2>1, <3>2, Zenon
  <2>4. Wrote(m, WriteSector(b, d), n, o, L, T, m.fp.fptr, m.fp.fptr + Len(d))
    BY <1>3, <2>3, WroteAfter
  <2> QED BY <1>5, <2>4, Zenon DEF b
<1> QED BY <1>4, <1>5

\* One round of f_write's loop.
LEMMA WriteRoundFacts ==
    ASSUME NEW m, NEW n, NEW o, NEW L, NEW T, NEW q, Hand(m, n, o, L, T, q),
           NEW data \in Seq(Nat), NEW start \in Nat, Writing(m, n, q, start, start + Len(data))
    PROVE  Wrote(m, WriteRound(m, data, start), n, o, L, T, start, start + Len(data))
<1> DEFINE d == SubSeq(data, m.fp.fptr - start + 1, Len(data))
           k == Rest(m, Len(d))
           u == Put(m, SubSeq(d, 1, k))
           c == AtCluster(m, FollowWrite)
           e == Entered(c)
           b == WriteBack(e)
           end == start + Len(data)
<1>1. WriteRound(m, data, start) =
        IF m.res # "FR_OK" \/ d = <<>> \/ m.val = 0 THEN m
        ELSE IF m.fp.fptr % SS # 0 THEN u
        ELSE IF c.val = 0 THEN Return(c, "FR_OK")
        ELSE IF c.val = 1 THEN Abort(c, "FR_INT_ERR")
        ELSE IF c.val = DiskErr THEN Abort(c, "FR_DISK_ERR")
        ELSE IF b.res = "FR_OK" THEN WriteSector(b, d) ELSE Abort(b, "FR_DISK_ERR")
  BY Zenon DEF WriteRound, WriteSector, OrAbort, Entered
<1>2. /\ m \in Machines /\ m.fp \in OpenFile /\ (m.fp.dirty => m.fp.dsect >= database) /\ n \in Name
      /\ q \in Certificate
  BY HandPlain
<1>3. m.fp.err = "FR_OK" /\ m.res = "FR_OK" /\ Placed(q, n, m.fp) /\ BufOK(m.fp) /\ start <= m.fp.fptr /\ m.fp.fptr <= start + Len(data)
  BY Zenon DEF Writing
<1>4. m.fp.fptr \in Nat /\ Len(data) \in Nat /\ SS \in Nat \ {0} /\ end \in Nat
  BY <1>2, OpenFacts, FatFsAssumption
<1>5. Kith(m.fp, m.fp)
  BY <1>2, Zenon DEF Kith
<1>6. d \in Seq(Nat) /\ Len(d) \in Nat /\ m.fp.fptr + Len(d) = end /\ (d = <<>> <=> Len(d) = 0)
  <2> DEFINE j == m.fp.fptr - start
  <2>1. j \in 0 .. Len(data) /\ m.fp.fptr = start + j
    BY <1>3, <1>4
  <2> HIDE DEF j
  <2>2. LET x == SubSeq(data, j + 1, Len(data)) IN x \in Seq(Nat) /\ Len(x) = Len(data) - j /\ (x = <<>> <=> Len(x) = 0)
    BY <2>1, RestOfData
  <2>3. d \in Seq(Nat) /\ Len(d) = Len(data) - j /\ (d = <<>> <=> Len(d) = 0)
    BY <2>2, Zenon DEF j
  <2> HIDE DEF d
  <2> QED BY <1>4, <2>1, <2>3
<1> HIDE DEF end, d
<1>7. CASE m.res # "FR_OK" \/ d = <<>> \/ m.val = 0
  <2>1. Wrote(m, m, n, o, L, T, start, start + Len(data))
    BY <1>3, <1>5, Zenon DEF Wrote
  <2> QED BY <1>1, <1>7, <2>1
<1>8. CASE ~(m.res # "FR_OK" \/ d = <<>> \/ m.val = 0) /\ m.fp.fptr % SS # 0
  <2> DEFINE x == m.fp.fptr % SS
             s == SubSeq(d, 1, k)
  <2>1. k = IF Len(d) < SS - x THEN Len(d) ELSE SS - x
    BY DEF Rest
  <2>2. x \in 0 .. SS - 1
    BY <1>4, DivParts
  <2> HIDE DEF x
  <2>3. k \in Nat /\ k <= SS - x /\ k <= Len(d)
    <3> HIDE DEF k
    <3> QED BY <1>4, <1>6, <2>1, <2>2
  <2> HIDE DEF k
  <2>4. s \in Seq(Nat) /\ Len(s) = k
    <3>1. k \in 0 .. Len(d)
      BY <1>6, <2>3
    <3> QED BY <1>6, <3>1, FirstOfData
  <2>5. m.fp.dsect >= database
    BY <1>3, <1>8, Zenon DEF BufOK
  <2> HIDE DEF s
  <2>6. LET w == Put(m, s) IN Buffers(m, w, Len(s)) /\ w.fp.dsect = m.fp.dsect /\ w.res = m.res
    BY <1>2, <2>4, <2>5, PutFacts
  <2>7. Buffers(m, u, k) /\ u.fp.dsect = m.fp.dsect /\ u.res = m.res
    BY <2>4, <2>6, Zenon DEF s
  <2> HIDE DEF u
  <2>8. Hand(u, n, o, L, T, q) /\ Kin(m.fp, u.fp)
    BY <2>7, HandBuffers
  <2>9. Slid(m.fp, u.fp, k)
    BY <2>7, Zenon DEF Buffers
  <2>10. Placed(q, n, u.fp)
    BY <1>2, <1>3, <1>8, <2>3, <2>9, MidSlid DEF x
  <2>11. u.fp.err = "FR_OK" /\ start <= u.fp.fptr /\ u.fp.fptr <= end
    <3>1. u.fp.fptr = m.fp.fptr + k /\ u.fp.err = m.fp.err
      BY <2>9, Zenon DEF Slid
    <3> QED BY <1>3, <1>4, <1>6, <2>3, <3>1
  <2>12. BufOK(u.fp) /\ Kith(m.fp, u.fp)
    <3>1. u.fp.dsect >= database
      BY <2>5, <2>7
    <3> QED BY <2>8, <3>1, Zenon DEF BufOK, Kin, Kith
  <2>13. Wrote(m, u, n, o, L, T, start, end)
    BY <1>3, <2>7, <2>8, <2>10, <2>11, <2>12, Zenon DEF Wrote
  <2> QED BY <1>1, <1>8, <2>13 DEF end
<1>9. CASE ~(m.res # "FR_OK" \/ d = <<>> \/ m.val = 0) /\ m.fp.fptr % SS = 0
  <2>1. c.fp = m.fp /\ c.val \in Answer /\ \E r : Begun(m, c, n, o, L, T, r)
    BY <1>3, <1>9, WriteTarget
  <2> HIDE DEF c, u
  <2>2. PICK r : Begun(m, c, n, o, L, T, r)
    BY <2>1
  <2>3. CASE c.val \notin Cluster
    <3>1. Hand(c, n, o, L, T, r) /\ Placed(r, n, c.fp) /\ Kith(m.fp, c.fp)
      BY <1>5, <2>1, <2>2, <2>3, Zenon DEF Begun
    <3>2. CASE c.val = 0
      <4> DEFINE w == Return(c, "FR_OK")
      <4>1. Hand(w, n, o, L, T, r) /\ w.fp = c.fp /\ w.res = "FR_OK"
        BY <3>1, OkResult, HandReturn
      <4>2. WriteRound(m, data, start) = w
        BY <1>1, <1>9, <3>2
      <4> HIDE DEF w
      <4>3. Wrote(m, w, n, o, L, T, start, start + Len(data))
        BY <1>3, <2>1, <3>1, <4>1, Zenon DEF Wrote
      <4> QED BY <4>2, <4>3
    <3>3. CASE c.val # 0
      <4>1. WriteRound(m, data, start) \in {Abort(c, "FR_INT_ERR"), Abort(c, "FR_DISK_ERR")}
        <5>1. c.val = 1 \/ c.val = DiskErr
          BY <2>1, <2>3, <3>3 DEF Answer
        <5> QED BY <1>1, <1>9, <3>3, <5>1
      <4>2. \A x \in {"FR_DISK_ERR", "FR_INT_ERR"} : Wrote(m, Abort(c, x), n, o, L, T, start, start + Len(data))
        BY <3>1, WroteAbort
      <4> QED BY <4>1, <4>2
    <3> QED BY <3>2, <3>3
  <2>4. CASE c.val \in Cluster
    <3>1. /\ Hand(e, n, o, L, T, r) /\ Kith(m.fp, e.fp) /\ Inside(r, n, e.fp)
          /\ e.fp.err = m.fp.err /\ e.fp.fptr = m.fp.fptr
      BY <2>2, <2>4, Zenon DEF Begun
    <3> HIDE DEF e
    <3> DEFINE v == IF b.res = "FR_OK" THEN WriteSector(b, d) ELSE Abort(b, "FR_DISK_ERR")
    <3>2. Wrote(e, v, n, o, L, T, e.fp.fptr, e.fp.fptr + Len(d))
      <4>1. e.fp.fptr % SS = 0 /\ e.fp.err = "FR_OK" /\ Len(d) # 0
        BY <1>3, <1>6, <1>9, <3>1
      <4> QED BY <1>6, <3>1, <4>1, WriteEnter
    <3>3. WriteRound(m, data, start) = v
      BY <1>1, <1>9, <2>4, AnswerFacts
    <3> HIDE DEF v
    <3>4. Wrote(m, v, n, o, L, T, e.fp.fptr, e.fp.fptr + Len(d))
      BY <3>1, <3>2, WroteAfter
    <3>5. Wrote(m, v, n, o, L, T, start, end)
      <4>1. e.fp.fptr \in Nat /\ e.fp.fptr + Len(d) \in Nat /\ start <= e.fp.fptr /\ e.fp.fptr + Len(d) <= end
        BY <1>3, <1>4, <1>6, <3>1
      <4> QED BY <1>4, <3>4, <4>1, WroteWider
    <3> QED BY <3>3, <3>5 DEF end
  <2> QED BY <2>3, <2>4
<1> QED BY <1>7, <1>8, <1>9

\* All of them.
LEMMA WriteLoopFacts ==
    ASSUME NEW m, NEW f, NEW o, NEW L, NEW T, NEW q, Hand(m, f, o, L, T, q), m.fp.err = "FR_OK",
           Placed(q, f, m.fp), BufOK(m.fp), NEW d \in Seq(Nat)
    PROVE  Wrote(m, WriteLoop(m, d), f, o, L, T, m.fp.fptr, m.fp.fptr + Len(d))
<1> DEFINE n == Len(d)
           h == [m EXCEPT !.res = "FR_OK", !.val = 1]
           lo == m.fp.fptr
           hi == m.fp.fptr + Len(d)
           J == {w \in Machines : Wrote(m, w, f, o, L, T, lo, hi)}
           S == [k \in 0 .. n |-> J]
<1>1. n \in Nat
  OBVIOUS
<1>2. m.fp \in OpenFile /\ lo \in Nat /\ hi \in Nat /\ lo <= hi
  BY <1>1, HandPlain, OpenFacts
<1>3. h \in J
  <2> DEFINE e == Return(m, "FR_OK")
  <2>1. Hand(e, f, o, L, T, q) /\ e.fp = m.fp /\ e.res = "FR_OK"
    BY HandReturn, OkResult
  <2>2. h = Value(e, 1)
    BY Zenon DEF Value, Return
  <2> HIDE DEF e, h, lo, hi
  <2>3. Hand(h, f, o, L, T, q) /\ h.fp = m.fp /\ h.res = "FR_OK"
    <3>1. LET w == Value(e, 1) IN Hand(w, f, o, L, T, q) /\ w.fp = e.fp /\ w.res = e.res
      BY <2>1, HandValue
    <3> QED BY <2>1, <2>2, <3>1, Zenon
  <2>4. h \in Machines /\ Kith(m.fp, h.fp)
    BY <1>2, <2>3, HandPlain, Zenon DEF Kith
  <2>5. lo = h.fp.fptr /\ h.fp.fptr <= hi /\ lo <= h.fp.fptr
    BY <1>2, <2>3 DEF lo
  <2> QED BY <2>3, <2>4, <2>5, Zenon DEF Wrote
<1>4. \A w \in J : WriteRound(w, d, m.fp.fptr) \in J
  <2> SUFFICES ASSUME NEW w \in J PROVE WriteRound(w, d, lo) \in J
    BY DEF lo
  <2> DEFINE u == WriteRound(w, d, lo)
  <2>1. Wrote(m, w, f, o, L, T, lo, hi)
    OBVIOUS
  <2>2. PICK r : /\ Hand(w, f, o, L, T, r) /\ Kith(m.fp, w.fp)
                 /\ \/ w.fp.err = "FR_OK" /\ w.res = "FR_OK" /\ Placed(r, f, w.fp) /\ BufOK(w.fp)
                       /\ lo <= w.fp.fptr /\ w.fp.fptr <= hi
                    \/ w.fp.err # "FR_OK" /\ w.res # "FR_OK"
    BY <2>1, Zenon DEF Wrote
  <2>3. CASE w.res # "FR_OK"
    <3>1. u = w
      BY <2>3, Zenon DEF WriteRound
    <3> QED BY <3>1
  <2>4. CASE w.res = "FR_OK"
    <3>1. Writing(w, f, r, lo, hi)
      BY <2>2, <2>4, Zenon DEF Writing
    <3>2. Wrote(w, u, f, o, L, T, lo, hi)
      <4>1. Writing(w, f, r, lo, lo + Len(d))
        BY <3>1
      <4> HIDE DEF lo, hi, J, S
      <4>2. Wrote(w, WriteRound(w, d, lo), f, o, L, T, lo, lo + Len(d))
        BY <1>2, <2>2, <4>1, WriteRoundFacts
      <4> QED BY <4>2 DEF hi, lo
    <3> HIDE DEF u
    <3>3. Wrote(m, u, f, o, L, T, lo, hi)
      BY <2>2, <3>2, WroteAfter
    <3>4. u \in Machines
      BY <3>3, HandPlain DEF Wrote
    <3> QED BY <3>3, <3>4 DEF u
  <2> QED BY <2>3, <2>4
<1>5. \A k \in 0 .. n : S[k] = J
  OBVIOUS
<1>6. J \subseteq Machines
  OBVIOUS
<1> HIDE DEF S, n, J, h
<1>7. h \in S[0]
  <2>1. 0 \in 0 .. n
    BY <1>1
  <2> QED BY <2>1, <1>3, <1>5, Zenon
<1>8. \A k \in 1 .. n : \A w \in S[k - 1] : WriteRound(w, d, m.fp.fptr) \in S[k]
  <2>1. \A k \in 1 .. n : S[k - 1] = J /\ S[k] = J
    BY <1>1, <1>5
  <2> TAKE k \in 1 .. n
  <2> TAKE w \in S[k - 1]
  <2>2. w \in J /\ S[k] = J
    BY <2>1
  <2>3. WriteRound(w, d, m.fp.fptr) \in J
    BY <2>2, <1>4
  <2> QED BY <2>2, <2>3, Zenon
<1>9. \A k \in 0 .. n : S[k] \subseteq Machines
  BY <1>5, <1>6
<1> DEFINE g == [p \in Machines \X (1 .. n) |-> WriteRound(p[1], d, m.fp.fptr)]
<1>10. \A k \in 1 .. n : \A w \in Machines : g[<<w, k>>] = WriteRound(w, d, m.fp.fptr)
  OBVIOUS
<1> HIDE DEF g
<1>11. \E r : RunOf(n, S, h, g, r)
  <2>1. Steady(n, S, g)
    <3>1. \A k \in 1 .. n : \A w \in S[k - 1] : w \in Machines
      BY <1>1, <1>9
    <3> QED BY <3>1, <1>8, <1>10, Zenon DEF Steady
  <2> QED BY <1>1, <1>7, <2>1, RunExists
<1> DEFINE R == CHOOSE R : R = [k \in 0 .. n |-> IF k = 0 THEN h ELSE WriteRound(R[k - 1], d, m.fp.fptr)]
<1>12. R = [k \in 0 .. n |-> IF k = 0 THEN h ELSE WriteRound(R[k - 1], d, m.fp.fptr)]
  <2>1. PICK r : RunOf(n, S, h, g, r)
    BY <1>11, Zenon
  <2>2. \A k \in 0 .. n : k # 0 => g[<<r[k - 1], k>>] = WriteRound(r[k - 1], d, m.fp.fptr)
    <3> TAKE k \in 0 .. n
    <3>1. k # 0 => k \in 1 .. n /\ k - 1 \in 0 .. n
      BY <1>1
    <3> QED BY <2>1, <3>1, <1>9, <1>10, Zenon DEF RunOf
  <2>3. r = [k \in 0 .. n |-> IF k = 0 THEN h ELSE WriteRound(r[k - 1], d, m.fp.fptr)]
    <3> DEFINE a == [k \in 0 .. n |-> IF k = 0 THEN h ELSE g[<<r[k - 1], k>>]]
               b == [k \in 0 .. n |-> IF k = 0 THEN h ELSE WriteRound(r[k - 1], d, m.fp.fptr)]
    <3>1. \A k \in 0 .. n : a[k] = b[k]
      BY <2>2
    <3>2. a = b
      BY <3>1
    <3>3. r = a
      BY <2>1, Zenon DEF RunOf
    <3> QED BY <3>2, <3>3, Zenon
  <2> QED BY <2>3, Zenon
<1>13. WriteLoop(m, d) = R[n]
  BY Zenon DEF WriteLoop, Loop, h, n
<1> HIDE DEF R
<1>14. \A k \in 0 .. n : R[k] \in S[k]
  <2>1. R[0] = h /\ \A k \in 1 .. n : R[k] = WriteRound(R[k - 1], d, m.fp.fptr)
    BY <1>1, <1>12
  <2>2. R[0] \in S[0]
    BY <2>1, <1>7
  <2>3. \A k \in 1 .. n : R[k - 1] \in S[k - 1] => R[k] \in S[k]
    BY <2>1, <1>8, Zenon
  <2> QED BY <1>1, <2>2, <2>3, RunInduct
<1>15. WriteLoop(m, d) \in S[n]
  <2>1. n \in 0 .. n
    BY <1>1
  <2> QED BY <1>13, <1>14, <2>1, Zenon
<1>16. WriteLoop(m, d) \in J
  <2>1. n \in 0 .. n
    BY <1>1
  <2> QED BY <2>1, <1>5, <1>15, Zenon
<1> QED BY <1>16, Zenon DEF J

\* A position that lies in the chain is within the clusters of the file
LEMMA PlacedWithin ==
    ASSUME NEW m, NEW n, NEW o, NEW L, NEW T, NEW q, Hand(m, n, o, L, T, q), Placed(q, n, m.fp)
    PROVE  RootedAt(q, n, m.fp.sclust, m.fp.fptr)
<1> DEFINE p == m.fp
           o1 == [o EXCEPT ![n] = Parked(m.fp)]
           a == q.al[n]
<1>0. HandParts(m, n, o, L, T, q, o1, Dir(Seen(m)))
  BY HandFacts
<1>1. p \in OpenFile /\ q \in Certificate /\ RootedAt(q, n, p.sclust, p.fsize) /\ n \in Name
  BY HandPlain
<1>2. Chained(Fat(Seen(m)), q) /\ a \in Name
  <2>1. Holds(Fat(Seen(m)), Dir(Seen(m)), o1, L, T, {}, q) /\ a \in Name
    BY <1>0, Zenon DEF HandParts
  <2> HIDE DEF o1
  <2> QED BY <2>1, HoldsParts
<1>3. CASE p.sclust = 0
  <2>1. p.fptr = 0
    BY <1>3, PlacedRoot
  <2> QED BY <1>3, <2>1, Zenon DEF RootedAt
<1>4. CASE p.sclust # 0
  <2>1. p.sclust \in Cluster /\ q.own[p.sclust] = a /\ q.idx[p.sclust] = 0
    BY <1>1, <1>4, Zenon DEF RootedAt
  <2>2. p.fptr <= q.len[a] * Bytes
    <3>1. q.len[a] \in Nat
      BY <1>1, <1>2 DEF Certificate
    <3>2. CASE p.fptr = 0
      <4>1. 0 <= q.len[a] * Bytes
        BY <3>1, LenBytes
      <4> QED BY <3>2, <4>1
    <3>3. CASE p.fptr # 0
      <4>1. p.clust \in Cluster /\ q.own[p.clust] = a /\ p.fptr <= (q.idx[p.clust] + 1) * Bytes
        BY <3>3, Zenon DEF Placed
      <4>2. q.idx[p.clust] \in Nat /\ q.idx[p.clust] < q.len[a]
        <5>1. a # NoName
          BY <1>2, FatFsAssumption
        <5> QED BY <1>1, <1>2, <4>1, <5>1 DEF Chained, Certificate
      <4> DEFINE i == q.idx[p.clust]
                 l == q.len[a]
      <4>3. (i + 1) * Bytes <= l * Bytes /\ l * Bytes \in Nat /\ (i + 1) * Bytes \in Nat
        <5>1. i \in Nat /\ l \in Nat /\ i < l
          BY <3>1, <4>2
        <5> HIDE DEF i, l
        <5>2. i <= l /\ i + 1 \in Nat /\ i + 1 <= l
          BY <5>1
        <5>3. (i + 1) * Bytes <= l * Bytes /\ (i + 1) * Bytes \in Nat
          BY <5>1, <5>2, LenBytes
        <5>4. l * Bytes \in Nat
          BY <5>1, LenBytes
        <5> QED BY <5>3, <5>4
      <4>4. p.fptr \in Nat
        BY <1>1, OpenFacts
      <4> DEFINE x == (i + 1) * Bytes
                 y == l * Bytes
      <4>5. p.fptr <= x /\ x <= y /\ x \in Nat /\ y \in Nat
        BY <4>1, <4>3
      <4> HIDE DEF x, y
      <4>6. p.fptr <= y
        BY <4>4, <4>5
      <4> QED BY <4>6 DEF y
    <3> QED BY <3>2, <3>3
  <2> QED BY <2>1, <2>2, Zenon DEF RootedAt
<1> QED BY <1>3, <1>4

\* Two sizes that fit, the greater one fits.
LEMMA RootedMost ==
    ASSUME NEW q, NEW n, NEW root, NEW x, NEW y, RootedAt(q, n, root, x), RootedAt(q, n, root, y)
    PROVE  RootedAt(q, n, root, IF x > y THEN x ELSE y)
BY DEF RootedAt

\* A FIL with a new size, marked written.
Sized(p, z) == [p EXCEPT !.fsize = z, !.written = TRUE]

\* The volume whose open FIL is given a new size.
Resized(m, z) == [m EXCEPT !.fp.fsize = z, !.fp.written = TRUE]

\* Only the FIL changes.
LEMMA SizedFacts ==
    ASSUME NEW m \in Machines, m.fp \in OpenFile, NEW z \in Nat
    PROVE  LET w == Resized(m, z) IN
           /\ Local(m, w) /\ w.fp \in OpenFile /\ w.fp.slot = m.fp.slot /\ w.fp.mode = m.fp.mode
           /\ w.fp.sclust = m.fp.sclust /\ w.fp.clust = m.fp.clust /\ w.fp.fptr = m.fp.fptr /\ w.fp.err = m.fp.err
           /\ w.fp.dirty = m.fp.dirty /\ w.fp.dsect = m.fp.dsect /\ w.fp.fsize = z /\ w.fp.written
           /\ w.res = m.res /\ w.val = m.val
<1> DEFINE p == Sized(m.fp, z)
           w == [m EXCEPT !.fp = p]
<1>1. /\ p \in OpenFile /\ p.slot = m.fp.slot /\ p.mode = m.fp.mode /\ p.sclust = m.fp.sclust /\ p.clust = m.fp.clust
      /\ p.fptr = m.fp.fptr /\ p.err = m.fp.err /\ p.dsect = m.fp.dsect /\ p.fsize = z
  BY DEF OpenFile, Sized
<1>2. p.written /\ p.dirty = m.fp.dirty
  BY Zenon DEF Sized, OpenFile
<1>3. w = Resized(m, z)
  BY Zenon DEF Sized, Resized
<1> HIDE DEF p
<1>4. Local(m, w) /\ w.fp = p /\ w.val = m.val /\ w.res = m.res
  BY <1>1, WithFile
<1> QED BY <1>1, <1>2, <1>3, <1>4, Zenon

\* f_write goes on to set the size to where the writing ended
LEMMA WriteFacts ==
    ASSUME NEW m, NEW n, NEW o, NEW L, NEW T, NEW q, Kept(m, m, n, o, L, T, q), NEW d \in Seq(Nat)
    PROVE  \E r : Kept(m, f_write(m, d), n, o, L, T, r)
<1> DEFINE w == f_write(m, d)
           l == WriteLoop(m, d)
           z == IF l.fp.fptr > l.fp.fsize THEN l.fp.fptr ELSE l.fp.fsize
           u == Resized(l, z)
<1>1. Hand(m, n, o, L, T, q) /\ m.fp \in OpenFile
  BY HandPlain DEF Kept
<1>2. w = IF m.fp.err # "FR_OK" THEN Return(m, m.fp.err)
          ELSE IF "WRITE" \notin m.fp.mode THEN Return(m, "FR_DENIED")
          ELSE IF l.res = "FR_OK" THEN u ELSE l
  BY Zenon DEF f_write, IfOk, Resized
<1>3. \A x \in Result : w = Return(m, x) => Kept(m, w, n, o, L, T, q)
  <2> SUFFICES ASSUME NEW x \in Result PROVE Kept(m, Return(m, x), n, o, L, T, q)
    BY Zenon
  <2>1. LET r == Return(m, x) IN Hand(r, n, o, L, T, q) /\ r.fp = m.fp
    BY <1>1, HandReturn
  <2> QED BY <2>1, Zenon DEF Kept
<1>4. CASE m.fp.err # "FR_OK" \/ "WRITE" \notin m.fp.mode
  <2>1. \E x \in Result : w = Return(m, x)
    <3>1. m.fp.err \in Result /\ "FR_DENIED" \in Result
      BY <1>1, OpenFacts, OkResult
    <3> QED BY <1>2, <1>4, <3>1, Zenon
  <2> QED BY <1>3, <2>1, Zenon
<1>5. CASE ~(m.fp.err # "FR_OK" \/ "WRITE" \notin m.fp.mode)
  <2>1. Wrote(m, l, n, o, L, T, m.fp.fptr, m.fp.fptr + Len(d))
    <3>1. m.fp.err = "FR_OK" /\ Placed(q, n, m.fp) /\ BufOK(m.fp)
      BY <1>5, Zenon DEF Kept
    <3> QED BY <1>1, <3>1, WriteLoopFacts
  <2> HIDE DEF l
  <2>2. PICK r : /\ Hand(l, n, o, L, T, r) /\ Kith(m.fp, l.fp)
                 /\ \/ l.fp.err = "FR_OK" /\ l.res = "FR_OK" /\ Placed(r, n, l.fp) /\ BufOK(l.fp)
                    \/ l.fp.err # "FR_OK" /\ l.res # "FR_OK"
    BY <2>1, Zenon DEF Wrote
  <2>3. CASE l.res # "FR_OK"
    <3>1. Kept(m, l, n, o, L, T, r)
      BY <2>2, <2>3, Zenon DEF Kept, Kith
    <3> QED BY <1>2, <1>5, <2>3, <3>1
  <2>4. CASE l.res = "FR_OK"
    <3>1. l \in Machines /\ l.fp \in OpenFile /\ RootedAt(r, n, l.fp.sclust, l.fp.fsize) /\ (l.fp.dirty => l.fp.dsect >= database)
      BY <2>2, HandPlain
    <3>2. l.fp.fptr \in Nat /\ l.fp.fsize \in Nat
      BY <3>1, OpenFacts
    <3>3. z \in Nat /\ z >= l.fp.fsize /\ l.fp.fptr <= z
      BY <3>2
    <3>4. RootedAt(r, n, l.fp.sclust, z)
      <4>1. RootedAt(r, n, l.fp.sclust, l.fp.fptr)
        BY <2>2, <2>4, PlacedWithin
      <4> DEFINE x == l.fp.fptr
                 y == l.fp.fsize
      <4>2. RootedAt(r, n, l.fp.sclust, x) /\ RootedAt(r, n, l.fp.sclust, y)
        BY <3>1, <4>1
      <4> HIDE DEF x, y
      <4>3. RootedAt(r, n, l.fp.sclust, IF x > y THEN x ELSE y)
        BY <4>2, RootedMost
      <4> QED BY <4>3 DEF x, y
    <3> HIDE DEF z
    <3>5. /\ Local(l, u) /\ u.fp \in OpenFile /\ u.fp.slot = l.fp.slot /\ u.fp.mode = l.fp.mode
          /\ u.fp.sclust = l.fp.sclust /\ u.fp.clust = l.fp.clust /\ u.fp.fptr = l.fp.fptr /\ u.fp.err = l.fp.err
          /\ u.fp.dirty = l.fp.dirty /\ u.fp.dsect = l.fp.dsect /\ u.fp.fsize = z /\ u.fp.written
      BY <3>1, <3>3, SizedFacts
    <3> HIDE DEF u
    <3>6. Hand(u, n, o, L, T, r)
      <4>1. u.fp.fsize >= l.fp.fsize /\ (u.fp.dirty => u.fp.dsect >= database) /\ L \subseteq L
            /\ RootedAt(r, n, u.fp.sclust, u.fp.fsize)
        BY <3>1, <3>3, <3>4, <3>5
      <4> QED BY <2>2, <3>5, <4>1, HandStep
    <3>7. Placed(r, n, u.fp) /\ BufOK(u.fp)
      BY <2>2, <2>4, <3>5, Zenon DEF Placed, BufOK
    <3>8. u.fp.fptr <= u.fp.fsize /\ u.fp.slot = m.fp.slot
      BY <2>2, <3>3, <3>5 DEF Kith
    <3>9. Kept(m, u, n, o, L, T, r)
      BY <3>6, <3>7, <3>8, Zenon DEF Kept
    <3> QED BY <1>2, <1>5, <2>4, <3>9
  <2> QED BY <2>3, <2>4
<1> QED BY <1>4, <1>5

-------------------------------------------------------------------------------
(* f_lseek *)

\* The volume whose open FIL has its pointer moved.
Positioned(m, y) == [m EXCEPT !.fp.fptr = y]

\* The pointer may move anywhere as far as the chains are concerned.
LEMMA HandPos ==
    ASSUME NEW m, NEW n, NEW o, NEW L, NEW T, NEW q, Hand(m, n, o, L, T, q), NEW y \in Nat
    PROVE  LET w == Positioned(m, y) IN
           /\ Hand(w, n, o, L, T, q) /\ Kin(m.fp, w.fp) /\ w.fp.clust = m.fp.clust /\ w.fp.fptr = y /\ w.fp.err = m.fp.err
           /\ w.fp.dirty = m.fp.dirty /\ w.fp.dsect = m.fp.dsect /\ w.res = m.res /\ w.val = m.val
<1> DEFINE p == [m.fp EXCEPT !.fptr = y]
           w == [m EXCEPT !.fp = p]
<1>1. m \in Machines /\ m.fp \in OpenFile /\ (m.fp.dirty => m.fp.dsect >= database)
  BY HandPlain
<1>2. /\ p \in OpenFile /\ p.slot = m.fp.slot /\ p.mode = m.fp.mode /\ p.sclust = m.fp.sclust
      /\ p.fsize = m.fp.fsize /\ p.written = m.fp.written /\ p.err = m.fp.err /\ p.dirty = m.fp.dirty /\ p.dsect = m.fp.dsect
      /\ p.fptr = y /\ p.clust = m.fp.clust
  BY <1>1 DEF OpenFile
<1>3. w = Positioned(m, y)
  BY Zenon DEF p, Positioned
<1> HIDE DEF p
<1>4. Local(m, w) /\ w.fp = p /\ w.res = m.res /\ w.val = m.val
  BY <1>1, <1>2, WithFile
<1> HIDE DEF w
<1>5. Kin(m.fp, w.fp) /\ (w.fp.dirty => w.fp.dsect >= database)
  BY <1>1, <1>2, <1>4, Zenon DEF Kin
<1>6. Hand(w, n, o, L, T, q)
  BY <1>4, <1>5, HandKin
<1> QED BY <1>2, <1>3, <1>4, <1>5, <1>6, Zenon

\* A machine whose file pointer was set.
Standing(m, c, y) == [m EXCEPT !.fp.clust = c, !.fp.fptr = y]

\* The file stays in hand.
LEMMA HandAt ==
    ASSUME NEW m, NEW n, NEW o, NEW L, NEW T, NEW q, Hand(m, n, o, L, T, q), NEW c \in {0} \union Cluster, NEW y \in Nat
    PROVE  LET w == Standing(m, c, y) IN
           /\ Hand(w, n, o, L, T, q) /\ Kin(m.fp, w.fp) /\ w.fp.clust = c /\ w.fp.fptr = y /\ w.fp.err = m.fp.err
           /\ w.fp.dirty = m.fp.dirty /\ w.fp.dsect = m.fp.dsect /\ w.res = m.res /\ w.val = m.val
<1> DEFINE p == [m.fp EXCEPT !.clust = c, !.fptr = y]
           w == [m EXCEPT !.fp = p]
<1>1. m \in Machines /\ m.fp \in OpenFile /\ (m.fp.dirty => m.fp.dsect >= database)
  BY HandPlain
<1>2. /\ p \in OpenFile /\ p.slot = m.fp.slot /\ p.mode = m.fp.mode /\ p.sclust = m.fp.sclust
      /\ p.fsize = m.fp.fsize /\ p.written = m.fp.written /\ p.err = m.fp.err /\ p.dirty = m.fp.dirty /\ p.dsect = m.fp.dsect
      /\ p.fptr = y /\ p.clust = c
  BY <1>1 DEF OpenFile
<1>3. w = Standing(m, c, y)
  BY Zenon DEF p, Standing
<1> HIDE DEF p
<1>4. Local(m, w) /\ w.fp = p /\ w.res = m.res /\ w.val = m.val
  BY <1>1, <1>2, WithFile
<1> HIDE DEF w
<1>5. Kin(m.fp, w.fp) /\ (w.fp.dirty => w.fp.dsect >= database)
  BY <1>1, <1>2, <1>4, Zenon DEF Kin
<1>6. Hand(w, n, o, L, T, q)
  BY <1>4, <1>5, HandKin
<1> QED BY <1>2, <1>3, <1>4, <1>5, <1>6, Zenon

\* The position is at the start of the current cluster
AtHead(q, n, p) == p.clust \in Cluster /\ q.own[p.clust] = q.al[n] /\ p.fptr = q.idx[p.clust] * Bytes

\* Where f_lseek starts from: the first cluster, or the current one when going forward.
Started(m, s, n, o, L, T, r, ofs) ==
    /\ Hand(s, n, o, L, T, r) /\ Kith(m.fp, s.fp) /\ s.fp.err = m.fp.err /\ s.val \in Answer
    /\ s.val \in Cluster => AtHead(r, n, s.fp) /\ s.fp.fptr < ofs
    /\ s.val \notin Cluster => s.fp.fptr = 0

\* Forward from the current cluster.
LEMMA SeekForward ==
    ASSUME NEW m, NEW n, NEW o, NEW L, NEW T, NEW q, Hand(m, n, o, L, T, q), Placed(q, n, m.fp),
           m.fp.fptr > 0, NEW ofs \in Nat, ofs # 0, (ofs - 1) \div Bytes >= (m.fp.fptr - 1) \div Bytes
    PROVE  Started(m, [m EXCEPT !.fp.fptr = ((m.fp.fptr - 1) \div Bytes) * Bytes, !.val = m.fp.clust],
                   n, o, L, T, q, ofs)
<1> DEFINE p == m.fp
           i == q.idx[p.clust]
           y == ((p.fptr - 1) \div Bytes) * Bytes
           a == Positioned(m, y)
           s == Value(a, p.clust)
<1>1. m \in Machines /\ p \in OpenFile /\ q \in Certificate
  BY HandPlain
<1>2. p.fptr \in Nat /\ p.clust \in Cluster /\ q.own[p.clust] = q.al[n] /\ i \in Nat
      /\ i * Bytes < p.fptr /\ p.fptr <= (i + 1) * Bytes
  <2>1. p.fptr \in Nat
    BY <1>1, OpenFacts
  <2>2. p.fptr # 0
    BY <2>1
  <2> QED BY <1>1, <2>1, <2>2 DEF Placed, Certificate
<1>3. (p.fptr - 1) \div Bytes = i
  <2> HIDE DEF p, i
  <2> QED BY <1>2, PlaceOf
<1>4. y = i * Bytes /\ y \in Nat
  <2>1. i * Bytes \in Nat
    BY <1>2, ByteFacts
  <2> QED BY <1>3, <2>1
<1>5. y < ofs
  <2> DEFINE j == (ofs - 1) \div Bytes
  <2>1. ofs - 1 \in Nat /\ Bytes \in Nat \ {0}
    BY BytesNat
  <2>2. j \in Nat /\ j >= i
    BY <1>3, <2>1, DivParts
  <2>3. ofs - 1 = Bytes * j + ((ofs - 1) % Bytes) /\ (ofs - 1) % Bytes \in 0 .. Bytes - 1
    BY <2>1, DivParts
  <2>4. Bytes * i <= Bytes * j /\ Bytes * i \in Nat /\ Bytes * j \in Nat
    <3> HIDE DEF i, j
    <3> QED BY <1>2, <2>1, <2>2, MulMono
  <2>5. y = Bytes * i
    BY <1>4, <1>2, <2>1
  <2> DEFINE u == Bytes * i
             v == Bytes * j
             x == (ofs - 1) % Bytes
  <2>6. ofs - 1 = v + x /\ x \in Nat /\ u <= v /\ u \in Nat /\ v \in Nat /\ y = u
    BY <2>1, <2>3, <2>4, <2>5
  <2> HIDE DEF u, v, x, y
  <2> QED BY <2>6
<1> HIDE DEF y
<1>6. /\ Hand(a, n, o, L, T, q) /\ Kin(m.fp, a.fp) /\ a.fp.clust = m.fp.clust /\ a.fp.fptr = y /\ a.fp.err = m.fp.err
  <2>1. y \in Nat
    BY <1>4
  <2> QED BY <2>1, HandPos
<1> HIDE DEF a
<1>7. p.clust \in Answer /\ p.clust \in Int
  BY <1>2, AnswerFacts
<1>8. Hand(s, n, o, L, T, q) /\ s.fp = a.fp /\ s.val = p.clust
  BY <1>6, <1>7, HandValue
<1>9. s = [m EXCEPT !.fp.fptr = y, !.val = m.fp.clust]
  BY Zenon DEF a, Value, Positioned
<1> HIDE DEF s
<1>10. AtHead(q, n, s.fp)
  BY <1>2, <1>4, <1>6, <1>8, Zenon DEF AtHead
<1>11. Kith(m.fp, s.fp) /\ s.fp.err = m.fp.err
  BY <1>6, <1>8, Zenon DEF Kin, Kith
<1>12. Started(m, s, n, o, L, T, q, ofs)
  BY <1>2, <1>5, <1>6, <1>7, <1>8, <1>10, <1>11, Zenon DEF Started
<1> QED BY <1>9, <1>12, Zenon DEF y

\* From the first cluster.
LEMMA SeekFirst ==
    ASSUME NEW m, NEW n, NEW o, NEW L, NEW T, NEW q, Hand(m, n, o, L, T, q), m.fp.sclust # 0,
           NEW ofs \in Nat, ofs # 0
    PROVE  Started(m, [m EXCEPT !.fp.fptr = 0, !.fp.clust = m.fp.sclust, !.val = m.fp.sclust], n, o, L, T, q, ofs)
<1> DEFINE c == m.fp.sclust
           a == [m EXCEPT !.fp.clust = c, !.fp.fptr = 0]
           s == Value(a, c)
<1>1. m \in Machines /\ m.fp \in OpenFile /\ q \in Certificate /\ RootedAt(q, n, c, m.fp.fsize)
  BY HandPlain
<1>2. c \in Cluster /\ q.own[c] = q.al[n] /\ q.idx[c] = 0
  BY <1>1, Zenon DEF RootedAt
<1>3. s = [m EXCEPT !.fp.fptr = 0, !.fp.clust = m.fp.sclust, !.val = m.fp.sclust]
  <2>1. [m.fp EXCEPT !.clust = c, !.fptr = 0] = [m.fp EXCEPT !.fptr = 0, !.clust = c]
    BY <1>1 DEF OpenFile
  <2> DEFINE x == [m.fp EXCEPT !.clust = c, !.fptr = 0]
             y == [m.fp EXCEPT !.fptr = 0, !.clust = c]
  <2>2. s = [m EXCEPT !.fp = x, !.val = c] /\ [m EXCEPT !.fp.fptr = 0, !.fp.clust = m.fp.sclust, !.val = m.fp.sclust] = [m EXCEPT !.fp = y, !.val = c]
    BY Zenon DEF Value
  <2>3. x = y
    BY <2>1
  <2> HIDE DEF x, y, s
  <2> QED BY <2>2, <2>3
<1> HIDE DEF c
<1>4. /\ Hand(a, n, o, L, T, q) /\ Kin(m.fp, a.fp) /\ a.fp.clust = c /\ a.fp.fptr = 0 /\ a.fp.err = m.fp.err
  <2>1. c \in {0} \union Cluster /\ 0 \in Nat
    BY <1>2
  <2>2. a = Standing(m, c, 0)
    BY Zenon DEF Standing
  <2> HIDE DEF a
  <2> QED BY <2>1, <2>2, HandAt
<1> HIDE DEF a
<1>5. c \in Answer /\ c \in Int
  BY <1>2, AnswerFacts
<1>6. Hand(s, n, o, L, T, q) /\ s.fp = a.fp /\ s.val = c
  BY <1>4, <1>5, HandValue
<1> HIDE DEF s
<1>7. AtHead(q, n, s.fp)
  <2>1. 0 * Bytes = 0
    BY BytesNat
  <2> QED BY <1>2, <1>4, <1>6, <2>1, Zenon DEF AtHead
<1>8. Kith(m.fp, s.fp) /\ s.fp.err = m.fp.err
  BY <1>4, <1>6, Zenon DEF Kin, Kith
<1>9. s.fp.fptr < ofs
  BY <1>4, <1>6
<1>10. Started(m, s, n, o, L, T, q, ofs)
  BY <1>2, <1>5, <1>6, <1>7, <1>8, <1>9, Zenon DEF Started
<1> QED BY <1>3, <1>10, Zenon

\* From a first cluster just made.
LEMMA SeekMade ==
    ASSUME NEW m, NEW n, NEW o, NEW L, NEW T, NEW q, Hand(m, n, o, L, T, q), m.fp.sclust = 0,
           NEW ofs \in Nat, ofs # 0
    PROVE  LET c == create_chain(m, 0)
               s == IF c.val \in {1, DiskErr} THEN [c EXCEPT !.fp.fptr = 0]
                    ELSE [c EXCEPT !.fp.fptr = 0, !.fp.sclust = c.val, !.fp.clust = c.val] IN
           \E r : Started(m, s, n, o, L, T, r, ofs)
<1> DEFINE c == create_chain(m, 0)
           v == c.val
           p == [c.fp EXCEPT !.fptr = 0, !.sclust = v, !.clust = v]
           a == Positioned(c, 0)
           b == [c EXCEPT !.fp = p]
           s == IF v \in {1, DiskErr} THEN a ELSE b
<1>1. m.fp \in OpenFile /\ Hand(c, n, o, L, T, q) /\ c.fp = m.fp /\ v \in Answer
      /\ (v \in Cluster => q.own[v] = NoName /\ Fat(Seen(c))[v] = EndOfChain)
  BY HandPlain, HandFresh
<1>2. s = IF v \in {1, DiskErr} THEN [c EXCEPT !.fp.fptr = 0] ELSE [c EXCEPT !.fp.fptr = 0, !.fp.sclust = v, !.fp.clust = v]
  BY Zenon DEF Positioned
<1> HIDE DEF c
<1>3. c \in Machines /\ c.fp \in OpenFile /\ (c.fp.dirty => c.fp.dsect >= database) /\ RootedAt(q, n, c.fp.sclust, c.fp.fsize)
  BY <1>1, HandPlain
<1>4. CASE v \in {1, DiskErr}
  <2>1. /\ Hand(a, n, o, L, T, q) /\ Kin(c.fp, a.fp) /\ a.fp.fptr = 0 /\ a.fp.err = c.fp.err /\ a.val = v
    BY <1>1, HandPos
  <2> HIDE DEF a
  <2>2. v \notin Cluster
    BY <1>4, ClusterFacts
  <2>3. Started(m, a, n, o, L, T, q, ofs)
    BY <1>1, <2>1, <2>2, Zenon DEF Started, Kin, Kith
  <2> QED BY <1>2, <1>4, <2>3 DEF c, a, Positioned
<1>5. CASE v \notin {1, DiskErr}
  <2>1. v \in {0} \union Cluster
    BY <1>1, <1>5 DEF Answer
  <2> HIDE DEF v
  <2>2. /\ p \in OpenFile /\ p.slot = c.fp.slot /\ p.mode = c.fp.mode /\ p.sclust = v
        /\ p.fsize = c.fp.fsize /\ p.written = c.fp.written /\ p.err = c.fp.err /\ p.dirty = c.fp.dirty /\ p.dsect = c.fp.dsect
        /\ p.fptr = 0 /\ p.clust = v
    BY <1>3, <2>1 DEF OpenFile
  <2> HIDE DEF p
  <2>3. Local(c, b) /\ b.fp = p /\ b.val = c.val
    BY <1>3, <2>2, WithFile
  <2> HIDE DEF b
  <2>4. Kith(m.fp, b.fp) /\ b.fp.err = m.fp.err /\ b.fp.fptr = 0 /\ b.val = v /\ (b.fp.dirty => b.fp.dsect >= database)
    BY <1>1, <1>3, <2>2, <2>3, Zenon DEF Kith, v
  <2>5. CASE v = 0
    <3>1. Kin(c.fp, b.fp)
      BY <1>1, <2>2, <2>3, <2>5, Zenon DEF Kin
    <3>2. Hand(b, n, o, L, T, q)
      BY <1>1, <2>3, <2>4, <3>1, HandKin
    <3>3. Started(m, b, n, o, L, T, q, ofs)
      BY <2>4, <2>5, <3>2, AnswerFacts, Zenon DEF Started
    <3> QED BY <1>2, <1>5, <3>3 DEF c, v
  <2>6. CASE v \in Cluster
    <3>1. \E r : Hand(b, n, o, L, T, r) /\ Grows(q, r) /\ r.own[v] = q.al[n] /\ r.idx[v] = 0
      <4>1. /\ b.fp \in OpenFile /\ b.fp.sclust = v /\ b.fp.fsize = c.fp.fsize /\ b.fp.slot = c.fp.slot
            /\ b.fp.written = c.fp.written /\ b.fp.dirty = c.fp.dirty /\ b.fp.dsect = c.fp.dsect /\ c.fp.sclust = 0
        BY <1>1, <2>2, <2>3, Zenon
      <4>2. q.own[v] = NoName /\ Fat(Seen(c))[v] = EndOfChain
        BY <1>1, <2>6 DEF v
      <4> QED BY <1>1, <2>3, <2>6, <4>1, <4>2, HandRoot
    <3>2. PICK r : Hand(b, n, o, L, T, r) /\ Grows(q, r) /\ r.own[v] = q.al[n] /\ r.idx[v] = 0
      BY <3>1
    <3>3. AtHead(r, n, b.fp)
      <4>1. 0 * Bytes = 0
        BY BytesNat
      <4> QED BY <2>2, <2>3, <2>6, <3>2, <4>1, Zenon DEF AtHead, Grows
    <3>4. b.fp.fptr < ofs
      BY <2>4
    <3>5. Started(m, b, n, o, L, T, r, ofs)
      BY <2>4, <2>6, <3>2, <3>3, <3>4, AnswerFacts, Zenon DEF Started
    <3> QED BY <1>2, <1>5, <3>5 DEF c, v
  <2> QED BY <2>1, <2>5, <2>6
<1> QED BY <1>4, <1>5

\* The three together.
LEMMA StartOfSeekFacts ==
    ASSUME NEW m, NEW n, NEW o, NEW L, NEW T, NEW q, Hand(m, n, o, L, T, q), Placed(q, n, m.fp),
           NEW ofs \in Nat, ofs # 0
    PROVE  \E r : Started(m, StartOfSeek(m, ofs), n, o, L, T, r, ofs)
<1> DEFINE forward == m.fp.fptr > 0 /\ (ofs - 1) \div Bytes >= (m.fp.fptr - 1) \div Bytes
           c == create_chain(m, 0)
           s == IF c.val \in {1, DiskErr} THEN [c EXCEPT !.fp.fptr = 0]
                ELSE [c EXCEPT !.fp.fptr = 0, !.fp.sclust = c.val, !.fp.clust = c.val]
<1>1. StartOfSeek(m, ofs) =
        IF forward THEN [m EXCEPT !.fp.fptr = ((m.fp.fptr - 1) \div Bytes) * Bytes, !.val = m.fp.clust]
        ELSE IF m.fp.sclust # 0 THEN [m EXCEPT !.fp.fptr = 0, !.fp.clust = m.fp.sclust, !.val = m.fp.sclust]
        ELSE s
  BY Zenon DEF StartOfSeek, Bytes
<1>2. CASE forward
  <2>1. Started(m, [m EXCEPT !.fp.fptr = ((m.fp.fptr - 1) \div Bytes) * Bytes, !.val = m.fp.clust],
                   n, o, L, T, q, ofs)
    BY <1>2, SeekForward
  <2> HIDE DEF forward
  <2> QED BY <1>1, <1>2, <2>1, Zenon
<1>3. CASE ~forward /\ m.fp.sclust # 0
  <2>1. Started(m, [m EXCEPT !.fp.fptr = 0, !.fp.clust = m.fp.sclust, !.val = m.fp.sclust], n, o, L, T, q, ofs)
    BY <1>3, SeekFirst
  <2> HIDE DEF forward
  <2> QED BY <1>1, <1>3, <2>1, Zenon
<1>4. CASE ~forward /\ m.fp.sclust = 0
  <2>1. \E r : Started(m, s, n, o, L, T, r, ofs)
    BY <1>4, SeekMade
  <2> HIDE DEF forward, s
  <2> QED BY <1>1, <1>4, <2>1, Zenon
<1> QED BY <1>2, <1>3, <1>4

\* On the way to end, k links or more from base; val is 0 once the disk is full
Chased(w, n, r, base, end, k) ==
    \/ w.res # "FR_OK" /\ w.fp.err # "FR_OK"
    \/ w.res = "FR_OK" /\ w.fp.err = "FR_OK" /\ w.val = 0 /\ Placed(r, n, w.fp) /\ w.fp.fptr % SS = 0
    \/ /\ w.res = "FR_OK" /\ w.fp.err = "FR_OK" /\ w.val # 0 /\ AtHead(r, n, w.fp) /\ w.fp.fptr < end
       /\ end - w.fp.fptr <= Bytes \/ w.fp.fptr >= base + k * Bytes

\* The state of f_lseek's loop after k rounds.
Chase(m, w, n, o, L, T, base, end, k) ==
    \E r : Hand(w, n, o, L, T, r) /\ Kith(m.fp, w.fp) /\ Chased(w, n, r, base, end, k)

\* It does not matter what came before.
LEMMA ChaseAfter ==
    ASSUME NEW m, NEW u, NEW w, NEW n, NEW o, NEW L, NEW T, NEW base, NEW end, NEW k,
           Kith(m.fp, u.fp), Chase(u, w, n, o, L, T, base, end, k)
    PROVE  Chase(m, w, n, o, L, T, base, end, k)
BY KithTrans, Zenon DEF Chase

\* The start of the next cluster is the end of this one
LEMMA HeadFacts ==
    ASSUME NEW q \in Certificate, NEW n, NEW p, p.clust \in Cluster, q.own[p.clust] = q.al[n]
    PROVE  /\ q.idx[p.clust] \in Nat /\ q.idx[p.clust] * Bytes \in Nat
           /\ (q.idx[p.clust] + 1) * Bytes = q.idx[p.clust] * Bytes + Bytes
           /\ (q.idx[p.clust] * Bytes) % SS = 0 /\ (q.idx[p.clust] * Bytes + Bytes) % SS = 0
<1> DEFINE i == q.idx[p.clust]
<1>1. i \in Nat
  BY DEF Certificate
<1> HIDE DEF i
<1>2. i * Bytes \in Nat /\ i * Bytes = SS * (CSize * i) /\ (i + 1) * Bytes = i * Bytes + Bytes /\ CSize * i \in Nat
      /\ (i + 1) * Bytes = SS * (CSize * (i + 1)) /\ CSize * (i + 1) \in Nat
  BY <1>1, ByteFacts
<1>3. \A s \in Nat : (SS * s) % SS = 0
  <2> TAKE s \in Nat
  <2>1. (SS * s + 0) % SS = 0
    BY FatFsAssumption, DivUnique
  <2> DEFINE x == SS * s
  <2>2. x \in Nat /\ x + 0 = x
    BY FatFsAssumption
  <2> QED BY <2>1, <2>2
<1> QED BY <1>1, <1>2, <1>3 DEF i

\* A pointer in the cluster whose start is known.
LEMMA HeadPlaced ==
    ASSUME NEW q \in Certificate, NEW n, NEW p, p.clust \in Cluster, q.own[p.clust] = q.al[n], NEW x \in Nat, x # 0, x <= Bytes,
           p.fptr = q.idx[p.clust] * Bytes + x
    PROVE  Placed(q, n, p)
<1> DEFINE y == q.idx[p.clust] * Bytes
           z == (q.idx[p.clust] + 1) * Bytes
<1>1. y \in Nat /\ z = y + Bytes /\ p.fptr = y + x /\ Bytes \in Nat
  BY HeadFacts, BytesNat
<1> HIDE DEF y, z
<1>2. y < p.fptr /\ p.fptr <= z
  BY <1>1
<1> QED BY <1>2 DEF Placed, y, z

\* A machine that stands at cluster c, byte y.
Stands(m, w, c, y, n, o, L, T, q) ==
    /\ Hand(w, n, o, L, T, q) /\ Kin(m.fp, w.fp) /\ w.fp.clust = c /\ w.fp.fptr = y /\ w.fp.err = m.fp.err
    /\ w.res = m.res /\ w.val = m.val

\* Standing leads there.
LEMMA HandStands ==
    ASSUME NEW m, NEW n, NEW o, NEW L, NEW T, NEW q, Hand(m, n, o, L, T, q), NEW c, c \in {0} \union Cluster, NEW y, y \in Nat
    PROVE  Stands(m, Standing(m, c, y), c, y, n, o, L, T, q)
<1>1. c \in {0} \union Cluster /\ y \in Nat
  OBVIOUS
<1>2. LET w == Standing(m, c, y) IN
       /\ Hand(w, n, o, L, T, q) /\ Kin(m.fp, w.fp) /\ w.fp.clust = c /\ w.fp.fptr = y /\ w.fp.err = m.fp.err
       /\ w.fp.dirty = m.fp.dirty /\ w.fp.dsect = m.fp.dsect /\ w.res = m.res /\ w.val = m.val
  BY <1>1, HandAt
<1> QED BY <1>2, Zenon DEF Stands

\* A round that goes on
LEMMA SeekGo ==
    ASSUME NEW m, NEW n, NEW o, NEW L, NEW T, NEW q, Hand(m, n, o, L, T, q), AtHead(q, n, m.fp), m.fp.err = "FR_OK",
           NEW end \in Nat, end - m.fp.fptr > Bytes, NEW base \in Nat, NEW k \in Nat,
           m.fp.fptr >= base + k * Bytes, m.val # 0, m.res = "FR_OK"
    PROVE  Chase(m, SeekRound(m, end), n, o, L, T, base, end, k + 1)
<1> DEFINE writer == "WRITE" \in m.fp.mode
           g == IF writer THEN create_chain(m, m.fp.clust) ELSE get_fat(m, m.fp.clust)
           c == m.fp.clust
           y == g.fp.fptr + Bytes
           a == [[g EXCEPT !.fp.fptr = y] EXCEPT !.res = "FR_OK"]
           b == Standing(g, g.val, y)
           w == SeekRound(m, end)
<1>1. m \in Machines /\ m.fp \in OpenFile /\ (m.fp.dirty => m.fp.dsect >= database) /\ n \in Name /\ q \in Certificate
  BY HandPlain
<1>2. c \in Cluster /\ q.own[c] = q.al[n] /\ m.fp.fptr = q.idx[c] * Bytes /\ m.fp.fptr \in Nat
  BY <1>1, OpenFacts DEF AtHead
<1>3. /\ q.idx[c] \in Nat /\ (q.idx[c] + 1) * Bytes = m.fp.fptr + Bytes /\ (m.fp.fptr + Bytes) % SS = 0
  <2>1. /\ q.idx[c] \in Nat /\ q.idx[c] * Bytes \in Nat
        /\ (q.idx[c] + 1) * Bytes = q.idx[c] * Bytes + Bytes
        /\ (q.idx[c] * Bytes) % SS = 0 /\ (q.idx[c] * Bytes + Bytes) % SS = 0
    BY <1>1, <1>2, HeadFacts
  <2> QED BY <1>2, <2>1
<1>4. w = IF "WRITE" \in g.fp.mode /\ "WRITE" \in m.fp.mode /\ g.val = 0 THEN a
          ELSE IF writer /\ g.val = 0 THEN a
          ELSE IF g.val = DiskErr THEN Abort(g, "FR_DISK_ERR")
          ELSE IF g.val \notin Cluster THEN Abort(g, "FR_INT_ERR")
          ELSE b
  <2>1. ~(m.res # "FR_OK" \/ m.val = 0 \/ end - m.fp.fptr <= CSize * SS)
    <3>1. Bytes = CSize * SS
      BY DEF Bytes
    <3> DEFINE e == CSize * SS
    <3>2. e = Bytes /\ Bytes \in Nat
      BY <3>1, BytesNat
    <3> HIDE DEF e
    <3>3. ~(end - m.fp.fptr <= e)
      BY <1>2, <3>2
    <3> QED BY <3>3 DEF e
  <2>2. [g EXCEPT !.fp.fptr = @ + CSize * SS, !.res = "FR_OK"] = a
    BY Zenon DEF Bytes
  <2>3. [g EXCEPT !.fp.clust = g.val, !.fp.fptr = @ + CSize * SS] = b
    BY Zenon DEF Bytes, Standing
  <2>4. w = IF writer /\ g.val = 0 THEN [g EXCEPT !.fp.fptr = @ + CSize * SS, !.res = "FR_OK"]
          ELSE IF g.val = DiskErr THEN Abort(g, "FR_DISK_ERR")
          ELSE IF g.val \notin Cluster THEN Abort(g, "FR_INT_ERR")
          ELSE [g EXCEPT !.fp.clust = g.val, !.fp.fptr = @ + CSize * SS]
    BY <2>1, Zenon DEF SeekRound
  <2> HIDE DEF a, b, w, g
  <2> QED BY <2>2, <2>3, <2>4, Zenon
<1>5. /\ g.fp = m.fp /\ g.val \in Answer \union {EndOfChain}
      /\ \E r : /\ Hand(g, n, o, L, T, r) /\ Placed(r, n, [clust |-> c, fptr |-> y])
                /\ g.val \in Cluster => g.res = "FR_OK" /\ r.own[g.val] = r.al[n] /\ r.idx[g.val] = q.idx[c] + 1
  <2>1. CASE writer
    <3>1. LET v == create_chain(m, c) IN v.fp = m.fp /\ v.val \in Answer /\ \E r : LinkedBehind(m, v, n, o, L, T, q, c, r)
      BY <1>2, HandBehind
    <3>2. g = create_chain(m, c)
      BY <2>1
    <3> HIDE DEF g
    <3>3. g.fp = m.fp /\ g.val \in Answer /\ \E r : LinkedBehind(m, g, n, o, L, T, q, c, r)
      BY <3>1, <3>2, Zenon
    <3>4. PICK r : LinkedBehind(m, g, n, o, L, T, q, c, r)
      BY <3>3
    <3>5. /\ Hand(g, n, o, L, T, r) /\ Grows(q, r)
          /\ g.val \in Cluster => g.res = "FR_OK" /\ r.own[g.val] = r.al[n] /\ r.idx[g.val] = q.idx[c] + 1
      BY <3>4, Zenon DEF LinkedBehind
    <3>6. r \in Certificate /\ r.own[c] = r.al[n] /\ r.idx[c] = q.idx[c]
      <4>1. q.al[n] # NoName
        BY <1>1, FatFsAssumption DEF Certificate
      <4>2. r \in Certificate
        BY <3>5, HandPlain
      <4> QED BY <1>2, <3>5, <4>1, <4>2 DEF Grows
    <3>7. Placed(r, n, [clust |-> c, fptr |-> y])
      <4> DEFINE p == [clust |-> c, fptr |-> y]
      <4>1. p.clust = c /\ p.fptr = r.idx[c] * Bytes + Bytes
        BY <1>2, <3>3, <3>6
      <4> HIDE DEF p
      <4>2. Bytes \in Nat /\ Bytes # 0 /\ Bytes <= Bytes
        BY BytesNat
      <4>3. Placed(r, n, p)
        BY <1>2, <3>6, <4>1, <4>2, HeadPlaced
      <4> QED BY <4>3 DEF p
    <3> QED BY <3>3, <3>5, <3>7
  <2>2. CASE ~writer
    <3>1. LET v == get_fat(m, c) IN
           /\ Hand(v, n, o, L, T, q) /\ v.fp = m.fp
           /\ \/ v.res = "FR_DISK_ERR" /\ v.val = DiskErr
              \/ v.res = "FR_OK" /\ v.val = EndOfChain
              \/ v.res = "FR_OK" /\ v.val \in Cluster /\ q.own[v.val] = q.al[n] /\ q.idx[v.val] = q.idx[c] + 1
      BY <1>2, HandGet
    <3>2. g = get_fat(m, c)
      BY <2>2
    <3> HIDE DEF g
    <3>3. /\ Hand(g, n, o, L, T, q) /\ g.fp = m.fp
          /\ \/ g.res = "FR_DISK_ERR" /\ g.val = DiskErr
             \/ g.res = "FR_OK" /\ g.val = EndOfChain
             \/ g.res = "FR_OK" /\ g.val \in Cluster /\ q.own[g.val] = q.al[n] /\ q.idx[g.val] = q.idx[c] + 1
      BY <3>1, <3>2, Zenon
    <3>4. Placed(q, n, [clust |-> c, fptr |-> y])
      <4> DEFINE p == [clust |-> c, fptr |-> y]
      <4>1. p.clust = c /\ p.fptr = q.idx[c] * Bytes + Bytes
        BY <1>2, <3>3
      <4> HIDE DEF p
      <4>2. Bytes \in Nat /\ Bytes # 0 /\ Bytes <= Bytes
        BY BytesNat
      <4>3. Placed(q, n, p)
        BY <1>1, <1>2, <4>1, <4>2, HeadPlaced
      <4> QED BY <4>3 DEF p
    <3>5. g.val \in Cluster => g.res = "FR_OK" /\ q.own[g.val] = q.al[n] /\ q.idx[g.val] = q.idx[c] + 1
      BY <3>3, ClusterFacts
    <3>6. g.val \in Answer \union {EndOfChain}
      BY <3>3, AnswerFacts
    <3> QED BY <3>3, <3>4, <3>5, <3>6
  <2> QED BY <2>1, <2>2
<1> HIDE DEF g
<1>6. PICK r : /\ Hand(g, n, o, L, T, r) /\ Placed(r, n, [clust |-> c, fptr |-> y])
               /\ g.val \in Cluster => g.res = "FR_OK" /\ r.own[g.val] = r.al[n] /\ r.idx[g.val] = q.idx[c] + 1
  BY <1>5
<1>7. y \in Nat /\ y = m.fp.fptr + Bytes /\ y < end /\ y % SS = 0
  BY <1>2, <1>3, <1>5, BytesNat
<1>8. Kith(m.fp, g.fp)
  BY <1>1, <1>5, Zenon DEF Kith
<1> HIDE DEF y, w
<1>9. CASE g.val = 0 /\ writer
  <2> DEFINE e == Positioned(g, y)
  <2>1. Hand(e, n, o, L, T, r) /\ Kin(g.fp, e.fp) /\ e.fp.clust = g.fp.clust /\ e.fp.fptr = y /\ e.fp.err = g.fp.err /\ e.val = g.val
    <3>1. y \in Nat /\ Hand(g, n, o, L, T, r)
      BY <1>6, <1>7
    <3>2. /\ Hand(e, n, o, L, T, r) /\ Kin(g.fp, e.fp) /\ e.fp.clust = g.fp.clust /\ e.fp.fptr = y /\ e.fp.err = g.fp.err
          /\ e.fp.dirty = g.fp.dirty /\ e.fp.dsect = g.fp.dsect /\ e.res = g.res /\ e.val = g.val
      BY <3>1, HandPos, Zenon
    <3> QED BY <3>2
  <2> HIDE DEF e
  <2>2. Hand(Return(e, "FR_OK"), n, o, L, T, r) /\ Return(e, "FR_OK").fp = e.fp /\ Return(e, "FR_OK").res = "FR_OK"
        /\ Return(e, "FR_OK").val = e.val
    BY <2>1, OkResult, HandReturn
  <2>3. a = Return(e, "FR_OK")
    BY Zenon DEF Return, Positioned, e
  <2> HIDE DEF a
  <2>4. Placed(r, n, a.fp) /\ a.fp.fptr % SS = 0
    <3>1. a.fp.clust = c /\ a.fp.fptr = y
      BY <1>5, <2>1, <2>2, <2>3
    <3> QED BY <1>6, <1>7, <3>1 DEF Placed
  <2>5. Kith(m.fp, a.fp)
    BY <1>5, <2>1, <2>2, <2>3, Zenon DEF Kin, Kith
  <2>6. a.res = "FR_OK" /\ a.fp.err = "FR_OK" /\ a.val = 0
    BY <1>5, <1>9, <2>1, <2>2, <2>3
  <2>7. Chase(m, a, n, o, L, T, base, end, k + 1)
    BY <2>2, <2>3, <2>4, <2>5, <2>6, Zenon DEF Chase, Chased
  <2>8. w = a
    BY <1>4, <1>9
  <2> QED BY <2>7, <2>8 DEF w
<1>10. CASE ~(g.val = 0 /\ writer) /\ g.val \notin Cluster
  <2>1. w \in {Abort(g, "FR_DISK_ERR"), Abort(g, "FR_INT_ERR")}
    <3> HIDE DEF a, b
    <3> QED BY <1>4, <1>10
  <2>2. \A x \in {"FR_DISK_ERR", "FR_INT_ERR"} : Chase(m, Abort(g, x), n, o, L, T, base, end, k + 1)
    <3> TAKE x \in {"FR_DISK_ERR", "FR_INT_ERR"}
    <3>1. x \in Result /\ x # "FR_OK"
      BY OkResult
    <3> DEFINE u == Abort(g, x)
    <3>2. Hand(u, n, o, L, T, r) /\ Kin(g.fp, u.fp) /\ u.fp.err = x /\ u.res = x
      BY <1>6, <3>1, HandAbort
    <3> HIDE DEF u
    <3>3. Kith(m.fp, u.fp)
      BY <1>8, <3>2, KithTrans
    <3>4. Chase(m, u, n, o, L, T, base, end, k + 1)
      BY <3>1, <3>2, <3>3, Zenon DEF Chase, Chased
    <3> QED BY <3>4 DEF u
  <2> QED BY <2>1, <2>2 DEF w
<1>11. CASE g.val \in Cluster
  <2>1. w = b
    BY <1>4, <1>11, ClusterFacts
  <2>2. /\ Hand(b, n, o, L, T, r) /\ Kin(g.fp, b.fp) /\ b.fp.clust = g.val /\ b.fp.fptr = y /\ b.fp.err = g.fp.err
        /\ b.res = g.res /\ b.val = g.val
    <3> DEFINE v == g.val
    <3>1. v \in {0} \union Cluster /\ y \in Nat /\ Hand(g, n, o, L, T, r)
      BY <1>6, <1>7, <1>11
    <3>2. b = Standing(g, v, y)
      OBVIOUS
    <3> HIDE DEF v, b
    <3>3. Stands(g, b, v, y, n, o, L, T, r)
      BY <3>1, <3>2, HandStands
    <3> QED BY <3>3, Zenon DEF v, Stands
  <2> HIDE DEF b
  <2>3. AtHead(r, n, b.fp)
    <3>1. y = r.idx[g.val] * Bytes
      BY <1>3, <1>6, <1>7, <1>11
    <3> QED BY <1>6, <1>11, <2>2, <3>1, Zenon DEF AtHead
  <2>4. b.fp.fptr < end /\ b.val # 0 /\ b.res = "FR_OK" /\ b.fp.err = "FR_OK"
    BY <1>5, <1>6, <1>7, <1>11, <2>2, ClusterFacts
  <2>5. b.fp.fptr >= base + (k + 1) * Bytes
    <3> DEFINE x == k * Bytes
               z == (k + 1) * Bytes
    <3>1. x \in Nat /\ z = x + Bytes /\ Bytes \in Nat
      BY ByteFacts, BytesNat
    <3>2. m.fp.fptr >= base + x
      OBVIOUS
    <3> HIDE DEF x, z
    <3>3. b.fp.fptr >= base + z
      BY <1>2, <1>7, <2>2, <3>1, <3>2
    <3> QED BY <3>3 DEF z
  <2>6. Kith(m.fp, b.fp)
    BY <1>8, <2>2, KithTrans
  <2>7. Chase(m, b, n, o, L, T, base, end, k + 1)
    BY <2>2, <2>3, <2>4, <2>5, <2>6, Zenon DEF Chase, Chased
  <2> QED BY <2>1, <2>7 DEF w
<1> QED BY <1>9, <1>10, <1>11

\* One round of f_lseek's loop.
LEMMA SeekRoundFacts ==
    ASSUME NEW m, NEW w \in Machines, NEW n, NEW o, NEW L, NEW T, NEW base \in Nat, NEW end \in Nat, NEW k \in Nat,
           Chase(m, w, n, o, L, T, base, end, k)
    PROVE  Chase(m, SeekRound(w, end), n, o, L, T, base, end, k + 1)
<1>1. PICK r : Hand(w, n, o, L, T, r) /\ Kith(m.fp, w.fp) /\ Chased(w, n, r, base, end, k)
  BY Zenon DEF Chase
<1>2. w.fp.fptr \in Nat /\ Bytes \in Nat /\ CSize * SS = Bytes
  BY <1>1, HandPlain, OpenFacts, BytesNat DEF Bytes
<1>3. CASE w.res # "FR_OK" \/ w.val = 0 \/ end - w.fp.fptr <= Bytes
  <2>1. SeekRound(w, end) = w
    BY <1>2, <1>3, Zenon DEF SeekRound
  <2>2. Chased(w, n, r, base, end, k + 1)
    BY <1>1, <1>3, Zenon DEF Chased
  <2> QED BY <1>1, <2>1, <2>2, Zenon DEF Chase
<1>4. CASE ~(w.res # "FR_OK" \/ w.val = 0 \/ end - w.fp.fptr <= Bytes)
  <2>1. /\ w.res = "FR_OK" /\ w.fp.err = "FR_OK" /\ w.val # 0 /\ AtHead(r, n, w.fp) /\ w.fp.fptr < end
        /\ w.fp.fptr >= base + k * Bytes
    BY <1>1, <1>4, Zenon DEF Chased
  <2>2. end - w.fp.fptr > Bytes
    BY <1>2, <1>4
  <2>3. Chase(w, SeekRound(w, end), n, o, L, T, base, end, k + 1)
    BY <1>1, <2>1, <2>2, SeekGo
  <2> QED BY <1>1, <2>3, ChaseAfter
<1> QED BY <1>3, <1>4

\* A round more of the loop takes the chase a link on
LEMMA ChaseStart ==
    ASSUME NEW m, NEW n, NEW o, NEW L, NEW T, NEW q, Hand(m, n, o, L, T, q), m.fp.err = "FR_OK",
           m.val \in Cluster, AtHead(q, n, m.fp), NEW end \in Nat, m.fp.fptr < end
    PROVE  Chase(m, Return(m, "FR_OK"), n, o, L, T, m.fp.fptr, end, 0) /\ Return(m, "FR_OK") \in Machines
<1> DEFINE h == Return(m, "FR_OK")
<1>1. Hand(h, n, o, L, T, q) /\ h.fp = m.fp /\ h.res = "FR_OK" /\ h.val = m.val
  BY HandReturn, OkResult
<1> HIDE DEF h
<1>2. m.fp \in OpenFile /\ m.fp.fptr \in Nat /\ h \in Machines
  BY <1>1, HandPlain, OpenFacts
<1>3. h.val # 0
  BY <1>1, ClusterFacts
<1>4. h.fp.fptr >= m.fp.fptr + 0 * Bytes /\ h.fp.fptr < end
  BY <1>1, <1>2, BytesNat
<1>5. Kith(m.fp, h.fp)
  BY <1>1, <1>2, Zenon DEF Kith
<1>6. Chased(h, n, q, m.fp.fptr, end, 0)
  BY <1>1, <1>3, <1>4, Zenon DEF Chased
<1>7. Chase(m, h, n, o, L, T, m.fp.fptr, end, 0)
  BY <1>1, <1>5, <1>6, Zenon DEF Chase
<1> QED BY <1>2, <1>7 DEF h

\* f_lseek's loop.
Hunt(m, ofs) ==
    Loop(Return(m, "FR_OK"), ofs \div (CSize * SS), LAMBDA w, k : SeekRound(w, m.fp.fptr + ofs))

\* All of its rounds.
LEMMA HuntFacts ==
    ASSUME NEW m, NEW f, NEW o, NEW L, NEW T, NEW q, Hand(m, f, o, L, T, q), m.fp.err = "FR_OK",
           m.val \in Cluster, AtHead(q, f, m.fp), NEW ofs \in Nat, ofs # 0
    PROVE  Chase(m, Hunt(m, ofs), f, o, L, T, m.fp.fptr, m.fp.fptr + ofs, ofs \div Bytes)
<1> DEFINE n == ofs \div (CSize * SS)
           h == Return(m, "FR_OK")
           base == m.fp.fptr
           end == m.fp.fptr + ofs
           S == [k \in 0 .. n |-> {w \in Machines : Chase(m, w, f, o, L, T, base, end, k)}]
<1>1. n \in Nat
  BY FatFsAssumption, BytesNat, DivParts DEF Bytes
<1>2. base \in Nat /\ end \in Nat /\ base < end
  BY HandPlain, OpenFacts
<1>3. n = ofs \div Bytes
  BY DEF Bytes
<1>4. \A k \in 0 .. n : S[k] = {w \in Machines : Chase(m, w, f, o, L, T, base, end, k)}
  OBVIOUS
<1>5. Chase(m, h, f, o, L, T, base, end, 0) /\ h \in Machines
  <2> HIDE DEF S, n, h, end
  <2>1. m.fp.fptr < end /\ end \in Nat
    BY <1>2
  <2> QED BY <2>1, ChaseStart DEF h
<1> HIDE DEF S, n, h, base
<1>6. \A w \in Machines : \A k \in 0 .. n : Chase(m, w, f, o, L, T, base, end, k)
                         => Chase(m, SeekRound(w, m.fp.fptr + ofs), f, o, L, T, base, end, k + 1)
  <2> SUFFICES ASSUME NEW w \in Machines, NEW k \in 0 .. n, Chase(m, w, f, o, L, T, base, end, k)
               PROVE  Chase(m, SeekRound(w, end), f, o, L, T, base, end, k + 1)
    OBVIOUS
  <2> HIDE DEF end
  <2>1. k \in Nat
    BY <1>1
  <2> QED BY <1>2, <2>1, SeekRoundFacts
<1>7. h \in S[0]
  <2>1. 0 \in 0 .. n
    BY <1>1
  <2> QED BY <1>4, <1>5, <2>1
<1>8. \A k \in 1 .. n : \A w \in S[k - 1] : SeekRound(w, m.fp.fptr + ofs) \in S[k]
  <2> TAKE k \in 1 .. n
  <2> TAKE w \in S[k - 1]
  <2> DEFINE u == SeekRound(w, m.fp.fptr + ofs)
  <2>1. k - 1 \in 0 .. n /\ k \in 0 .. n /\ k - 1 + 1 = k
    BY <1>1
  <2>2. w \in Machines /\ Chase(m, w, f, o, L, T, base, end, k - 1)
    BY <1>4, <2>1
  <2>3. Chase(m, u, f, o, L, T, base, end, k - 1 + 1)
    BY <1>6, <2>1, <2>2
  <2> HIDE DEF u, end
  <2>4. Chase(m, u, f, o, L, T, base, end, k)
    BY <2>1, <2>3
  <2>5. u \in Machines
    BY <2>4, HandPlain DEF Chase
  <2>6. u \in S[k]
    BY <1>4, <2>1, <2>4, <2>5
  <2> QED BY <2>6 DEF u
<1>9. \A k \in 0 .. n : S[k] \subseteq Machines
  BY <1>4
<1> DEFINE g == [p \in Machines \X (1 .. n) |-> SeekRound(p[1], m.fp.fptr + ofs)]
<1>10. \A k \in 1 .. n : \A w \in Machines : g[<<w, k>>] = SeekRound(w, m.fp.fptr + ofs)
  OBVIOUS
<1> HIDE DEF g
<1>11. \E r : RunOf(n, S, h, g, r)
  <2>1. Steady(n, S, g)
    <3>1. \A k \in 1 .. n : \A w \in S[k - 1] : w \in Machines
      BY <1>1, <1>9
    <3> QED BY <3>1, <1>8, <1>10, Zenon DEF Steady
  <2> QED BY <1>1, <1>7, <2>1, RunExists
<1> DEFINE R == CHOOSE R : R = [k \in 0 .. n |-> IF k = 0 THEN h ELSE SeekRound(R[k - 1], m.fp.fptr + ofs)]
<1>12. R = [k \in 0 .. n |-> IF k = 0 THEN h ELSE SeekRound(R[k - 1], m.fp.fptr + ofs)]
  <2>1. PICK r : RunOf(n, S, h, g, r)
    BY <1>11, Zenon
  <2>2. \A k \in 0 .. n : k # 0 => g[<<r[k - 1], k>>] = SeekRound(r[k - 1], m.fp.fptr + ofs)
    <3> TAKE k \in 0 .. n
    <3>1. k # 0 => k \in 1 .. n /\ k - 1 \in 0 .. n
      BY <1>1
    <3> QED BY <2>1, <3>1, <1>9, <1>10, Zenon DEF RunOf
  <2>3. r = [k \in 0 .. n |-> IF k = 0 THEN h ELSE SeekRound(r[k - 1], m.fp.fptr + ofs)]
    <3> DEFINE a == [k \in 0 .. n |-> IF k = 0 THEN h ELSE g[<<r[k - 1], k>>]]
               b == [k \in 0 .. n |-> IF k = 0 THEN h ELSE SeekRound(r[k - 1], m.fp.fptr + ofs)]
    <3>1. \A k \in 0 .. n : a[k] = b[k]
      BY <2>2
    <3>2. a = b
      BY <3>1
    <3>3. r = a
      BY <2>1, Zenon DEF RunOf
    <3> QED BY <3>2, <3>3, Zenon
  <2> QED BY <2>3, Zenon
<1>13. Hunt(m, ofs) = R[n]
  BY Zenon DEF Hunt, Loop, h, n
<1> HIDE DEF R
<1>14. \A k \in 0 .. n : R[k] \in S[k]
  <2>1. R[0] = h /\ \A k \in 1 .. n : R[k] = SeekRound(R[k - 1], m.fp.fptr + ofs)
    BY <1>1, <1>12
  <2>2. R[0] \in S[0]
    BY <2>1, <1>7
  <2>3. \A k \in 1 .. n : R[k - 1] \in S[k - 1] => R[k] \in S[k]
    BY <2>1, <1>8, Zenon
  <2> QED BY <1>1, <2>2, <2>3, RunInduct
<1>15. Hunt(m, ofs) \in S[n]
  <2>1. n \in 0 .. n
    BY <1>1
  <2> QED BY <1>13, <1>14, <2>1, Zenon
<1>16. Chase(m, Hunt(m, ofs), f, o, L, T, base, end, n)
  <2>1. n \in 0 .. n
    BY <1>1
  <2> QED BY <2>1, <1>4, <1>15
<1> QED BY <1>3, <1>16 DEF base

\* What a part of a cluster comes to
LEMMA ReachFacts ==
    ASSUME NEW c \in Cluster, NEW i \in Nat, NEW x \in Nat, x # 0, x <= Bytes
    PROVE  /\ (i * Bytes + x) % SS = x % SS
           /\ x % SS # 0 => clust2sect(c) + (x \div SS) \in Sector /\ clust2sect(c) + (x \div SS) >= database
<1> DEFINE s == x \div SS
           r == x % SS
           a == CSize * i
           y == i * Bytes
<1>1. s \in Nat /\ r \in 0 .. SS - 1 /\ x = SS * s + r
  BY FatFsAssumption, DivParts
<1>2. y = SS * a /\ a \in Nat /\ y \in Nat /\ Bytes = SS * CSize
  BY ByteFacts
<1> HIDE DEF s, r, a, y
<1>3. (y + x) % SS = r
  <2> DEFINE u == SS * s
             v == SS * a
             t == SS * (a + s)
  <2>1. u \in Nat /\ v \in Nat /\ t = v + u
    BY <1>1, <1>2, FatFsAssumption
  <2>2. x = u + r /\ y = v
    BY <1>1, <1>2
  <2>3. (t + r) % SS = r
    <3>1. a + s \in Nat
      BY <1>1, <1>2
    <3> QED BY <1>1, <3>1, FatFsAssumption, DivUnique
  <2> HIDE DEF u, v, t
  <2>4. y + x = t + r
    BY <1>1, <2>1, <2>2
  <2> QED BY <2>3, <2>4
<1>4. r # 0 => s \in 0 .. CSize - 1
  <2> SUFFICES ASSUME r # 0 PROVE s \in 0 .. CSize - 1
    OBVIOUS
  <2> DEFINE u == SS * s
             v == SS * CSize
  <2>1. u \in Nat /\ v \in Nat /\ (u < v => s < CSize)
    BY <1>1, FatFsAssumption, MulMono
  <2>2. x = u + r /\ x <= v
    BY <1>1, <1>2
  <2> HIDE DEF u, v
  <2>3. u < v
    BY <1>1, <2>1, <2>2
  <2> QED BY <1>1, <2>1, <2>3, FatFsAssumption
<1>5. r # 0 => clust2sect(c) + s \in Sector /\ clust2sect(c) + s >= database
  BY <1>4, ClusterSector
<1> QED BY <1>3, <1>5 DEF s, r, y

\* Where f_lseek has come to: at a position of the chain, with its sector in val
Landed(m, w, n, o, L, T, r) ==
    /\ Hand(w, n, o, L, T, r) /\ Kith(m.fp, w.fp)
    /\ \/ w.res # "FR_OK" /\ w.fp.err # "FR_OK"
       \/ /\ w.res = "FR_OK" /\ w.fp.err = "FR_OK" /\ Placed(r, n, w.fp)
          /\ w.fp.fptr % SS # 0 => w.val \in Sector /\ w.val >= database

\* The rest of the way within the last cluster.
Reach(w, x) == [w EXCEPT !.fp.fptr = @ + x,
                         !.val = IF x % SS # 0 THEN clust2sect(w.fp.clust) + (x \div SS) ELSE 0]

\* It leaves the pointer placed.
LEMMA ReachLands ==
    ASSUME NEW m, NEW w, NEW n, NEW o, NEW L, NEW T, NEW r, Hand(w, n, o, L, T, r), Kith(m.fp, w.fp),
           w.res = "FR_OK", w.fp.err = "FR_OK", AtHead(r, n, w.fp), NEW x \in Nat, x # 0, x <= Bytes
    PROVE  Landed(m, Reach(w, x), n, o, L, T, r)
<1> DEFINE c == w.fp.clust
           y == w.fp.fptr + x
           v == IF x % SS # 0 THEN clust2sect(c) + (x \div SS) ELSE 0
           a == Positioned(w, y)
           b == Reach(w, x)
<1>1. c \in Cluster /\ r.own[c] = r.al[n] /\ w.fp.fptr = r.idx[c] * Bytes /\ r \in Certificate /\ w.fp.fptr \in Nat
  BY HandPlain, OpenFacts DEF AtHead
<1>2. r.idx[c] \in Nat
  BY <1>1, HeadFacts
<1>3. /\ y % SS = x % SS
      /\ x % SS # 0 => v \in Sector /\ v >= database
  BY <1>1, <1>2, ReachFacts
<1>4. y \in Nat /\ v \in Int
  <2>1. x % SS # 0 => v \in Int
    BY <1>3, SectorFacts
  <2> QED BY <1>1, <2>1
<1>5. b = Value(a, v)
  BY Zenon DEF Reach, Value, Positioned
<1>0. y = w.fp.fptr + x
  OBVIOUS
<1> HIDE DEF v, b, y
<1>6. Hand(a, n, o, L, T, r) /\ Kin(w.fp, a.fp) /\ a.fp.clust = c /\ a.fp.fptr = y /\ a.fp.err = w.fp.err /\ a.res = w.res
  BY <1>4, HandPos
<1> HIDE DEF a
<1>7. Hand(b, n, o, L, T, r) /\ b.fp = a.fp /\ b.res = a.res /\ b.val = v
  <2>1. LET u == Value(a, v) IN Hand(u, n, o, L, T, r) /\ u.fp = a.fp /\ u.res = a.res /\ u.val = v
    BY <1>4, <1>6, HandValue
  <2> QED BY <1>5, <2>1, Zenon
<1>8. Placed(r, n, b.fp)
  <2> DEFINE p == b.fp
  <2>1. p.clust = c /\ p.fptr = r.idx[c] * Bytes + x
    BY <1>0, <1>1, <1>6, <1>7
  <2> HIDE DEF p
  <2>2. Placed(r, n, p)
    BY <1>1, <2>1, HeadPlaced
  <2> QED BY <2>2 DEF p
<1>9. Kith(m.fp, b.fp)
  BY <1>6, <1>7, KithTrans
<1>10. b.fp.fptr % SS # 0 => b.val \in Sector /\ b.val >= database
  BY <1>3, <1>6, <1>7
<1>11. b.res = "FR_OK" /\ b.fp.err = "FR_OK"
  BY <1>6, <1>7
<1>12. Landed(m, b, n, o, L, T, r)
  BY <1>7, <1>8, <1>9, <1>10, <1>11, Zenon DEF Landed
<1> QED BY <1>12 DEF b

\* f_lseek from the first cluster of the way.
LEMMA SeekLoopFacts ==
    ASSUME NEW m, NEW n, NEW o, NEW L, NEW T, NEW q, Hand(m, n, o, L, T, q), m.fp.err = "FR_OK",
           m.val \in Cluster, AtHead(q, n, m.fp), NEW ofs \in Nat, ofs # 0
    PROVE  \E r : Landed(m, SeekLoop(m, ofs), n, o, L, T, r)
<1> DEFINE w == Hunt(m, ofs)
           end == m.fp.fptr + ofs
           x == end - w.fp.fptr
           k == ofs \div Bytes
<1>1. SeekLoop(m, ofs) = IF w.res # "FR_OK" \/ w.val = 0 THEN w ELSE Reach(w, x)
  BY Zenon DEF SeekLoop, Hunt, Reach
<1>2. Chase(m, w, n, o, L, T, m.fp.fptr, end, k)
  BY HuntFacts
<1>3. m.fp.fptr \in Nat /\ end \in Nat
  BY HandPlain, OpenFacts
<1> HIDE DEF w
<1>4. PICK r : Hand(w, n, o, L, T, r) /\ Kith(m.fp, w.fp) /\ Chased(w, n, r, m.fp.fptr, end, k)
  BY <1>2, Zenon DEF Chase
<1>5. CASE w.res # "FR_OK"
  <2>1. Landed(m, w, n, o, L, T, r)
    BY <1>4, <1>5, Zenon DEF Landed, Chased
  <2> QED BY <1>1, <1>5, <2>1
<1>6. CASE w.res = "FR_OK" /\ w.val = 0
  <2>1. Landed(m, w, n, o, L, T, r)
    BY <1>4, <1>6, Zenon DEF Landed, Chased
  <2> QED BY <1>1, <1>6, <2>1
<1>7. CASE w.res = "FR_OK" /\ w.val # 0
  <2>1. /\ w.fp.err = "FR_OK" /\ AtHead(r, n, w.fp) /\ w.fp.fptr < end
        /\ end - w.fp.fptr <= Bytes \/ w.fp.fptr >= m.fp.fptr + k * Bytes
    BY <1>4, <1>7, Zenon DEF Chased
  <2>2. w.fp.fptr \in Nat
    BY <1>4, HandPlain, OpenFacts
  <2>3. x \in Nat /\ x # 0 /\ x <= Bytes
    <3> DEFINE g == ofs % Bytes
               z == Bytes * k
    <3>1. k \in Nat /\ g \in 0 .. Bytes - 1 /\ ofs = z + g
      BY BytesNat, DivParts
    <3>2. k * Bytes = z /\ z \in Nat
      BY <3>1, BytesNat
    <3>3. end - w.fp.fptr <= Bytes \/ w.fp.fptr >= m.fp.fptr + z
      BY <2>1, <3>2
    <3> HIDE DEF g, z, k
    <3> QED BY <1>3, <2>1, <2>2, <3>1, <3>2, <3>3, BytesNat
  <2> HIDE DEF x
  <2>4. Landed(m, Reach(w, x), n, o, L, T, r)
    BY <1>4, <1>7, <2>1, <2>3, ReachLands
  <2> QED BY <1>1, <1>7, <2>4
<1> QED BY <1>5, <1>6, <1>7

\* f_lseek behind its loop: the size grows with the pointer, the sector is loaded.
SeekEnd(k) ==
    LET Enlarge(l) == IF l.fp.fptr > l.fp.fsize
                     THEN [l EXCEPT !.fp.fsize = l.fp.fptr, !.fp.written = TRUE] ELSE l
        Load(w) == OrAbort(IF w.fp.fptr % SS # 0 /\ w.val # w.fp.dsect
                           THEN LoadBuffer(w, w.val) ELSE w, Enlarge) IN
    IfOk(k, Load)

\* What f_lseek does from where it has come to
LEMMA SeekEndFacts ==
    ASSUME NEW m, NEW k, NEW n, NEW o, NEW L, NEW T, NEW r, Landed(m, k, n, o, L, T, r)
    PROVE  Kept(m, SeekEnd(k), n, o, L, T, r)
<1> DEFINE u == IF k.fp.fptr % SS # 0 /\ k.val # k.fp.dsect THEN LoadBuffer(k, k.val) ELSE k
           z == u.fp.fptr
           e == Resized(u, z)
           w == SeekEnd(k)
<1>1. w = IF k.res # "FR_OK" THEN k ELSE IF u.res # "FR_OK" THEN Abort(u, "FR_DISK_ERR")
          ELSE IF u.fp.fptr > u.fp.fsize THEN e ELSE u
  BY Zenon DEF SeekEnd, IfOk, OrAbort, Resized
<1>2. /\ Hand(k, n, o, L, T, r) /\ Kith(m.fp, k.fp)
      /\ \/ k.res # "FR_OK" /\ k.fp.err # "FR_OK"
         \/ /\ k.res = "FR_OK" /\ k.fp.err = "FR_OK" /\ Placed(r, n, k.fp)
            /\ k.fp.fptr % SS # 0 => k.val \in Sector /\ k.val >= database
  BY Zenon DEF Landed
<1>3. k \in Machines /\ k.fp \in OpenFile /\ (k.fp.dirty => k.fp.dsect >= database) /\ k.fp.fptr \in Nat
  BY <1>2, HandPlain, OpenFacts
<1>4. CASE k.res # "FR_OK"
  <2>1. Kept(m, k, n, o, L, T, r)
    BY <1>2, <1>4, Zenon DEF Kept, Kith
  <2> QED BY <1>1, <1>4, <2>1
<1>5. CASE k.res = "FR_OK"
  <2>1. /\ Hand(u, n, o, L, T, r) /\ Kin(k.fp, u.fp) /\ u.fp.clust = k.fp.clust /\ u.fp.fptr = k.fp.fptr
        /\ u.fp.err = k.fp.err /\ (u.res = "FR_OK" => BufOK(u.fp))
    <3>1. CASE k.fp.fptr % SS # 0 /\ k.val # k.fp.dsect
      <4>1. k.val \in Sector /\ k.val >= database
        BY <1>2, <1>5, <3>1
      <4>2. Buffers(k, u, 0) /\ (u.res = "FR_OK" => u.fp.dsect = k.val)
        BY <1>3, <3>1, <4>1, LoadBufferFacts
      <4> HIDE DEF u
      <4>3. Hand(u, n, o, L, T, r) /\ Kin(k.fp, u.fp)
        BY <1>2, <4>2, HandBuffers
      <4>4. u.fp.clust = k.fp.clust /\ u.fp.fptr = k.fp.fptr /\ u.fp.err = k.fp.err
        BY <1>3, <4>2 DEF Buffers, Slid
      <4>5. u.res = "FR_OK" => BufOK(u.fp)
        BY <4>1, <4>2 DEF BufOK
      <4> QED BY <4>3, <4>4, <4>5
    <3>2. CASE ~(k.fp.fptr % SS # 0 /\ k.val # k.fp.dsect)
      <4>1. u = k
        BY <3>2
      <4> HIDE DEF u
      <4>2. Kin(k.fp, k.fp)
        BY <1>3, Zenon DEF Kin
      <4>3. BufOK(k.fp)
        <5>1. k.fp.fptr % SS # 0 => k.fp.dsect >= database
          BY <1>2, <1>5, <3>2
        <5> QED BY <1>3, <5>1, Zenon DEF BufOK
      <4> QED BY <1>2, <4>1, <4>2, <4>3
    <3> QED BY <3>1, <3>2
  <2> HIDE DEF u
  <2>2. Placed(r, n, u.fp) /\ u.fp.err = "FR_OK"
    BY <1>2, <1>5, <2>1, Zenon DEF Placed
  <2>3. u.fp.slot = m.fp.slot
    BY <1>2, <2>1, Zenon DEF Kith, Kin
  <2>4. CASE u.res # "FR_OK"
    <3> DEFINE x == Abort(u, "FR_DISK_ERR")
    <3>1. Hand(x, n, o, L, T, r) /\ Kin(u.fp, x.fp) /\ x.fp.err = "FR_DISK_ERR"
      BY <2>1, OkResult, HandAbort
    <3> HIDE DEF x
    <3>2. Kept(m, x, n, o, L, T, r)
      BY <2>3, <3>1, Zenon DEF Kept, Kin
    <3>3. w = x
      BY <1>1, <1>5, <2>4 DEF x
    <3> QED BY <3>2, <3>3
  <2>5. CASE u.res = "FR_OK" /\ ~(u.fp.fptr > u.fp.fsize)
    <3>1. u.fp.fptr \in Nat /\ u.fp.fsize \in Nat
      BY <2>1, HandPlain, OpenFacts
    <3>2. u.fp.fptr <= u.fp.fsize
      BY <2>5, <3>1
    <3>3. Kept(m, u, n, o, L, T, r)
      BY <2>1, <2>2, <2>3, <2>5, <3>2, Zenon DEF Kept
    <3> QED BY <1>1, <1>5, <2>5, <3>3
  <2>6. CASE u.res = "FR_OK" /\ u.fp.fptr > u.fp.fsize
    <3>1. u \in Machines /\ u.fp \in OpenFile /\ (u.fp.dirty => u.fp.dsect >= database) /\ z \in Nat /\ u.fp.fsize \in Nat
      BY <2>1, HandPlain, OpenFacts
    <3>2. RootedAt(r, n, u.fp.sclust, z)
      BY <2>1, <2>2, PlacedWithin
    <3>3. z >= u.fp.fsize /\ u.fp.fptr <= z
      BY <2>6, <3>1
    <3>0. z = u.fp.fptr
      OBVIOUS
    <3> HIDE DEF z
    <3>5. /\ Local(u, e) /\ e.fp \in OpenFile /\ e.fp.slot = u.fp.slot /\ e.fp.mode = u.fp.mode
          /\ e.fp.sclust = u.fp.sclust /\ e.fp.clust = u.fp.clust /\ e.fp.fptr = u.fp.fptr /\ e.fp.err = u.fp.err
          /\ e.fp.dirty = u.fp.dirty /\ e.fp.dsect = u.fp.dsect /\ e.fp.fsize = z /\ e.fp.written
      BY <3>1, <3>3, SizedFacts
    <3> HIDE DEF e
    <3>6. Hand(e, n, o, L, T, r)
      <4>1. e.fp.fsize >= u.fp.fsize /\ (e.fp.dirty => e.fp.dsect >= database) /\ L \subseteq L
            /\ RootedAt(r, n, e.fp.sclust, e.fp.fsize)
        BY <3>1, <3>2, <3>3, <3>5
      <4> QED BY <2>1, <3>5, <4>1, HandStep
    <3>7. Placed(r, n, e.fp) /\ BufOK(e.fp)
      BY <2>1, <2>2, <2>6, <3>5, Zenon DEF Placed, BufOK
    <3>8. e.fp.fptr <= e.fp.fsize /\ e.fp.slot = m.fp.slot
      BY <2>3, <3>3, <3>5
    <3>9. Kept(m, e, n, o, L, T, r)
      BY <3>6, <3>7, <3>8, Zenon DEF Kept
    <3>10. w = e
      BY <1>1, <1>5, <2>6
    <3> QED BY <3>9, <3>10
  <2> QED BY <2>4, <2>5, <2>6
<1> QED BY <1>4, <1>5

\* f_lseek between its start and its end.
SeekGoal(s, ofs) ==
    IF s.val = 1 THEN Abort(s, "FR_INT_ERR")
    ELSE IF s.val = DiskErr THEN Abort(s, "FR_DISK_ERR")
    ELSE IF s.val = 0 THEN Return(s, "FR_OK")
    ELSE SeekLoop(s, ofs - s.fp.fptr)

\* It does not matter what came before.
LEMMA LandedAfter ==
    ASSUME NEW m, NEW u, NEW w, NEW n, NEW o, NEW L, NEW T, NEW r, Kith(m.fp, u.fp), Landed(u, w, n, o, L, T, r)
    PROVE  Landed(m, w, n, o, L, T, r)
BY KithTrans, Zenon DEF Landed

\* The pointer is placed, or the file aborted.
LEMMA SeekGoalFacts ==
    ASSUME NEW m, NEW s, NEW n, NEW o, NEW L, NEW T, NEW q, NEW ofs \in Nat, Started(m, s, n, o, L, T, q, ofs), m.fp.err = "FR_OK"
    PROVE  \E r : Landed(m, SeekGoal(s, ofs), n, o, L, T, r)
<1>1. /\ Hand(s, n, o, L, T, q) /\ Kith(m.fp, s.fp) /\ s.fp.err = "FR_OK" /\ s.val \in Answer
      /\ s.val \in Cluster => AtHead(q, n, s.fp) /\ s.fp.fptr < ofs
      /\ s.val \notin Cluster => s.fp.fptr = 0
  BY Zenon DEF Started
<1>2. \A x \in {"FR_INT_ERR", "FR_DISK_ERR"} : Landed(m, Abort(s, x), n, o, L, T, q)
  <2> TAKE x \in {"FR_INT_ERR", "FR_DISK_ERR"}
  <2> DEFINE u == Abort(s, x)
  <2>1. x \in Result /\ x # "FR_OK"
    BY OkResult
  <2>2. Hand(u, n, o, L, T, q) /\ Kin(s.fp, u.fp) /\ u.fp.err = x /\ u.res = x
    BY <1>1, <2>1, HandAbort
  <2> HIDE DEF u
  <2>3. Kith(m.fp, u.fp)
    BY <1>1, <2>2, KithTrans
  <2>4. Landed(m, u, n, o, L, T, q)
    BY <2>1, <2>2, <2>3, Zenon DEF Landed
  <2> QED BY <2>4 DEF u
<1>3. CASE s.val \in {1, DiskErr}
  <2>1. SeekGoal(s, ofs) \in {Abort(s, "FR_INT_ERR"), Abort(s, "FR_DISK_ERR")}
    BY <1>3 DEF SeekGoal
  <2> QED BY <1>2, <2>1
<1>4. CASE s.val = 0
  <2> DEFINE u == Return(s, "FR_OK")
  <2>1. SeekGoal(s, ofs) = u
    BY <1>4, ClusterFacts, LayoutFacts DEF SeekGoal
  <2>2. Hand(u, n, o, L, T, q) /\ u.fp = s.fp /\ u.res = "FR_OK"
    BY <1>1, HandReturn, OkResult
  <2> HIDE DEF u
  <2>3. u.fp.fptr = 0
    BY <1>1, <1>4, <2>2, ClusterFacts
  <2>4. u.fp.fptr % SS = 0
    BY <2>3, FatFsAssumption
  <2>5. Placed(q, n, u.fp)
    BY <2>3 DEF Placed
  <2>6. Landed(m, u, n, o, L, T, q)
    BY <1>1, <2>2, <2>4, <2>5, Zenon DEF Landed
  <2> QED BY <2>1, <2>6
<1>5. CASE s.val \in Cluster
  <2>1. SeekGoal(s, ofs) = SeekLoop(s, ofs - s.fp.fptr)
    BY <1>5, ClusterFacts DEF SeekGoal
  <2> DEFINE x == ofs - s.fp.fptr
  <2>2. x \in Nat /\ x # 0
    BY <1>1, <1>5, HandPlain, OpenFacts
  <2> HIDE DEF x
  <2>3. PICK r : Landed(s, SeekLoop(s, x), n, o, L, T, r)
    BY <1>1, <1>5, <2>2, SeekLoopFacts
  <2>4. Landed(m, SeekLoop(s, x), n, o, L, T, r)
    BY <1>1, <2>3, LandedAfter
  <2> QED BY <2>1, <2>4 DEF x
<1> QED BY <1>1, <1>3, <1>4, <1>5 DEF Answer

\* f_lseek keeps the file in order
LEMMA LseekFacts ==
    ASSUME NEW m, NEW n, NEW o, NEW L, NEW T, NEW q, Kept(m, m, n, o, L, T, q), NEW wanted \in Nat
    PROVE  \E r : Kept(m, f_lseek(m, wanted), n, o, L, T, r)
<1> DEFINE ofs == IF wanted > m.fp.fsize /\ "WRITE" \notin m.fp.mode THEN m.fp.fsize ELSE wanted
           z == [m EXCEPT !.fp.fptr = 0, !.val = 0, !.res = "FR_OK"]
           s == StartOfSeek(m, ofs)
           k == IF ofs = 0 THEN z ELSE SeekGoal(s, ofs)
           w == f_lseek(m, wanted)
<1>1. Hand(m, n, o, L, T, q) /\ m.fp \in OpenFile
  BY HandPlain DEF Kept
<1>2. w = IF m.fp.err # "FR_OK" THEN Return(m, m.fp.err) ELSE SeekEnd(k)
  BY Zenon DEF f_lseek, SeekGoal, SeekEnd
<1>3. CASE m.fp.err # "FR_OK"
  <2>1. m.fp.err \in Result
    BY <1>1, OpenFacts
  <2>2. LET r == Return(m, m.fp.err) IN Hand(r, n, o, L, T, q) /\ r.fp = m.fp
    BY <1>1, <2>1, HandReturn
  <2>3. Kept(m, w, n, o, L, T, q)
    BY <1>1, <1>2, <1>3, <2>2, Zenon DEF Kept
  <2> QED BY <2>3
<1>4. CASE m.fp.err = "FR_OK"
  <2>1. Placed(q, n, m.fp)
    BY <1>4, Zenon DEF Kept
  <2>2. ofs \in Nat
    BY <1>1, OpenFacts
  <2> HIDE DEF ofs
  <2>3. \E r : Landed(m, k, n, o, L, T, r)
    <3>1. CASE ofs = 0
      <4> DEFINE a == Positioned(m, 0)
                 b == Return(a, "FR_OK")
      <4>1. Hand(a, n, o, L, T, q) /\ Kin(m.fp, a.fp) /\ a.fp.fptr = 0 /\ a.fp.err = m.fp.err
        BY <1>1, BytesNat, HandPos
      <4> HIDE DEF a
      <4>2. Hand(b, n, o, L, T, q) /\ b.fp = a.fp /\ b.res = "FR_OK"
        BY <4>1, HandReturn, OkResult
      <4> HIDE DEF b
      <4>3. z = Value(b, 0)
        BY Zenon DEF a, b, Value, Return, Positioned
      <4> HIDE DEF z
      <4>4. Hand(z, n, o, L, T, q) /\ z.fp = b.fp /\ z.res = b.res
        <5>1. LET u == Value(b, 0) IN Hand(u, n, o, L, T, q) /\ u.fp = b.fp /\ u.res = b.res
          BY <4>2, HandValue
        <5> QED BY <4>3, <5>1, Zenon
      <4>5. z.fp.fptr % SS = 0 /\ Placed(q, n, z.fp)
        BY <4>1, <4>2, <4>4, FatFsAssumption DEF Placed
      <4>6. Kith(m.fp, z.fp) /\ z.fp.err = "FR_OK" /\ z.res = "FR_OK"
        BY <1>4, <4>1, <4>2, <4>4, Zenon DEF Kin, Kith
      <4>7. Landed(m, z, n, o, L, T, q)
        BY <4>4, <4>5, <4>6, Zenon DEF Landed
      <4> QED BY <3>1, <4>7
    <3>2. CASE ofs # 0
      <4>1. PICK r : Started(m, s, n, o, L, T, r, ofs)
        BY <1>1, <2>1, <2>2, <3>2, StartOfSeekFacts
      <4> HIDE DEF s
      <4>2. \E x : Landed(m, SeekGoal(s, ofs), n, o, L, T, x)
        BY <1>4, <2>2, <4>1, SeekGoalFacts
      <4> QED BY <3>2, <4>2
    <3> QED BY <3>1, <3>2
  <2> HIDE DEF k
  <2>4. \E r : Kept(m, SeekEnd(k), n, o, L, T, r)
    BY <2>3, SeekEndFacts
  <2> QED BY <1>2, <1>4, <2>4
<1> QED BY <1>3, <1>4

-------------------------------------------------------------------------------
(* f_sync: the entry of the file is written, then the window *)

\* The same file object in the hand of an application that has written it out
LEMMA HandWritten ==
    ASSUME NEW w, NEW n, NEW o, NEW L, NEW T, NEW q, Hand(w, n, o, L, T, q), NEW M, w.disk = Seen(w),
           Holds(Fat(Seen(w)), Dir(Seen(w)), [o EXCEPT ![n] = Parked(w.fp)], M, T, {}, q)
    PROVE  Hand(w, n, o, M, T, q)
<1> DEFINE o1 == [o EXCEPT ![n] = Parked(w.fp)]
<1>1. InOrder(w, o1, L, T, {}, q)
  BY Zenon DEF Hand
<1>2. Fine(w.disk, M)
  <2> HIDE DEF o1
  <2>1. Holds(Fat(Seen(w)), Dir(Seen(w)), o1, M, T, {}, q)
    BY DEF o1
  <2>2. Fine(Seen(w), M)
    BY <2>1, HeldFine
  <2> QED BY <2>2
<1>3. InOrder(w, o1, M, T, {}, q)
  BY <1>1, <1>2, Zenon DEF InOrder
<1> QED BY <1>3, Zenon DEF Hand

\* The FIL once its entry is written.
Unwritten(p) == [p EXCEPT !.written = FALSE]

\* Nothing else of it changes.
LEMMA UnwrittenFacts ==
    ASSUME NEW p \in OpenFile
    PROVE  LET e == Unwritten(p) IN
           /\ e \in OpenFile /\ e.slot = p.slot /\ e.mode = p.mode /\ e.sclust = p.sclust /\ e.clust = p.clust
           /\ e.fptr = p.fptr /\ e.fsize = p.fsize /\ e.err = p.err /\ e.dsect = p.dsect
           /\ e.dirty = p.dirty /\ ~e.written /\ Parked(e) = [Parked(p) EXCEPT !.written = FALSE]
<1> DEFINE e == Unwritten(p)
<1>1. /\ e \in OpenFile /\ e.slot = p.slot /\ e.mode = p.mode /\ e.sclust = p.sclust /\ e.clust = p.clust
      /\ e.fptr = p.fptr /\ e.fsize = p.fsize /\ e.err = p.err /\ e.dsect = p.dsect
  BY DEF OpenFile, Unwritten
<1>2. e.dirty = p.dirty /\ ~e.written
  BY Zenon DEF Unwritten, OpenFile
<1>3. Parked(e) = [Parked(p) EXCEPT !.written = FALSE]
  BY DEF OpenFile, Unwritten, Parked
<1> QED BY <1>1, <1>2, <1>3, Zenon

\* The entry of the file is brought up to date in the window: what happens between two moves
EntryOf(w, i, z, c) == [EntryAt(w, i) EXCEPT !.size = z, !.clust = c]

\* f_sync sets the entry.
Filing(w, i, z, c) == [SetEntry(w, i, EntryOf(w, i, z, c)) EXCEPT !.fp.written = FALSE]

\* The entry of the file in hand fits, and no other one changes.
LEMMA FilingFacts ==
    ASSUME NEW w, NEW n, NEW o, NEW L, NEW T, NEW q, Hand(w, n, o, L, T, q), Shows(w, DirSect(w.fp.slot))
    PROVE  LET u == Filing(w, w.fp.slot, w.fp.fsize, w.fp.sclust) IN
           /\ Hand(u, n, o, L, T, q) /\ u.fp = Unwritten(w.fp)
           /\ Holds(Fat(Seen(u)), Dir(Seen(u)), [o EXCEPT ![n] = Parked(u.fp)], L \ {n}, T, {}, q)
<1> DEFINE i == w.fp.slot
           p == w.fp
           o1 == [o EXCEPT ![n] = Parked(p)]
           D == Dir(Seen(w))
           F == Fat(Seen(w))
           e == EntryOf(w, i, p.fsize, p.sclust)
           D1 == [D EXCEPT ![i] = e]
           s == SetEntry(w, i, e)
           u == Filing(w, i, p.fsize, p.sclust)
           o2 == [o1 EXCEPT ![n].written = FALSE]
<1>1. HandParts(w, n, o, L, T, q, o1, D) /\ p \in OpenFile /\ n \in Name /\ o \in [Name -> File]
      /\ \A k \in Name : {n, k} \notin T
  BY HandFacts, Zenon DEF Hand
<1>2. /\ InOrder(w, o1, L, T, {}, q) /\ o1 \in [Name -> File] /\ o1[n] = Parked(p) /\ o1[n].open /\ w \in Machines /\ Sound(w)
      /\ Holds(F, D, o1, L, T, {}, q)
  BY <1>1, Zenon DEF HandParts
<1>3. i \in 0 .. NRootDir - 1 /\ o1[n].slot = i /\ o1[n].fsize = p.fsize /\ o1[n].sclust = p.sclust
  BY <1>1, <1>2, OpenFacts, ParkedFacts
<1>4. EntryAt(w, i) = D[i]
  BY <1>2, <1>3, ShownEntry
<1>5. e = [D[i] EXCEPT !.size = p.fsize, !.clust = p.sclust] /\ e \in DirEntry
  <2>1. e = [D[i] EXCEPT !.size = p.fsize, !.clust = p.sclust]
    BY <1>4, Zenon DEF EntryOf
  <2>2. D[i] \in DirEntry
    BY <1>2, <1>3, HoldsParts DEF Folder
  <2>3. p.fsize \in Nat /\ p.sclust \in {0} \union Cluster
    BY <1>1, OpenFacts
  <2> HIDE DEF e, D
  <2>4. [D[i] EXCEPT !.size = p.fsize, !.clust = p.sclust] \in DirEntry
    BY <2>2, <2>3 DEF DirEntry
  <2> QED BY <2>1, <2>4
<1> HIDE DEF o1, e, i
<1>6. \A M : L \ {n} \subseteq M => Holds(F, D1, o2, M, T, {}, q)
  <2> TAKE M
  <2> HAVE L \ {n} \subseteq M
  <2>1. Holds(F, [D EXCEPT ![o1[n].slot] = [D[o1[n].slot] EXCEPT !.size = o1[n].fsize, !.clust = o1[n].sclust]],
                 [o1 EXCEPT ![n].written = FALSE], M, T, {}, q)
    <3> HIDE DEF F, D, o2
    <3> QED BY <1>1, <1>2, EnterHolds
  <2> QED BY <1>3, <1>5, <2>1, Zenon
<1>7. InOrder(s, o2, L, T, {}, q) /\ EntrySet(w, s, i, e)
  <2> HIDE DEF o2, s
  <2>1. Holds(F, [D EXCEPT ![i] = e], o2, L, T, {}, q)
    BY <1>6, Zenon
  <2>2. Shows(w, DirSect(i))
    BY DEF i
  <2> QED BY <1>2, <1>3, <1>5, <2>1, <2>2, InOrderSetEntry DEF s
<1>8. s \in Machines /\ s.fp = p
  BY <1>7, InOrderFacts, Zenon DEF EntrySet, Keeps
<1> DEFINE v == [s EXCEPT !.fp = Unwritten(p)]
<1>9. u = v
  BY <1>8, Zenon DEF Filing, Unwritten, e
<1>10. /\ Unwritten(p) \in OpenFile /\ Parked(Unwritten(p)) = [Parked(p) EXCEPT !.written = FALSE]
  BY <1>1, UnwrittenFacts
<1> HIDE DEF s, u, p
<1>11. v \in Machines /\ Local(s, v) /\ v.fp = Unwritten(p)
  BY <1>8, <1>10, WithFile
<1> HIDE DEF v
<1>12. InOrder(v, o2, L, T, {}, q)
  <2> HIDE DEF o2
  <2> QED BY <1>7, <1>11, InOrderLocal
<1>13. o2 = [o EXCEPT ![n] = Parked(v.fp)]
  <2>1. o2 = [o1 EXCEPT ![n] = [Parked(p) EXCEPT !.written = FALSE]]
    BY <1>2, Zenon
  <2>2. o2 = [o1 EXCEPT ![n] = Parked(v.fp)]
    BY <1>10, <1>11, <2>1, Zenon
  <2> HIDE DEF o2
  <2> DEFINE y == Parked(v.fp)
             x == Parked(p)
  <2>3. [[o EXCEPT ![n] = x] EXCEPT ![n] = y] = [o EXCEPT ![n] = y]
    <3> HIDE DEF x, y
    <3> QED BY <1>1, ParkTwice
  <2> QED BY <2>2, <2>3, Zenon DEF o1
<1>14. Hand(v, n, o, L, T, q)
  BY <1>1, <1>10, <1>11, <1>12, <1>13, Zenon DEF Hand
<1>15. Fat(Seen(v)) = F /\ Dir(Seen(v)) = D1
  <2>1. Fat(Seen(v)) = Fat(Seen(s)) /\ Dir(Seen(v)) = Dir(Seen(s))
    BY <1>7, <1>11, InOrderFacts, LocalFacts
  <2>2. Fat(Seen(s)) = F /\ Dir(Seen(s)) = D1
    BY <1>7, Zenon DEF EntrySet
  <2> QED BY <2>1, <2>2, Zenon
<1>16. Holds(Fat(Seen(v)), Dir(Seen(v)), [o EXCEPT ![n] = Parked(v.fp)], L \ {n}, T, {}, q)
  <2>1. Holds(F, D1, o2, L \ {n}, T, {}, q)
    BY <1>6, Zenon
  <2> HIDE DEF o2, F, D1
  <2> QED BY <1>13, <1>15, <2>1, Zenon
<1> QED BY <1>9, <1>11, <1>14, <1>16, Zenon DEF u, p, i

\* The window keeps the file in hand.
LEMMA HandPasses ==
    ASSUME NEW m, NEW n, NEW o, NEW L, NEW T, NEW q, Hand(m, n, o, L, T, q), NEW w, Passes(m, w)
    PROVE  Hand(w, n, o, L, T, q) /\ w.fp = m.fp
<1>1. InOrder(m, [o EXCEPT ![n] = Parked(m.fp)], L, T, {}, q) /\ Sound(m)
  BY HandPlain, Zenon DEF Hand
<1>2. InOrder(w, [o EXCEPT ![n] = Parked(m.fp)], L, T, {}, q)
  BY <1>1, InOrderPasses
<1>3. Keeps(m, w)
  BY <1>1, PassesKeeps
<1>4. Hand(w, n, o, L, T, q)
  BY <1>2, <1>3, HandFat
<1> QED BY <1>3, <1>4, Zenon DEF Keeps

\* A call that leaves the file where it was
Same(p, w) ==
    /\ w \in OpenFile /\ w.slot = p.slot /\ w.mode = p.mode /\ w.sclust = p.sclust /\ w.clust = p.clust
    /\ w.fsize = p.fsize /\ w.err = p.err /\ w.fptr = p.fptr /\ w.dsect = p.dsect

\* A call that changes nothing of the FIL.
LEMMA KeptSame ==
    ASSUME NEW m, NEW w, NEW n, NEW o, NEW L, NEW T, NEW q, NEW M, Kept(m, m, n, o, L, T, q),
           Hand(w, n, o, M, T, q), Same(m.fp, w.fp)
    PROVE  Kept(m, w, n, o, M, T, q)
<1>1. w.fp.dirty => w.fp.dsect >= database
  BY HandPlain
<1>2. w.fp.err = "FR_OK" => Placed(q, n, w.fp) /\ w.fp.fptr <= w.fp.fsize
  BY Zenon DEF Kept, Same, Placed
<1>3. w.fp.err = "FR_OK" => BufOK(w.fp)
  <2>1. m.fp.err = "FR_OK" /\ m.fp.fptr % SS # 0 => m.fp.dsect >= database
    BY Zenon DEF Kept, BufOK
  <2> QED BY <1>1, <2>1, Zenon DEF BufOK, Same
<1> QED BY <1>2, <1>3, Zenon DEF Kept, Same

\* f_sync keeps the file in order; when it says so, the entry is on the medium
LEMMA SyncFacts ==
    ASSUME NEW m, NEW n, NEW o, NEW L, NEW T, NEW q, Kept(m, m, n, o, L, T, q)
    PROVE  LET w == f_sync(m) IN
           /\ Kept(m, w, n, o, L, T, q)
           /\ w.res = "FR_OK" => ~w.fp.written
           /\ w.res = "FR_OK" /\ m.fp.written => Kept(m, w, n, o, L \ {n}, T, q)
<1> DEFINE i == m.fp.slot
           b == WriteBack(m)
           v == move_window(b, DirSect(i))
           u == Filing(v, i, m.fp.fsize, m.fp.sclust)
           s == sync_fs(u)
           w == f_sync(m)
           a == Return(m, "FR_OK")
<1>1. w = IF ~m.fp.written THEN a ELSE IF b.res # "FR_OK" THEN b ELSE IF v.res # "FR_OK" THEN v ELSE s
  BY Zenon DEF f_sync, IfOk, Filing, EntryOf
<1>2. Hand(m, n, o, L, T, q) /\ m.fp \in OpenFile /\ m \in Machines /\ (m.fp.dirty => m.fp.dsect >= database)
  BY HandPlain DEF Kept
<1>3. i \in 0 .. NRootDir - 1 /\ DirSect(i) \in 0 .. database - 1
  <2>1. i \in 0 .. NRootDir - 1
    BY <1>2, OpenFacts
  <2>2. DirSect(i) \in dirbase .. database - 1
    BY <2>1, LayoutFacts
  <2> QED BY <2>1, <2>2, LayoutFacts
<1>4. Same(m.fp, m.fp)
  BY <1>2, Zenon DEF Same
<1>5. CASE ~m.fp.written
  <2>1. Hand(a, n, o, L, T, q) /\ a.fp = m.fp
    BY <1>2, HandReturn, OkResult
  <2> HIDE DEF a
  <2>2. Kept(m, a, n, o, L, T, q)
    BY <1>4, <2>1, KeptSame
  <2> QED BY <1>1, <1>5, <2>1, <2>2
<1>6. CASE m.fp.written
  <2>1. Hand(b, n, o, L, T, q) /\ Same(m.fp, b.fp)
    <3>1. Buffers(m, b, 0) /\ b.fp.dsect = m.fp.dsect
      BY <1>2, WriteBackFacts
    <3> HIDE DEF b
    <3>2. Hand(b, n, o, L, T, q)
      BY <1>2, <3>1, HandBuffers
    <3>3. b.fp.fptr = m.fp.fptr
      BY <1>2, <3>1, OpenFacts DEF Buffers, Slid
    <3>4. Same(m.fp, b.fp)
      BY <3>1, <3>3, Zenon DEF Same, Buffers, Slid
    <3> QED BY <3>2, <3>4
  <2> HIDE DEF b
  <2>2. Hand(v, n, o, L, T, q) /\ v.fp = b.fp /\ (v.res = "FR_OK" => Shows(v, DirSect(i)))
    <3>1. Sound(b)
      BY <2>1, HandPlain
    <3> HIDE DEF i
    <3>2. Passes(b, v) /\ (v.res = "FR_OK" => Shows(v, DirSect(i)))
      BY <1>3, <3>1, MoveWindowFacts
    <3> HIDE DEF v
    <3> QED BY <2>1, <3>2, HandPasses
  <2> HIDE DEF v
  <2>3. v.fp.slot = i /\ v.fp.fsize = m.fp.fsize /\ v.fp.sclust = m.fp.sclust
    BY <2>1, <2>2, Zenon DEF Same
  <2>4. Kept(m, b, n, o, L, T, q)
    BY <2>1, KeptSame
  <2>5. Kept(m, v, n, o, L, T, q)
    BY <2>1, <2>2, KeptSame
  <2>6. ASSUME v.res = "FR_OK"
        PROVE  /\ Kept(m, s, n, o, L, T, q) /\ ~s.fp.written
               /\ s.res = "FR_OK" => Kept(m, s, n, o, L \ {n}, T, q)
    <3>1. u = Filing(v, v.fp.slot, v.fp.fsize, v.fp.sclust)
      BY <2>3, Zenon
    <3>2. Shows(v, DirSect(v.fp.slot))
      BY <2>2, <2>3, <2>6, Zenon
    <3>3. LET x == Filing(v, v.fp.slot, v.fp.fsize, v.fp.sclust) IN
           /\ Hand(x, n, o, L, T, q) /\ x.fp = Unwritten(v.fp)
           /\ Holds(Fat(Seen(x)), Dir(Seen(x)), [o EXCEPT ![n] = Parked(x.fp)], L \ {n}, T, {}, q)
      <4>1. Hand(v, n, o, L, T, q)
        BY <2>2
      <4> HIDE DEF i, u
      <4> QED BY <3>2, <4>1, FilingFacts
    <3> HIDE DEF u, i
    <3>4. /\ Hand(u, n, o, L, T, q) /\ u.fp = Unwritten(v.fp)
          /\ Holds(Fat(Seen(u)), Dir(Seen(u)), [o EXCEPT ![n] = Parked(u.fp)], L \ {n}, T, {}, q)
      BY <3>1, <3>3, Zenon
    <3>5. Sound(u)
      BY <3>4, HandPlain
    <3>6. Passes(u, s) /\ (s.res = "FR_OK" => s.disk = Seen(u))
      BY <3>5, SyncFsFacts
    <3> HIDE DEF s
    <3>7. Hand(s, n, o, L, T, q) /\ s.fp = u.fp
      BY <3>4, <3>6, HandPasses
    <3>8. Same(m.fp, s.fp) /\ ~s.fp.written
      <4>1. v.fp \in OpenFile
        BY <2>2, HandPlain
      <4>2. LET e == Unwritten(v.fp) IN
             /\ e \in OpenFile /\ e.slot = v.fp.slot /\ e.mode = v.fp.mode /\ e.sclust = v.fp.sclust /\ e.clust = v.fp.clust
             /\ e.fptr = v.fp.fptr /\ e.fsize = v.fp.fsize /\ e.err = v.fp.err /\ e.dsect = v.fp.dsect /\ ~e.written
        BY <4>1, UnwrittenFacts
      <4>3. s.fp = Unwritten(v.fp) /\ v.fp = b.fp
        BY <2>2, <3>4, <3>7, Zenon
      <4> QED BY <2>1, <4>2, <4>3, Zenon DEF Same
    <3>9. Kept(m, s, n, o, L, T, q)
      BY <3>7, <3>8, KeptSame
    <3>10. ASSUME s.res = "FR_OK" PROVE Kept(m, s, n, o, L \ {n}, T, q)
      <4>1. Seen(s) = Seen(u) /\ s.disk = Seen(s)
        BY <3>6, <3>10, Zenon DEF Passes
      <4>2. Holds(Fat(Seen(s)), Dir(Seen(s)), [o EXCEPT ![n] = Parked(s.fp)], L \ {n}, T, {}, q)
        BY <3>4, <3>7, <4>1, Zenon
      <4> DEFINE M == L \ {n}
      <4> HIDE DEF M
      <4>3. Hand(s, n, o, M, T, q)
        BY <3>7, <4>1, <4>2, HandWritten DEF M
      <4>4. Kept(m, s, n, o, M, T, q)
        BY <3>8, <4>3, KeptSame
      <4> QED BY <4>4 DEF M
    <3> QED BY <3>8, <3>9, <3>10
  <2> HIDE DEF s
  <2> QED BY <1>1, <1>6, <2>4, <2>5, <2>6
<1> QED BY <1>5, <1>6

-------------------------------------------------------------------------------
(* f_close *)

\* A closed FIL.
LEMMA NoFileFacts == NoFile \in File /\ ~NoFile.open
BY Zenon DEF File, NoFile

\* A file whose entry is written may be let go: its clusters stay with the entry, or with nobody
LEMMA LetGo ==
    ASSUME NEW F, NEW D, NEW o, NEW L, NEW T, NEW q, Holds(F, D, o, L, T, {}, q),
           NEW n \in Name, o[n].open, ~o[n].written, \A k \in Name : {n, k} \notin T
    PROVE  \E r : Holds(F, D, With(o, n, NoFile), L, T, {}, r)
<1> DEFINE p == o[n]
           d == D[p.slot]
           o1 == With(o, n, NoFile)
<1>1. /\ F \in Table /\ D \in Folder /\ o \in [Name -> File] /\ q \in Certificate /\ DirOK(D) /\ Filed(D, o, L)
      /\ \A k \in Name : RootedAt(q, k, Root(D, o)[k], Size(D, o)[k])
  BY HoldsParts
<1>2. /\ p \in OpenFile /\ Entry(D, n) = d /\ Root(D, o)[n] = p.sclust /\ Size(D, o)[n] = p.fsize /\ d \in DirEntry
  BY SlotOpen
<1>3. Fits(d, p)
  BY <1>1, Zenon DEF Filed, FiledAt
<1>4. RootedAt(q, n, p.sclust, p.fsize)
  BY <1>1, <1>2, Zenon
<1>5. o1 \in [Name -> File] /\ o1[n] = NoFile /\ \A k \in Name : k # n => o1[k] = o[k]
  BY <1>1, NoFileFacts, Zenon DEF With
<1>6. FiledAt(D, n, NoFile, L) /\ PosOK(q, n, NoFile)
  BY NoFileFacts, Zenon DEF FiledAt, PosOK
<1>7. CASE d.clust = p.sclust /\ d.size <= p.fsize
  <2>1. RootedAt(q, n, p.sclust, d.size)
    <3>1. d.size \in Nat /\ p.fsize \in Nat
      BY <1>2 DEF DirEntry, OpenFile
    <3> DEFINE x == q.len[q.al[n]] * Bytes
    <3>2. x \in Nat
      <4>1. q.len[q.al[n]] \in Nat
        BY <1>1 DEF Certificate
      <4> QED BY <4>1, ByteFacts
    <3>3. \/ p.sclust = 0 /\ p.fsize = 0
          \/ p.sclust \in Cluster /\ q.own[p.sclust] = q.al[n] /\ q.idx[p.sclust] = 0 /\ p.fsize <= x
      BY <1>4, Zenon DEF RootedAt
    <3> HIDE DEF x, d, p
    <3>4. p.fsize = 0 => d.size = 0
      BY <1>7, <3>1
    <3>5. p.fsize <= x => d.size <= x
      BY <1>7, <3>1, <3>2
    <3> QED BY <3>3, <3>4, <3>5, Zenon DEF RootedAt, x
  <2> DEFINE z == IF NoFile.open THEN NoFile.fsize ELSE Entry(D, n).size
             y == IF NoFile.open THEN NoFile.sclust ELSE Entry(D, n).clust
  <2>2. z = d.size /\ y = p.sclust
    BY <1>2, <1>7, NoFileFacts, Zenon
  <2>3. z = (IF NoFile.open THEN NoFile.fsize ELSE Entry(D, n).size)
    OBVIOUS
  <2>4. (IF NoFile.open THEN NoFile.sclust ELSE Entry(D, n).clust) = Root(D, o)[n]
    BY <1>2, <2>2, Zenon
  <2> HIDE DEF z, d, o1
  <2>5. RootedAt(q, n, Root(D, o)[n], z)
    BY <1>2, <2>1, <2>2
  <2>6. Holds(F, D, [o EXCEPT ![n] = NoFile], L, T, {}, q)
    BY <1>6, <2>3, <2>4, <2>5, NoFileFacts, FileChange
  <2>7. Holds(F, D, o1, L, T, {}, q)
    BY <2>6, Zenon DEF o1, With
  <2> QED BY <2>7, Zenon DEF o1
<1>8. CASE d.clust = 0 /\ d.size = 0
  <2>1. Root(D, o1)[n] = 0 /\ Size(D, o1)[n] = 0
    BY <1>1, <1>2, <1>5, <1>8, NoFileFacts, RootType
  <2>2. Filed(D, o1, L)
    BY <1>1, <1>5, <1>6, Zenon DEF Filed
  <2>3. \A k \in Name : k # n => Root(D, o1)[k] = Root(D, o)[k] /\ Size(D, o1)[k] = Size(D, o)[k]
    BY <1>5, Zenon DEF Root, Size
  <2> HIDE DEF o1
  <2>4. \E r : Holds(F, D, o1, L, T, OwnedBy(q, {q.al[n]}), r)
    <3>1. ~o1[n].open
      BY <1>5, NoFileFacts, Zenon
    <3> QED BY <1>1, <1>5, <2>1, <2>2, <2>3, <3>1, DropRoot
  <2>5. \E r : Holds(F, D, o1, L, T, {}, r)
    BY <2>4, HoldsPlain
  <2> QED BY <2>5 DEF o1
<1> QED BY <1>3, <1>7, <1>8, Zenon DEF Fits

\* The FIL is given up.
Closing(m) == [m EXCEPT !.fp = NoFile]

\* It may be when its entry is written.
LEMMA ShutFile ==
    ASSUME NEW m, NEW n, NEW o, NEW L, NEW T, NEW q, Hand(m, n, o, L, T, q), ~m.fp.written
    PROVE  \E r : InOrder(Closing(m), [o EXCEPT ![n] = NoFile], L, T, {}, r)
<1> DEFINE w == Closing(m)
           o1 == [o EXCEPT ![n] = Parked(m.fp)]
           o2 == [o EXCEPT ![n] = NoFile]
           D == Dir(Seen(m))
           F == Fat(Seen(m))
<1>1. HandParts(m, n, o, L, T, q, o1, D) /\ m.fp \in OpenFile /\ n \in Name /\ o \in [Name -> File]
      /\ \A k \in Name : {n, k} \notin T
  BY HandFacts, Zenon DEF Hand
<1>2. /\ InOrder(m, o1, L, T, {}, q) /\ o1 \in [Name -> File] /\ o1[n] = Parked(m.fp) /\ o1[n].open /\ m \in Machines
      /\ Holds(F, D, o1, L, T, {}, q)
  BY <1>1, Zenon DEF HandParts
<1>3. o1[n].written = m.fp.written
  BY <1>1, <1>2, ParkedFacts
<1> HIDE DEF o1, F, D
<1>4. PICK r : Holds(F, D, With(o1, n, NoFile), L, T, {}, r)
  <2>1. ~o1[n].written
    BY <1>3
  <2>2. \E r : Holds(F, D, With(o1, n, NoFile), L, T, {}, r)
    BY <1>1, <1>2, <2>1, LetGo
  <2> QED BY <2>2
<1>5. With(o1, n, NoFile) = o2
  <2> DEFINE x == Parked(m.fp)
  <2>1. [[o EXCEPT ![n] = x] EXCEPT ![n] = NoFile] = [o EXCEPT ![n] = NoFile]
    <3> HIDE DEF x
    <3> QED BY <1>1, ParkTwice
  <2> QED BY <2>1, Zenon DEF o1, With
<1>6. w \in Machines /\ w.disk = m.disk /\ w.win = m.win /\ w.winsect = m.winsect
  BY <1>2, NoFileFacts DEF Machines, Closing
<1>7. w.wflag = m.wflag /\ w.mounted = m.mounted
  BY <1>2, Zenon DEF Machines, Closing
<1> HIDE DEF w, o2
<1>8. InOrder(w, o1, L, T, {}, q) /\ Seen(w) = Seen(m) /\ Sound(w)
  BY <1>2, <1>6, <1>7, InOrderSame
<1>9. Holds(Fat(Seen(w)), Dir(Seen(w)), o2, L, T, {}, r)
  BY <1>4, <1>5, <1>8, Zenon DEF F, D
<1>10. w.mounted
  BY <1>8, InOrderFacts, Zenon
<1>11. InOrder(w, o2, L, T, {}, r)
  <2>1. w.disk \in {w.disk, Seen(w)}
    OBVIOUS
  <2> QED BY <1>8, <1>9, <1>10, <2>1, InOrderStep
<1> QED BY <1>11 DEF w, o2

\* What f_close leaves.
ClosedOr(m, w, n, o, L, T) ==
    \/ w.res # "FR_OK" /\ \E r : Kept(m, w, n, o, L, T, r)
    \/ /\ w.res = "FR_OK" /\ w.fp = NoFile
       /\ \E r : InOrder(w, [o EXCEPT ![n] = NoFile], IF m.fp.written THEN L \ {n} ELSE L, T, {}, r)

\* f_close lets the file go only once f_sync is done with it
LEMMA CloseFacts ==
    ASSUME NEW m, NEW n, NEW o, NEW L, NEW T, NEW q, Kept(m, m, n, o, L, T, q)
    PROVE  ClosedOr(m, f_close(m), n, o, L, T)
<1> DEFINE s == f_sync(m)
           w == f_close(m)
           M == IF m.fp.written THEN L \ {n} ELSE L
<1>1. w = IF s.res = "FR_OK" THEN Closing(s) ELSE s
  BY Zenon DEF f_close, IfOk, Closing
<1>2. /\ Kept(m, s, n, o, L, T, q)
      /\ s.res = "FR_OK" => ~s.fp.written
      /\ s.res = "FR_OK" /\ m.fp.written => Kept(m, s, n, o, L \ {n}, T, q)
  BY SyncFacts
<1> HIDE DEF s
<1>3. CASE s.res # "FR_OK"
  <2>1. w = s
    BY <1>1, <1>3
  <2> QED BY <1>2, <1>3, <2>1, Zenon DEF ClosedOr
<1>4. CASE s.res = "FR_OK"
  <2>1. Kept(m, s, n, o, M, T, q)
    BY <1>2, <1>4
  <2> HIDE DEF M
  <2>2. Hand(s, n, o, M, T, q) /\ ~s.fp.written
    BY <1>2, <1>4, <2>1, Zenon DEF Kept
  <2>3. \E r : InOrder(Closing(s), [o EXCEPT ![n] = NoFile], M, T, {}, r)
    BY <2>2, ShutFile
  <2>4. Closing(s).res = "FR_OK" /\ Closing(s).fp = NoFile
    <3>1. s \in Machines
      BY <2>2, HandPlain
    <3> QED BY <1>4, <3>1 DEF Closing, Machines
  <2>5. w = Closing(s)
    BY <1>1, <1>4
  <2> QED BY <2>3, <2>4, <2>5, Zenon DEF ClosedOr, M
<1> QED BY <1>3, <1>4

-------------------------------------------------------------------------------
(* f_truncate *)

\* A file object that is in the hand, as the volume sees it
LEMMA HandHolds ==
    ASSUME NEW m, NEW n, NEW o, NEW L, NEW T, NEW q, Hand(m, n, o, L, T, q)
    PROVE  /\ Holds(Fat(Seen(m)), Dir(Seen(m)), With(o, n, Parked(m.fp)), L, T, {}, q)
           /\ With(o, n, Parked(m.fp)) \in [Name -> File] /\ With(o, n, Parked(m.fp))[n] = Parked(m.fp)
           /\ m \in Machines /\ Sound(m) /\ m.mounted /\ n \in Name /\ o \in [Name -> File] /\ m.fp \in OpenFile
           /\ \A k \in Name : {n, k} \notin T
           /\ InOrder(m, With(o, n, Parked(m.fp)), L, T, {}, q)
<1> DEFINE o1 == [o EXCEPT ![n] = Parked(m.fp)]
<1>1. HandParts(m, n, o, L, T, q, o1, Dir(Seen(m))) /\ m.fp \in OpenFile /\ n \in Name /\ o \in [Name -> File]
      /\ \A k \in Name : {n, k} \notin T
  BY HandFacts, Zenon DEF Hand
<1>2. o1 = With(o, n, Parked(m.fp))
  BY Zenon DEF With
<1> HIDE DEF o1
<1> QED BY <1>1, <1>2, Zenon DEF HandParts

\* What a call that changes the allocation table or the file object makes of a file in the hand
LEMMA HandOn ==
    ASSUME NEW m, NEW w, NEW n, NEW o, NEW L, NEW T, NEW q, Hand(m, n, o, L, T, q),
           NEW r, NEW M, w.fp \in OpenFile, InOrder(w, With(o, n, Parked(w.fp)), M, T, {}, r)
    PROVE  Hand(w, n, o, M, T, r)
BY Zenon DEF Hand, With

\* A FIL without a chain.
Rootless(p) == [p EXCEPT !.sclust = 0]

\* Nothing else of it changes.
LEMMA RootlessFacts ==
    ASSUME NEW p \in OpenFile
    PROVE  LET e == Rootless(p) IN
           /\ e \in OpenFile /\ e.open /\ e.slot = p.slot /\ e.mode = p.mode /\ e.sclust = 0 /\ e.clust = p.clust
           /\ e.fptr = p.fptr /\ e.fsize = p.fsize /\ e.err = p.err /\ e.dsect = p.dsect
           /\ e.dirty = p.dirty /\ e.written = p.written
<1> DEFINE e == Rootless(p)
<1>1. /\ e \in OpenFile /\ e.slot = p.slot /\ e.mode = p.mode /\ e.sclust = 0 /\ e.clust = p.clust
      /\ e.fptr = p.fptr /\ e.fsize = p.fsize /\ e.err = p.err /\ e.dsect = p.dsect
  BY DEF OpenFile, Rootless
<1>2. e.dirty = p.dirty /\ e.written = p.written /\ e.open
  BY Zenon DEF Rootless, OpenFile
<1> QED BY <1>1, <1>2, Zenon

\* The whole chain of a file that is cut to nothing belongs to nobody from the moment that f_truncate forgets it
LEMMA ForgetRoot ==
    ASSUME NEW F, NEW D, NEW o, NEW L, NEW T, NEW q, Holds(F, D, o, L, T, {}, q),
           NEW n \in Name, o[n].open, o[n].written, n \in L, \A k \in Name : {n, k} \notin T,
           o[n].fsize = 0, o[n].fptr = 0, o[n].sclust # 0, o[n].err # "FR_OK"
    PROVE  \E r, X : Holds(F, D, With(o, n, Rootless(o[n])), L, T, X, r) /\ o[n].sclust \in X
<1> DEFINE p == o[n]
           e == Rootless(p)
           o1 == With(o, n, e)
           X == OwnedBy(q, {q.al[n]})
<1>1. /\ F \in Table /\ D \in Folder /\ o \in [Name -> File] /\ q \in Certificate /\ DirOK(D) /\ Filed(D, o, L)
      /\ \A k \in Name : RootedAt(q, k, Root(D, o)[k], Size(D, o)[k])
  BY HoldsParts
<1>2. p \in OpenFile /\ Root(D, o)[n] = p.sclust /\ Size(D, o)[n] = p.fsize
  BY SlotOpen
<1>3. /\ e \in OpenFile /\ e.open /\ e.slot = p.slot /\ e.sclust = 0 /\ e.fptr = p.fptr /\ e.fsize = p.fsize
      /\ e.err = p.err /\ e.dsect = p.dsect /\ e.dirty = p.dirty /\ e.written = p.written
  BY <1>2, RootlessFacts
<1> HIDE DEF e
<1>4. e \in File
  BY <1>3, OpenFacts
<1>5. o1 \in [Name -> File] /\ o1[n] = e /\ \A k \in Name : k # n => o1[k] = o[k]
  BY <1>1, <1>4, Zenon DEF With
<1> HIDE DEF o1
<1>6. FiledAt(D, n, e, L)
  <2>1. FiledAt(D, n, p, L)
    BY <1>1, Zenon DEF Filed
  <2>2. BufOK(e)
    BY <1>3, <2>1, Zenon DEF FiledAt, BufOK
  <2>3. D[e.slot].name = n
    BY <1>3, <2>1, Zenon DEF FiledAt
  <2> HIDE DEF p
  <2> QED BY <1>3, <2>2, <2>3, Zenon DEF FiledAt, p
<1>7. Filed(D, o1, L)
  BY <1>1, <1>5, <1>6, Zenon DEF Filed
<1>8. Root(D, o1)[n] = 0 /\ Size(D, o1)[n] = 0
  BY <1>1, <1>3, <1>5, RootType
<1>9. \A k \in Name : k # n => Root(D, o1)[k] = Root(D, o)[k] /\ Size(D, o1)[k] = Size(D, o)[k]
  BY <1>5, Zenon DEF Root, Size
<1>10. \E r : Holds(F, D, o1, L, T, X, r)
  <2>1. o1[n].open => o1[n].fptr = 0
    BY <1>3, <1>5
  <2> HIDE DEF p
  <2> QED BY <1>1, <1>5, <1>7, <1>8, <1>9, <2>1, DropRoot
<1>11. p.sclust \in X
  <2>1. RootedAt(q, n, p.sclust, p.fsize)
    BY <1>1, <1>2, Zenon
  <2>2. p.sclust \in Cluster /\ q.own[p.sclust] = q.al[n]
    BY <2>1, Zenon DEF RootedAt
  <2> HIDE DEF p
  <2> QED BY <2>2 DEF OwnedBy
<1> QED BY <1>10, <1>11 DEF o1, e

\* f_truncate at the start of a file
LEMMA TruncateAll ==
    ASSUME NEW m, NEW n, NEW o, NEW L, NEW T, NEW q, Hand(m, n, o, L, T, q), n \in L, m.fp.written,
           m.fp.fsize = 0, m.fp.fptr = 0, m.fp.sclust # 0
    PROVE  LET w == [remove_chain(m, m.fp.sclust) EXCEPT !.fp.sclust = 0] IN
           w.fp = Rootless(m.fp) /\ \E r : Hand(w, n, o, L, T, r)
<1> DEFINE c == m.fp.sclust
           e == Rootless(m.fp)
           y == Parked(m.fp)
           o1 == With(o, n, y)
           o2 == With(o1, n, Rootless(y))
           F == Fat(Seen(m))
           D == Dir(Seen(m))
           g == RemoveFrom(m, c)
           w == [remove_chain(m, c) EXCEPT !.fp.sclust = 0]
           v == [g EXCEPT !.fp = e]
<1>1. /\ Holds(F, D, o1, L, T, {}, q) /\ o1 \in [Name -> File] /\ o1[n] = y
      /\ m \in Machines /\ Sound(m) /\ m.mounted /\ n \in Name /\ o \in [Name -> File] /\ m.fp \in OpenFile
      /\ \A k \in Name : {n, k} \notin T
      /\ InOrder(m, o1, L, T, {}, q)
  BY HandHolds
<1>2. /\ y \in OpenFile /\ y.open /\ y.sclust = c /\ y.fsize = 0 /\ y.fptr = 0 /\ y.written /\ y.err # "FR_OK"
  BY <1>1, ParkedFacts
<1>3. c \in Cluster
  BY <1>1, OpenFacts
<1> HIDE DEF o1, y, c
<1>4. \E r, X : Holds(F, D, With(o1, n, Rootless(o1[n])), L, T, X, r) /\ o1[n].sclust \in X
  <2>1. /\ o1[n].open /\ o1[n].written /\ o1[n].fsize = 0 /\ o1[n].fptr = 0 /\ o1[n].sclust # 0 /\ o1[n].err # "FR_OK"
    BY <1>1, <1>2, <1>3, ClusterFacts
  <2> HIDE DEF F, D
  <2> QED BY <1>1, <2>1, ForgetRoot
<1>5. PICK r, X : Holds(F, D, o2, L, T, X, r) /\ c \in X
  BY <1>1, <1>2, <1>4, Zenon
<1> HIDE DEF o2
<1>6. InOrder(m, o2, L, T, X, r)
  <2>1. m.disk \in {m.disk, Seen(m)}
    OBVIOUS
  <2> QED BY <1>1, <1>5, <2>1, InOrderStep
<1>7. InOrder(g, o2, L, T, X, r) /\ Keeps(m, g)
  BY <1>5, <1>6, RemoveFacts
<1>8. w = v /\ g.fp = m.fp
  <2>1. remove_chain(m, c) = g
    BY <1>3, Zenon DEF remove_chain
  <2>2. g.fp = m.fp
    BY <1>7, Zenon DEF Keeps
  <2> HIDE DEF g
  <2> QED BY <2>1, <2>2, Zenon DEF Rootless
<1>9. g \in Machines
  BY <1>7, InOrderFacts, Zenon
<1>10. e \in OpenFile /\ Rootless(y) = Parked(e)
  <2>1. e \in OpenFile
    BY <1>1, RootlessFacts
  <2>2. Rootless(y) = Parked(e)
    BY <1>1 DEF Rootless, Parked, y, OpenFile
  <2> QED BY <2>1, <2>2
<1> HIDE DEF g, e, w
<1>11. v \in Machines /\ Local(g, v) /\ v.fp = e
  BY <1>9, <1>10, WithFile
<1> HIDE DEF v
<1>12. InOrder(v, o2, L, T, {}, r)
  <2>1. InOrder(v, o2, L, T, X, r)
    BY <1>7, <1>11, InOrderLocal
  <2>2. Holds(Fat(Seen(v)), Dir(Seen(v)), o2, L, T, {}, r)
    <3>1. Holds(Fat(Seen(v)), Dir(Seen(v)), o2, L, T, X, r)
      BY <2>1, InOrderFacts, Zenon
    <3> QED BY <3>1, HoldsPlain
  <2> QED BY <2>1, <2>2, Zenon DEF InOrder
<1>13. o2 = With(o, n, Parked(v.fp))
  <2> DEFINE x == Parked(e)
  <2>1. [[o EXCEPT ![n] = y] EXCEPT ![n] = x] = [o EXCEPT ![n] = x]
    <3> HIDE DEF x
    <3> QED BY <1>1, ParkTwice
  <2> QED BY <1>10, <1>11, <2>1, Zenon DEF o2, o1, With
<1>14. Hand(v, n, o, L, T, r)
  BY <1>10, <1>11, <1>12, <1>13, HandOn, Zenon
<1> QED BY <1>8, <1>11, <1>14, Zenon DEF w, e, c

\* The chain let go may be forgotten.
LEMMA InOrderLess ==
    ASSUME NEW m, NEW o, NEW L, NEW T, NEW X, NEW q, InOrder(m, o, L, T, X, q)
    PROVE  InOrder(m, o, L, T, {}, q)
<1>1. Holds(Fat(Seen(m)), Dir(Seen(m)), o, L, T, {}, q)
  <2>1. Holds(Fat(Seen(m)), Dir(Seen(m)), o, L, T, X, q)
    BY InOrderFacts, Zenon
  <2> QED BY <2>1, HoldsPlain
<1> QED BY <1>1, Zenon DEF InOrder

\* The cut itself: the last cluster is marked as the end, then what hung on it is freed
Cut(g, c) == IfOk(put_fat(g, c, EndOfChain), LAMBDA e : remove_chain(e, g.val))

\* The end mark is put first, then the rest is freed.
LEMMA CutFacts ==
    ASSUME NEW g, NEW n, NEW o, NEW L, NEW T, NEW q, Hand(g, n, o, L, T, q), Placed(q, n, g.fp),
           g.fp.fptr # 0, g.fp.fsize = g.fp.fptr, g.val \in Cluster, q.own[g.val] = q.al[n],
           q.idx[g.val] = q.idx[g.fp.clust] + 1
    PROVE  LET w == Cut(g, g.fp.clust) IN
           w.fp = g.fp /\ \E r : Hand(w, n, o, L, T, r) /\ Placed(r, n, w.fp)
<1> DEFINE c == g.fp.clust
           o1 == With(o, n, Parked(g.fp))
           F == Fat(Seen(g))
           D == Dir(Seen(g))
           p == put_fat(g, c, EndOfChain)
           f == RemoveFrom(p, g.val)
           w == Cut(g, c)
           X == Behind(q, q.al[n], q.idx[c])
<1>1. /\ Holds(F, D, o1, L, T, {}, q) /\ o1 \in [Name -> File] /\ o1[n] = Parked(g.fp)
      /\ g \in Machines /\ Sound(g) /\ g.mounted /\ n \in Name /\ o \in [Name -> File] /\ g.fp \in OpenFile
      /\ \A k \in Name : {n, k} \notin T
      /\ InOrder(g, o1, L, T, {}, q)
  BY HandHolds
<1>2. /\ c \in Cluster /\ q.own[c] = q.al[n]
      /\ q.idx[c] * Bytes < g.fp.fptr /\ g.fp.fptr <= (q.idx[c] + 1) * Bytes
  BY Zenon DEF Placed
<1>3. q \in Certificate /\ q.idx[c] \in Nat
  <2>1. q \in Certificate
    BY HandPlain
  <2> QED BY <1>2, <2>1 DEF Certificate
<1>4. w = IF p.res = "FR_OK" THEN f ELSE p
  BY Zenon DEF Cut, IfOk, remove_chain
<1>5. PutDone(g, p, c, EndOfChain)
  BY <1>1, <1>2, ClusterFacts, PutFatFacts
<1> HIDE DEF p
<1>6. CASE p.res # "FR_OK"
  <2>1. Passes(g, p)
    BY <1>5, <1>6, Zenon DEF PutDone
  <2>2. Hand(p, n, o, L, T, q) /\ p.fp = g.fp
    BY <2>1, HandPasses
  <2> QED BY <1>4, <1>6, <2>2
<1>7. CASE p.res = "FR_OK"
  <2>1. /\ Sound(p) /\ Keeps(g, p) /\ p.mounted = g.mounted /\ p.disk \in {g.disk, Seen(g)}
        /\ Fat(Seen(p)) = [F EXCEPT ![c] = EndOfChain] /\ Dir(Seen(p)) = D
    <3>1. "FR_OK" # "FR_DISK_ERR"
      OBVIOUS
    <3> QED BY <1>5, <1>7, <3>1, Zenon DEF PutDone
  <2>2. \E r : CutShort(F, D, o1, L, T, q, n, c, r)
    <3>1. /\ Parked(g.fp).open /\ Parked(g.fp).clust = g.fp.clust /\ Parked(g.fp).fsize = g.fp.fsize
      BY <1>1, ParkedFacts
    <3>2. o1[n].open /\ o1[n].clust = c /\ o1[n].fsize <= (q.idx[c] + 1) * Bytes
      BY <1>1, <1>2, <3>1
    <3> HIDE DEF o1, F, D, X, c
    <3> QED BY <1>1, <1>2, <3>2, CutAt
  <2>10. PICK r : CutShort(F, D, o1, L, T, q, n, c, r)
    BY <2>2
  <2>11. /\ Holds([F EXCEPT ![c] = EndOfChain], D, o1, L, T, X, r)
         /\ r.own[c] = q.own[c] /\ r.al = q.al /\ r.idx = q.idx
    BY <2>10, Zenon DEF CutShort
  <2>3. InOrder(p, o1, L, T, X, r)
    <3>1. Holds(Fat(Seen(p)), Dir(Seen(p)), o1, L, T, X, r)
      BY <2>1, <2>11, Zenon
    <3>2. p.mounted
      BY <1>1, <2>1, Zenon
    <3> HIDE DEF o1, X, F, D
    <3> QED BY <1>1, <2>1, <3>1, <3>2, InOrderStep
  <2>4. g.val \in X
    BY <1>3 DEF Behind
  <2> HIDE DEF X, o1
  <2>5. InOrder(f, o1, L, T, X, r) /\ Keeps(p, f)
    BY <2>3, <2>4, RemoveFacts
  <2> HIDE DEF f
  <2>6. f.fp = g.fp
    BY <2>1, <2>5, Zenon DEF Keeps
  <2>7. InOrder(f, With(o, n, Parked(f.fp)), L, T, {}, r)
    <3>1. InOrder(f, o1, L, T, {}, r)
      BY <2>5, InOrderLess
    <3> QED BY <2>6, <3>1, Zenon DEF o1
  <2>8. Hand(f, n, o, L, T, r)
    BY <1>1, <2>6, <2>7, HandOn, Zenon
  <2>9. Placed(r, n, f.fp)
    BY <1>2, <2>11, <2>6, Zenon DEF Placed
  <2> QED BY <1>4, <1>7, <2>6, <2>8, <2>9
<1> QED BY <1>6, <1>7 DEF w

\* f_truncate for a file that keeps part of its chain.
Shortened(g, c) ==
    IF g.val = DiskErr THEN Return(g, "FR_DISK_ERR")
    ELSE IF g.val = 1 THEN Return(g, "FR_INT_ERR")
    ELSE IF g.val >= n_fatent THEN Return(g, "FR_OK")
    ELSE Cut(g, c)

\* f_truncate within a file
LEMMA TruncateTail ==
    ASSUME NEW m, NEW n, NEW o, NEW L, NEW T, NEW q, Hand(m, n, o, L, T, q), Placed(q, n, m.fp),
           m.fp.fptr # 0, m.fp.fsize = m.fp.fptr
    PROVE  LET w == Shortened(get_fat(m, m.fp.clust), m.fp.clust) IN
           w.fp = m.fp /\ \E r : Hand(w, n, o, L, T, r) /\ Placed(r, n, w.fp)
<1> DEFINE c == m.fp.clust
           g == get_fat(m, c)
           w == Shortened(g, c)
<1>1. c \in Cluster /\ q.own[c] = q.al[n]
  BY Zenon DEF Placed
<1>2. /\ Hand(g, n, o, L, T, q) /\ g.fp = m.fp
      /\ \/ g.res = "FR_DISK_ERR" /\ g.val = DiskErr
         \/ g.res = "FR_OK" /\ g.val = EndOfChain
         \/ g.res = "FR_OK" /\ g.val \in Cluster /\ q.own[g.val] = q.al[n] /\ q.idx[g.val] = q.idx[c] + 1
  <2> HIDE DEF c
  <2> QED BY <1>1, HandGet
<1> HIDE DEF g
<1>3. \A x \in Result : Hand(Return(g, x), n, o, L, T, q) /\ Return(g, x).fp = m.fp
  BY <1>2, HandReturn
<1>4. CASE g.val \notin Cluster
  <2>1. \E x \in Result : w = Return(g, x)
    <3>1. g.val = DiskErr \/ g.val >= n_fatent
      BY <1>2, <1>4, ClusterFacts, LayoutFacts
    <3> QED BY <3>1, OkResult DEF Shortened
  <2>2. PICK x \in Result : w = Return(g, x)
    BY <2>1
  <2>3. Hand(w, n, o, L, T, q) /\ w.fp = m.fp
    BY <1>3, <2>2, Zenon
  <2>4. Placed(q, n, w.fp)
    BY <2>3, Zenon
  <2> QED BY <2>3, <2>4, Zenon DEF g
<1>5. CASE g.val \in Cluster
  <2>1. w = Cut(g, g.fp.clust)
    BY <1>2, <1>5, ClusterFacts, LayoutFacts DEF Shortened, Cluster
  <2>2. q.own[g.val] = q.al[n] /\ q.idx[g.val] = q.idx[g.fp.clust] + 1
    BY <1>2, <1>5, ClusterFacts
  <2>3. LET u == Cut(g, g.fp.clust) IN
         u.fp = g.fp /\ \E r : Hand(u, n, o, L, T, r) /\ Placed(r, n, u.fp)
    BY <1>2, <1>5, <2>2, CutFacts
  <2> HIDE DEF w
  <2>4. w.fp = m.fp /\ \E r : Hand(w, n, o, L, T, r) /\ Placed(r, n, w.fp)
    BY <1>2, <2>1, <2>3, Zenon
  <2> QED BY <2>4, Zenon DEF w, g
<1> QED BY <1>4, <1>5

\* The file stands where it stood, whatever became of its chain
Stayed(p, w) ==
    /\ w \in OpenFile /\ w.slot = p.slot /\ w.fsize = p.fsize /\ w.fptr = p.fptr /\ w.err = p.err
    /\ w.dsect = p.dsect

\* What f_truncate makes of the chain of the file that it has cut in m
Trimmed(m, p) ==
    IF p.fptr = 0 THEN [remove_chain(m, p.sclust) EXCEPT !.fp.sclust = 0]
    ELSE Shortened(get_fat(m, p.clust), p.clust)

\* f_truncate's change of the FAT.
LEMMA TrimmedFacts ==
    ASSUME NEW m, NEW n, NEW o, NEW L, NEW T, NEW q, Hand(m, n, o, L, T, q), Placed(q, n, m.fp),
           m.fp.fsize = m.fp.fptr, n \in L, m.fp.written, m.fp.sclust # 0
    PROVE  LET w == Trimmed(m, m.fp) IN
           \E r : Hand(w, n, o, L, T, r) /\ Placed(r, n, w.fp) /\ Stayed(m.fp, w.fp)
<1> DEFINE w == Trimmed(m, m.fp)
<1>1. m.fp \in OpenFile
  BY HandPlain
<1>2. CASE m.fp.fptr = 0
  <2> DEFINE u == [remove_chain(m, m.fp.sclust) EXCEPT !.fp.sclust = 0]
  <2>1. u.fp = Rootless(m.fp) /\ \E r : Hand(u, n, o, L, T, r)
    BY <1>2, TruncateAll
  <2>2. LET e == Rootless(m.fp) IN
        /\ e \in OpenFile /\ e.slot = m.fp.slot /\ e.fptr = m.fp.fptr /\ e.fsize = m.fp.fsize
        /\ e.err = m.fp.err /\ e.dsect = m.fp.dsect
    BY <1>1, RootlessFacts
  <2>3. w = u
    BY <1>2, Zenon DEF Trimmed
  <2> HIDE DEF u, w
  <2>4. Stayed(m.fp, w.fp) /\ w.fp.fptr = 0
    BY <1>2, <2>1, <2>2, <2>3, Zenon DEF Stayed
  <2>5. \A r : Placed(r, n, w.fp)
    BY <2>4, Zenon DEF Placed
  <2>6. \E r : Hand(w, n, o, L, T, r)
    BY <2>1, <2>3, Zenon
  <2> QED BY <2>4, <2>5, <2>6, Zenon DEF w
<1>3. CASE m.fp.fptr # 0
  <2>1. w = Shortened(get_fat(m, m.fp.clust), m.fp.clust)
    BY <1>3, Zenon DEF Trimmed
  <2>2. LET u == Shortened(get_fat(m, m.fp.clust), m.fp.clust) IN
           u.fp = m.fp /\ \E r : Hand(u, n, o, L, T, r) /\ Placed(r, n, u.fp)
    BY <1>3, TruncateTail
  <2> HIDE DEF w
  <2>3. w.fp = m.fp /\ \E r : Hand(w, n, o, L, T, r) /\ Placed(r, n, w.fp)
    BY <2>1, <2>2, Zenon
  <2>4. Stayed(m.fp, w.fp)
    BY <1>1, <2>3, Zenon DEF Stayed
  <2> QED BY <2>3, <2>4, Zenon DEF w
<1> QED BY <1>2, <1>3

\* f_truncate keeps the file in order; one that it has cut is loose until it is written out
Truncated(m, w, n, o, L, T) ==
    \/ w.fp.fsize = m.fp.fsize /\ \E r : Kept(m, w, n, o, L, T, r)
    \/ w.fp.fsize # m.fp.fsize /\ \E r : Kept(m, w, n, o, L \union {n}, T, r)

\* The size set to the pointer.
CutTo(m) == Resized(m, m.fp.fptr)

\* An error aborts the file.
Finish(t) == IF t.res # "FR_OK" THEN Abort(t, t.res) ELSE t

\* What f_truncate leaves.
LEMMA FinishFacts ==
    ASSUME NEW m, NEW h, NEW n, NEW o, NEW L, NEW T, NEW q, NEW r, Kept(m, m, n, o, L, T, q), m.fp.err = "FR_OK",
           NEW M, Hand(h, n, o, M, T, r), Placed(r, n, h.fp), h.fp.slot = m.fp.slot, h.fp.fptr = m.fp.fptr,
           h.fp.fsize = m.fp.fptr, h.fp.dsect = m.fp.dsect
    PROVE  LET w == Finish(IfOk(h, WriteBack)) IN Kept(m, w, n, o, M, T, r) /\ w.fp.fsize = m.fp.fptr
<1> DEFINE b == WriteBack(h)
           t == IF h.res = "FR_OK" THEN b ELSE h
<1>1. h \in Machines /\ h.fp \in OpenFile /\ (h.fp.dirty => h.fp.dsect >= database)
  BY HandPlain
<1>2. /\ Hand(t, n, o, M, T, r) /\ t.fp.slot = h.fp.slot /\ t.fp.fptr = h.fp.fptr /\ t.fp.fsize = h.fp.fsize
      /\ t.fp.dsect = h.fp.dsect /\ t.fp.clust = h.fp.clust
  <2>1. Buffers(h, b, 0) /\ b.fp.dsect = h.fp.dsect
    BY <1>1, WriteBackFacts
  <2> HIDE DEF b
  <2>2. Hand(b, n, o, M, T, r)
    BY <2>1, HandBuffers
  <2>3. b.fp.fptr = h.fp.fptr
    BY <1>1, <2>1, OpenFacts DEF Buffers, Slid
  <2>4. b.fp.slot = h.fp.slot /\ b.fp.fsize = h.fp.fsize /\ b.fp.clust = h.fp.clust
    BY <2>1, Zenon DEF Buffers, Slid
  <2> QED BY <2>1, <2>2, <2>3, <2>4
<1>3. Finish(IfOk(h, WriteBack)) = IF t.res # "FR_OK" THEN Abort(t, t.res) ELSE t
  BY Zenon DEF Finish, IfOk
<1> HIDE DEF t
<1>4. t \in Machines /\ t.fp \in OpenFile /\ (t.fp.dirty => t.fp.dsect >= database)
  BY <1>2, HandPlain
<1>5. CASE t.res # "FR_OK"
  <2> DEFINE a == Abort(t, t.res)
  <2>1. t.res \in Result
    BY <1>4, MachineFacts
  <2>2. Hand(a, n, o, M, T, r) /\ Kin(t.fp, a.fp) /\ a.fp.err = t.res
    <3> DEFINE x == t.res
    <3>1. x \in Result
      BY <2>1
    <3>2. a = Abort(t, x)
      OBVIOUS
    <3> HIDE DEF x, a
    <3>3. LET v == Abort(t, x) IN Hand(v, n, o, M, T, r) /\ Kin(t.fp, v.fp) /\ v.fp.err = x
      BY <1>2, <3>1, HandAbort
    <3> QED BY <3>2, <3>3, Zenon DEF x
  <2> HIDE DEF a
  <2>3. Kept(m, a, n, o, M, T, r) /\ a.fp.fsize = m.fp.fptr
    BY <1>2, <1>5, <2>2, Zenon DEF Kept, Kin
  <2> QED BY <1>3, <1>5, <2>3, Zenon DEF a
<1>6. CASE t.res = "FR_OK"
  <2>1. Placed(r, n, t.fp)
    BY <1>2, Zenon DEF Placed
  <2>2. BufOK(t.fp)
    <3>1. m.fp.fptr % SS # 0 => m.fp.dsect >= database
      BY Zenon DEF Kept, BufOK
    <3>2. t.fp.fptr = m.fp.fptr /\ t.fp.dsect = m.fp.dsect
      BY <1>2
    <3> QED BY <1>4, <3>1, <3>2, Zenon DEF BufOK
  <2>3. t.fp.fptr <= t.fp.fsize
    BY <1>2, <1>4, OpenFacts
  <2>4. Kept(m, t, n, o, M, T, r)
    BY <1>2, <2>1, <2>2, <2>3, Zenon DEF Kept
  <2> QED BY <1>2, <1>3, <1>6, <2>4, Zenon
<1> QED BY <1>5, <1>6

\* f_truncate keeps the invariant.
LEMMA TruncateFacts ==
    ASSUME NEW m, NEW n, NEW o, NEW L, NEW T, NEW q, Kept(m, m, n, o, L, T, q)
    PROVE  Truncated(m, f_truncate(m), n, o, L, T)
<1> DEFINE w == f_truncate(m)
           c == CutTo(m)
           h == Trimmed(c, m.fp)
<1>1. w = IF m.fp.err # "FR_OK" THEN Return(m, m.fp.err)
          ELSE IF "WRITE" \notin m.fp.mode THEN Return(m, "FR_DENIED")
          ELSE IF m.fp.fsize <= m.fp.fptr THEN Return(m, "FR_OK")
          ELSE Finish(IfOk(h, WriteBack))
  BY Zenon DEF f_truncate, Finish, Trimmed, CutTo, Resized, Shortened, Cut
<1>2. Hand(m, n, o, L, T, q) /\ m.fp \in OpenFile /\ m \in Machines /\ RootedAt(q, n, m.fp.sclust, m.fp.fsize)
      /\ (m.fp.dirty => m.fp.dsect >= database)
  BY HandPlain DEF Kept
<1>3. m.fp.fptr \in Nat /\ m.fp.fsize \in Nat /\ m.fp.err \in Result
  BY <1>2, OpenFacts
<1>4. CASE m.fp.err # "FR_OK" \/ "WRITE" \notin m.fp.mode
  <2>1. PICK x \in Result : w = Return(m, x)
    <3>1. "FR_DENIED" \in Result
      BY OkResult
    <3> QED BY <1>1, <1>3, <1>4, <3>1
  <2> DEFINE a == Return(m, x)
  <2>2. Hand(a, n, o, L, T, q) /\ a.fp = m.fp /\ w = a
    BY <1>2, <2>1, HandReturn
  <2> HIDE DEF a
  <2>3. Kept(m, a, n, o, L, T, q) /\ a.fp.fsize = m.fp.fsize
    BY <2>2, Zenon DEF Kept
  <2> QED BY <2>2, <2>3, Zenon DEF Truncated
<1>5. CASE m.fp.err = "FR_OK" /\ "WRITE" \in m.fp.mode /\ m.fp.fsize <= m.fp.fptr
  <2> DEFINE a == Return(m, "FR_OK")
  <2>1. Hand(a, n, o, L, T, q) /\ a.fp = m.fp
    BY <1>2, HandReturn, OkResult
  <2>2. w = a
    BY <1>1, <1>5
  <2> HIDE DEF a
  <2>3. Kept(m, a, n, o, L, T, q)
    BY <2>1, Zenon DEF Kept
  <2> QED BY <2>1, <2>2, <2>3, Zenon DEF Truncated
<1>6. CASE m.fp.err = "FR_OK" /\ "WRITE" \in m.fp.mode /\ ~(m.fp.fsize <= m.fp.fptr)
  <2> DEFINE M == L \union {n}
  <2>1. w = Finish(IfOk(h, WriteBack))
    BY <1>1, <1>6, Zenon
  <2>2. /\ Local(m, c) /\ c.fp \in OpenFile /\ c.fp.slot = m.fp.slot
        /\ c.fp.sclust = m.fp.sclust /\ c.fp.clust = m.fp.clust /\ c.fp.fptr = m.fp.fptr /\ c.fp.err = m.fp.err
        /\ c.fp.dirty = m.fp.dirty /\ c.fp.dsect = m.fp.dsect /\ c.fp.fsize = m.fp.fptr /\ c.fp.written
    <3> DEFINE z == m.fp.fptr
               u == Resized(m, z)
    <3>1. z \in Nat /\ c = u
      BY <1>3, Zenon DEF CutTo
    <3> HIDE DEF z
    <3>2. /\ Local(m, u) /\ u.fp \in OpenFile /\ u.fp.slot = m.fp.slot
          /\ u.fp.sclust = m.fp.sclust /\ u.fp.clust = m.fp.clust /\ u.fp.fptr = m.fp.fptr /\ u.fp.err = m.fp.err
          /\ u.fp.dirty = m.fp.dirty /\ u.fp.dsect = m.fp.dsect /\ u.fp.fsize = z /\ u.fp.written
      BY <1>2, <3>1, SizedFacts
    <3> HIDE DEF u
    <3> QED BY <3>1, <3>2, Zenon DEF z
  <2>3. Placed(q, n, m.fp) /\ RootedAt(q, n, m.fp.sclust, m.fp.fptr)
    <3>1. Placed(q, n, m.fp)
      BY <1>6, Zenon DEF Kept
    <3> QED BY <1>2, <3>1, PlacedWithin
  <2> HIDE DEF c
  <2>4. Hand(c, n, o, M, T, q)
    <3>1. n \in M /\ L \subseteq M /\ RootedAt(q, n, c.fp.sclust, c.fp.fsize)
          /\ (c.fp.dirty => c.fp.dsect >= database)
      BY <1>2, <2>2, <2>3
    <3> HIDE DEF M
    <3> QED BY <1>2, <2>2, <3>1, HandStep
  <2>5. Placed(q, n, c.fp)
    BY <2>2, <2>3, Zenon DEF Placed
  <2>6. c.fp.sclust # 0
    <3>1. m.fp.fsize # 0
      BY <1>3, <1>6
    <3> QED BY <1>2, <2>2, <3>1, ClusterFacts, Zenon DEF RootedAt
  <2>7. h = Trimmed(c, c.fp)
    BY <2>2, Zenon DEF Trimmed
  <2> HIDE DEF h
  <2>8. PICK r : Hand(h, n, o, M, T, r) /\ Placed(r, n, h.fp) /\ Stayed(c.fp, h.fp)
    <3>1. n \in M /\ c.fp.fsize = c.fp.fptr
      BY <2>2
    <3> HIDE DEF M
    <3>2. LET u == Trimmed(c, c.fp) IN
           \E r : Hand(u, n, o, M, T, r) /\ Placed(r, n, u.fp) /\ Stayed(c.fp, u.fp)
      BY <2>2, <2>4, <2>5, <2>6, <3>1, TrimmedFacts
    <3> QED BY <2>7, <3>2, Zenon
  <2>9. h.fp.slot = m.fp.slot /\ h.fp.fptr = m.fp.fptr /\ h.fp.fsize = m.fp.fptr /\ h.fp.dsect = m.fp.dsect
    BY <2>2, <2>8, Zenon DEF Stayed
  <2> HIDE DEF M
  <2>10. LET u == Finish(IfOk(h, WriteBack)) IN Kept(m, u, n, o, M, T, r) /\ u.fp.fsize = m.fp.fptr
    BY <1>6, <2>8, <2>9, FinishFacts
  <2>11. m.fp.fptr # m.fp.fsize
    BY <1>3, <1>6
  <2> QED BY <2>1, <2>10, <2>11, Zenon DEF Truncated, M
<1> QED BY <1>4, <1>5, <1>6

-------------------------------------------------------------------------------
(* f_open *)

\* The window shows the entry i of name n
Shown(w, i, n) == i \in 0 .. NRootDir - 1 /\ Shows(w, DirSect(i)) /\ Dir(Seen(w))[i].name = n

\* f_open has found or made the entry.
Ready(m, w, o, L, T, i, n) ==
    /\ Keeps(m, w) /\ \E r : InOrder(w, o, L, T, {}, r)
    /\ w.res = "FR_OK" => Shown(w, i, n)

\* The entry f_open leaves when it overwrites a file.
EmptyOf(e) == [e EXCEPT !.size = 0, !.clust = 0]

\* It stays in the directory.
LEMMA EmptyFacts ==
    ASSUME NEW D \in Folder, DirOK(D), NEW i \in 0 .. NRootDir - 1, NEW n \in Name, D[i].name = n
    PROVE  LET e == EmptyOf(D[i]) IN e \in DirEntry /\ ~e.end /\ e.clust = 0 /\ e.size = 0 /\ e.name = n
<1> DEFINE d == D[i]
           e == EmptyOf(d)
<1>1. d \in DirEntry
  BY DEF Folder
<1>2. ~d.end
  <2>1. n # NoName /\ i <= i
    BY FatFsAssumption
  <2> QED BY <2>1, Zenon DEF DirOK
<1> HIDE DEF d
<1>3. e \in DirEntry /\ e.clust = 0 /\ e.size = 0 /\ e.name = d.name
  BY <1>1 DEF DirEntry, EmptyOf
<1>4. e.end = d.end
  BY <1>1, Zenon DEF DirEntry, EmptyOf
<1> QED BY <1>2, <1>3, <1>4, Zenon DEF e, d

\* Overwriting a file that is not open: its entry is that of an empty file, its clusters are freed
LEMMA OverwriteFacts ==
    ASSUME NEW m, NEW o, NEW L, NEW T, NEW q, InOrder(m, o, L, T, {}, q), NEW i, NEW n \in Name, Shown(m, i, n),
           ~o[n].open, \A k \in Name : {n, k} \notin T
    PROVE  Ready(m, Overwrite(m, i), o, L, T, i, n)
<1> DEFINE D == Dir(Seen(m))
           e == EmptyOf(D[i])
           c == SetEntry(m, i, e)
           cl == D[i].clust
           v == RemoveFrom(c, cl)
           y == [v EXCEPT !.last_clust = cl - 1]
           w == move_window(y, DirSect(i))
<1>1. i \in 0 .. NRootDir - 1 /\ Shows(m, DirSect(i)) /\ D[i].name = n
  BY Zenon DEF Shown
<1>2. Sound(m) /\ Holds(Fat(Seen(m)), D, o, L, T, {}, q) /\ D \in Folder
  BY InOrderFacts
<1>3. DirOK(D)
  <2> HIDE DEF D
  <2> QED BY <1>2, HoldsParts
<1>4. EntryAt(m, i) = D[i] /\ D[i] \in DirEntry
  BY <1>1, <1>2, ShownEntry
<1>5. e \in DirEntry /\ ~e.end /\ e.clust = 0 /\ e.size = 0 /\ e.name = n
  <2> HIDE DEF D
  <2> QED BY <1>1, <1>2, <1>3, EmptyFacts
<1>6. Overwrite(m, i) = IF cl = 0 THEN c
                        ELSE IF cl \notin Cluster THEN IfOk(Return(c, "FR_INT_ERR"), LAMBDA r : move_window([r EXCEPT !.last_clust = cl - 1], DirSect(i)))
                        ELSE IF v.res = "FR_OK" THEN w ELSE v
  <2>1. EntryAt(m, i) = D[i]
    BY <1>4
  <2> HIDE DEF D
  <2> QED BY <2>1, Zenon DEF Overwrite, EmptyOf, remove_chain, IfOk
<1>7. cl \in {0} \union Cluster
  BY <1>4 DEF DirEntry
<1> HIDE DEF D
<1>8. PICK r, X : Holds(Fat(Seen(m)), [D EXCEPT ![i] = e], o, L, T, X, r) /\ (cl # 0 => cl \in X)
  <2> HIDE DEF e
  <2>1. \E r, X : Holds(Fat(Seen(m)), [D EXCEPT ![i] = e], o, L, T, X, r) /\ (D[i].clust # 0 => D[i].clust \in X)
    BY <1>1, <1>2, <1>5, Vacate
  <2> QED BY <2>1, Zenon
<1> HIDE DEF e
<1>9. InOrder(c, o, L, T, X, r) /\ EntrySet(m, c, i, e)
  <2>1. Holds(Fat(Seen(m)), [Dir(Seen(m)) EXCEPT ![i] = e], o, L, T, X, r)
    BY <1>8, Zenon DEF D
  <2>2. L \subseteq L
    OBVIOUS
  <2> QED BY <1>1, <1>5, <2>1, <2>2, InOrderSetEntry
<1> HIDE DEF c
<1>10. Keeps(m, c) /\ Shows(c, DirSect(i)) /\ Dir(Seen(c))[i].name = n
  <2>1. Keeps(m, c) /\ Shows(c, DirSect(i)) /\ Dir(Seen(c)) = [D EXCEPT ![i] = e]
    BY <1>9, Zenon DEF EntrySet, D
  <2>2. [D EXCEPT ![i] = e][i] = e
    BY <1>1, <1>2 DEF Folder
  <2> QED BY <1>5, <2>1, <2>2, Zenon
<1>11. CASE cl = 0
  <2>1. InOrder(c, o, L, T, {}, r)
    BY <1>9, InOrderLess
  <2>2. Ready(m, c, o, L, T, i, n)
    BY <1>1, <1>10, <2>1, Zenon DEF Ready, Shown
  <2> QED BY <1>6, <1>11, <2>2, Zenon
<1>12. CASE cl # 0
  <2>1. cl \in Cluster /\ cl \in X
    BY <1>7, <1>8, <1>12
  <2> HIDE DEF cl
  <2>2. InOrder(v, o, L, T, X, r) /\ Keeps(c, v) /\ Dir(Seen(v)) = Dir(Seen(c))
    BY <1>9, <2>1, RemoveFacts
  <2> HIDE DEF v
  <2>3. Keeps(m, v)
    BY <1>10, <2>2, KeepsTrans
  <2>4. CASE v.res # "FR_OK"
    <3>1. InOrder(v, o, L, T, {}, r)
      BY <2>2, InOrderLess
    <3>2. Ready(m, v, o, L, T, i, n)
      BY <2>3, <2>4, <3>1, Zenon DEF Ready
    <3> QED BY <1>6, <1>12, <2>1, <2>4, <3>2, Zenon
  <2>5. CASE v.res = "FR_OK"
    <3>1. /\ y \in Machines /\ y.disk = v.disk /\ y.win = v.win /\ y.winsect = v.winsect
          /\ y.mounted = v.mounted /\ y.fp = v.fp /\ y.data = v.data
      <4>1. v \in Machines /\ cl - 1 \in Int
        BY <2>1, <2>2, InOrderFacts DEF Cluster
      <4> DEFINE x == cl - 1
      <4> HIDE DEF x
      <4>2. x \in Int
        BY <4>1 DEF x
      <4>3. y = [v EXCEPT !.last_clust = x]
        BY DEF x
      <4> QED BY <4>1, <4>2, <4>3 DEF Machines
    <3>2. y.wflag = v.wflag
      <4>1. v \in Machines
        BY <2>2, InOrderFacts
      <4> QED BY <4>1, Zenon DEF Machines
    <3> HIDE DEF y
    <3>3. InOrder(y, o, L, T, X, r) /\ Seen(y) = Seen(v) /\ Sound(y)
      BY <2>2, <3>1, <3>2, InOrderSame
    <3>4. Keeps(v, y)
      BY <3>1, Zenon DEF Keeps
    <3>5. Passes(y, w) /\ (w.res = "FR_OK" => Shows(w, DirSect(i)))
      <4>1. DirSect(i) \in 0 .. database - 1
        BY <1>1, LayoutFacts
      <4> DEFINE x == DirSect(i)
      <4> HIDE DEF x
      <4>2. x \in 0 .. database - 1
        BY <4>1 DEF x
      <4>3. LET u == move_window(y, x) IN Passes(y, u) /\ (u.res = "FR_OK" => Shows(u, x))
        BY <3>3, <4>2, MoveWindowFacts
      <4> QED BY <4>3, Zenon DEF x
    <3> HIDE DEF w
    <3>6. InOrder(w, o, L, T, {}, r) /\ Keeps(m, w) /\ Seen(w) = Seen(y)
      <4>1. InOrder(w, o, L, T, X, r)
        BY <3>3, <3>5, InOrderPasses
      <4>2. Keeps(y, w)
        BY <3>3, <3>5, PassesKeeps
      <4>3. Keeps(v, w)
        BY <3>4, <4>2, KeepsTrans
      <4>4. Keeps(m, w)
        BY <2>3, <4>3, KeepsTrans
      <4>5. InOrder(w, o, L, T, {}, r)
        BY <4>1, InOrderLess
      <4> QED BY <3>5, <4>4, <4>5, Zenon DEF Passes
    <3>7. Dir(Seen(w))[i].name = n
      BY <1>10, <2>2, <3>3, <3>6, Zenon
    <3>8. Ready(m, w, o, L, T, i, n)
      BY <1>1, <3>5, <3>6, <3>7, Zenon DEF Ready, Shown
    <3> QED BY <1>6, <1>12, <2>1, <2>5, <3>8, Zenon
  <2> QED BY <2>4, <2>5
<1> QED BY <1>11, <1>12

\* The file object that f_open makes of an entry
LEMMA OpenedFacts ==
    ASSUME NEW m, NEW o, NEW L, NEW T, NEW q, InOrder(m, o, L, T, {}, q), NEW i, NEW n \in Name, Shown(m, i, n),
           ~o[n].open, NEW mode \in SUBSET Mode, NEW created \in BOOLEAN
    PROVE  LET w == Opened(m, i, mode, created) IN
           /\ InOrder(w, With(o, n, w.fp), L, T, {}, q) /\ w.res = m.res
           /\ w.fp \in OpenFile /\ w.fp.fptr = 0 /\ w.fp.err = "FR_OK"
<1> DEFINE D == Dir(Seen(m))
           e == D[i]
           p == [open |-> TRUE, mode |-> mode, err |-> "FR_OK", slot |-> i,
                 dirty |-> FALSE, written |-> created,
                 fptr |-> 0, fsize |-> e.size, sclust |-> e.clust,
                 clust |-> 0, dsect |-> 0, buf |-> [x \in 0 .. SS - 1 |-> 0]]
           w == [m EXCEPT !.fp = p]
<1>1. i \in 0 .. NRootDir - 1 /\ Shows(m, DirSect(i)) /\ D[i].name = n
  BY Zenon DEF Shown
<1>2. Sound(m) /\ Holds(Fat(Seen(m)), D, o, L, T, {}, q) /\ D \in Folder /\ m \in Machines /\ m.mounted
  BY InOrderFacts
<1>3. EntryAt(m, i) = e /\ e \in DirEntry
  BY <1>1, <1>2, ShownEntry
<1>4. w = Opened(m, i, mode, created)
  <2> HIDE DEF D, e
  <2> QED BY <1>3, Zenon DEF Opened
<1> HIDE DEF D
<1>5. DirOK(D) /\ o \in [Name -> File]
      /\ RootedAt(q, n, Root(D, o)[n], Size(D, o)[n])
  BY <1>2, HoldsParts
<1>6. e.size \in Nat /\ e.clust \in {0} \union Cluster
  BY <1>3 DEF DirEntry
<1>7. Entry(D, n) = e
  BY <1>1, <1>2, <1>5, EntryType
<1> HIDE DEF e
<1>8. /\ p \in OpenFile /\ p.fptr = 0 /\ p.err = "FR_OK" /\ p.fsize = e.size /\ p.sclust = e.clust
      /\ p.slot = i
  <2>1. 0 \in Sector /\ [x \in 0 .. SS - 1 |-> 0] \in DataSector /\ "FR_OK" \in Result
    BY SectorFacts, LayoutFacts, OkResult DEF DataSector
  <2> DEFINE b == [x \in 0 .. SS - 1 |-> 0]
  <2> HIDE DEF b
  <2>2. b \in DataSector
    BY <2>1 DEF b
  <2> DEFINE y == [open |-> TRUE, mode |-> mode, err |-> "FR_OK", slot |-> i,
                   dirty |-> FALSE, written |-> created,
                   fptr |-> 0, fsize |-> e.size, sclust |-> e.clust,
                   clust |-> 0, dsect |-> 0, buf |-> b]
  <2>3. p = y
    BY Zenon DEF b
  <2>4. /\ y \in OpenFile /\ y.fptr = 0 /\ y.err = "FR_OK" /\ y.fsize = e.size /\ y.sclust = e.clust
        /\ y.slot = i
    BY <1>1, <1>6, <2>1, <2>2 DEF OpenFile
  <2> QED BY <2>3, <2>4, Zenon
<1>9. p.open /\ ~p.dirty
  BY Zenon
<1> HIDE DEF p
<1>10. Holds(Fat(Seen(m)), D, [o EXCEPT ![n] = p], L, T, {}, q)
  <2>1. Root(D, o)[n] = e.clust /\ Size(D, o)[n] = e.size
    BY <1>7, Zenon DEF Root, Size
  <2>2. RootedAt(q, n, Root(D, o)[n], e.size)
    BY <1>5, <2>1, Zenon
  <2>3. FiledAt(D, n, p, L)
    <3>1. e.size <= p.fsize
      BY <1>6, <1>8
    <3>2. Fits(D[p.slot], p)
      BY <1>8, <3>1, Zenon DEF Fits, e
    <3>3. 0 % SS = 0
      BY FatFsAssumption
    <3>4. BufOK(p)
      BY <1>8, <1>9, <3>3, Zenon DEF BufOK
    <3>5. D[p.slot].name = n
      BY <1>1, <1>8, Zenon
    <3> QED BY <3>2, <3>4, <3>5, Zenon DEF FiledAt
  <2>4. PosOK(q, n, p)
    BY <1>8, Zenon DEF PosOK
  <2> DEFINE z == e.size
             X == {}
  <2>5. z = (IF p.open THEN p.fsize ELSE Entry(D, n).size) /\ (IF p.open THEN p.sclust ELSE Entry(D, n).clust) = Root(D, o)[n]
    BY <1>8, <1>9, <2>1, Zenon
  <2>6. p \in File /\ L \subseteq L
    BY <1>8 DEF File
  <2>7. RootedAt(q, n, Root(D, o)[n], z) /\ Holds(Fat(Seen(m)), D, o, L, T, X, q)
    BY <1>2, <2>2
  <2> HIDE DEF z, X
  <2>8. Holds(Fat(Seen(m)), D, [o EXCEPT ![n] = p], L, T, X, q)
    BY <2>3, <2>4, <2>5, <2>6, <2>7, FileChange
  <2> QED BY <2>8 DEF X
<1>11. /\ w \in Machines /\ w.disk = m.disk /\ w.win = m.win /\ w.winsect = m.winsect
       /\ w.mounted = m.mounted /\ w.fp = p /\ w.res = m.res
  BY <1>2, <1>8 DEF Machines, File
<1>12. w.wflag = m.wflag
  BY <1>2, Zenon DEF Machines
<1> HIDE DEF w
<1>13. Seen(w) = Seen(m) /\ Sound(w)
  <2> DEFINE X == {}
  <2>1. InOrder(m, o, L, T, X, q)
    OBVIOUS
  <2> HIDE DEF X
  <2> QED BY <2>1, <1>11, <1>12, InOrderSame
<1>14. InOrder(w, With(o, n, w.fp), L, T, {}, q)
  <2> DEFINE o1 == With(o, n, w.fp)
             X == {}
  <2>1. Holds(Fat(Seen(w)), Dir(Seen(w)), o1, L, T, X, q)
    BY <1>10, <1>11, <1>13, Zenon DEF With, D
  <2>2. InOrder(m, o, L, T, X, q) /\ w.mounted /\ w.disk \in {m.disk, Seen(m)} /\ L \subseteq L
    BY <1>2, <1>11
  <2> HIDE DEF o1, X
  <2>3. InOrder(w, o1, L, T, X, q)
    BY <1>13, <2>1, <2>2, InOrderStep
  <2> QED BY <2>3 DEF o1, X
<1> QED BY <1>4, <1>8, <1>11, <1>14, Zenon DEF w

\* A call that opens n in m has made w: it has the file, or the volume is in order without
OpenedOr(m, w, n, o, L, T) ==
    \/ w.res # "FR_OK" /\ w.fp = m.fp /\ Vol(w, o, L, T)
    \/ /\ w.res = "FR_OK" /\ w.fp \in OpenFile /\ w.fp.fptr = 0 /\ w.fp.err = "FR_OK"
       /\ \E r : InOrder(w, With(o, n, w.fp), L, T, {}, r)

\* An f_open that fails opens nothing.
LEMMA OpenFailed ==
    ASSUME NEW m, NEW w, NEW n, NEW o, NEW L, NEW T, NEW q, InOrder(w, o, L, T, {}, q), w.fp = m.fp, w.res # "FR_OK"
    PROVE  OpenedOr(m, w, n, o, L, T)
<1>1. w.mounted
  BY InOrderFacts, Zenon
<1> QED BY <1>1, Zenon DEF OpenedOr, Vol

\* f_open behind the search.
MakeFile(e, mode, over) ==
    IfOk(IF over THEN Overwrite(e, e.val) ELSE e, LAMBDA o : Opened(o, e.val, mode, over))

\* It keeps the invariant.
LEMMA MakeFacts ==
    ASSUME NEW m, NEW e, NEW n \in Name, NEW o, NEW L, NEW T, NEW q, InOrder(e, o, L, T, {}, q), Shown(e, e.val, n), e.fp = m.fp,
           ~o[n].open, \A k \in Name : {n, k} \notin T, NEW mode \in SUBSET Mode, NEW over \in BOOLEAN
    PROVE  OpenedOr(m, MakeFile(e, mode, over), n, o, L, T)
<1> DEFINE i == e.val
           x == IF over THEN Overwrite(e, i) ELSE e
           w == Opened(x, i, mode, over)
<1>1. MakeFile(e, mode, over) = IF x.res = "FR_OK" THEN w ELSE x
  BY Zenon DEF MakeFile, IfOk
<1>2. Ready(e, x, o, L, T, i, n)
  <2>1. CASE over
    <3>1. x = Overwrite(e, i)
      BY <2>1
    <3> HIDE DEF i
    <3>2. Shown(e, i, n)
      BY DEF i
    <3>3. Ready(e, Overwrite(e, i), o, L, T, i, n)
      BY <3>2, OverwriteFacts
    <3> QED BY <3>1, <3>3, Zenon DEF i
  <2>2. CASE ~over
    <3>1. x = e
      BY <2>2
    <3> QED BY <3>1, KeepsRefl, Zenon DEF Ready
  <2> QED BY <2>1, <2>2
<1> HIDE DEF x
<1>3. PICK r : InOrder(x, o, L, T, {}, r)
  BY <1>2, Zenon DEF Ready
<1>4. x.fp = m.fp
  BY <1>2, Zenon DEF Ready, Keeps
<1>5. CASE x.res # "FR_OK"
  <2>1. OpenedOr(m, x, n, o, L, T)
    BY <1>3, <1>4, <1>5, OpenFailed
  <2> QED BY <1>1, <1>5, <2>1, Zenon
<1>6. CASE x.res = "FR_OK"
  <2>1. Shown(x, i, n)
    BY <1>2, <1>6, Zenon DEF Ready
  <2> HIDE DEF i
  <2>2. /\ InOrder(w, With(o, n, w.fp), L, T, {}, r) /\ w.res = x.res
        /\ w.fp \in OpenFile /\ w.fp.fptr = 0 /\ w.fp.err = "FR_OK"
    BY <1>3, <2>1, OpenedFacts
  <2> HIDE DEF w
  <2>3. OpenedOr(m, w, n, o, L, T)
    BY <1>6, <2>2, Zenon DEF OpenedOr
  <2> QED BY <1>1, <1>6, <2>3, Zenon
<1> QED BY <1>5, <1>6

\* f_open
LEMMA OpenCallFacts ==
    ASSUME NEW m, NEW n \in Name, NEW o, NEW L, NEW T, Vol(m, o, L, T), m.mounted \/ L = {},
           ~o[n].open, \A k \in Name : {n, k} \notin T, NEW mode \in SUBSET Mode
    PROVE  OpenedOr(m, f_open(m, n, mode), n, o, L, T)
<1> DEFINE v == find_volume(m)
           d == dir_find(v, n)
           r == dir_register(d, n)
           w == f_open(m, n, mode)
<1>1. w = IF v.res # "FR_OK" THEN v
          ELSE IF ~Creates(mode) THEN IF d.res = "FR_OK" THEN Opened(d, d.val, mode, FALSE) ELSE d
          ELSE IF d.res = "FR_NO_FILE" THEN IF r.res = "FR_OK" THEN MakeFile(r, mode, TRUE) ELSE r
          ELSE IF d.res = "FR_OK"
               THEN IF "CREATE_NEW" \in mode THEN Return(d, "FR_EXIST") ELSE MakeFile(d, mode, "CREATE_ALWAYS" \in mode)
          ELSE d
  BY Zenon DEF f_open, IfOk, MakeFile
<1>2. /\ v.fp = m.fp
      /\ \/ v.res = "FR_OK" /\ v.mounted /\ \E q : InOrder(v, o, L, T, {}, q)
         \/ v.res = "FR_DISK_ERR" /\ Vol(v, o, L, T)
  BY FindVolumeFacts
<1> HIDE DEF v
<1>3. CASE v.res # "FR_OK"
  <2>1. OpenedOr(m, v, n, o, L, T)
    BY <1>2, <1>3, Zenon DEF OpenedOr
  <2> QED BY <1>1, <1>3, <2>1, Zenon
<1>4. CASE v.res = "FR_OK"
  <2>1. PICK q : InOrder(v, o, L, T, {}, q)
    <3>1. "FR_OK" # "FR_DISK_ERR"
      OBVIOUS
    <3> QED BY <1>2, <1>4, <3>1, Zenon
  <2>2. /\ InOrder(d, o, L, T, {}, q) /\ Keeps(v, d) /\ Seen(d) = Seen(v)
        /\ Scanned(v, d, Dir(Seen(v)), n, "FR_NO_FILE")
    BY <2>1, InOrderScan, Zenon DEF dir_find
  <2> HIDE DEF d
  <2>3. d.fp = m.fp
    BY <1>2, <2>2, Zenon DEF Keeps
  <2>4. ASSUME d.res = "FR_OK" PROVE Shown(d, d.val, n)
    BY <2>2, <2>4, Zenon DEF Scanned, Shown
  <2>5. CASE d.res = "FR_OK"
    <3>1. Shown(d, d.val, n)
      BY <2>4, <2>5
    <3>2. \A over \in BOOLEAN : OpenedOr(m, MakeFile(d, mode, over), n, o, L, T)
      BY <2>2, <2>3, <3>1, MakeFacts
    <3>3. CASE ~Creates(mode)
      <4>1. MakeFile(d, mode, FALSE) = Opened(d, d.val, mode, FALSE)
        BY <2>5, Zenon DEF MakeFile, IfOk
      <4> QED BY <1>1, <1>4, <2>5, <3>2, <3>3, <4>1, Zenon
    <3>4. CASE Creates(mode) /\ "CREATE_NEW" \in mode
      <4> DEFINE a == Return(d, "FR_EXIST")
      <4>1. InOrder(a, o, L, T, {}, q) /\ Keeps(d, a) /\ a.res = "FR_EXIST"
        BY <2>2, OkResult, InOrderReturn
      <4> HIDE DEF a
      <4>2. OpenedOr(m, a, n, o, L, T)
        <5>1. a.fp = m.fp /\ a.res # "FR_OK"
          BY <2>3, <4>1, Zenon DEF Keeps
        <5> QED BY <4>1, <5>1, OpenFailed
      <4>3. "FR_OK" # "FR_NO_FILE"
        OBVIOUS
      <4> QED BY <1>1, <1>4, <2>5, <3>4, <4>2, <4>3, Zenon DEF a
    <3>5. CASE Creates(mode) /\ "CREATE_NEW" \notin mode
      <4>1. ("CREATE_ALWAYS" \in mode) \in BOOLEAN
        OBVIOUS
      <4>2. "FR_OK" # "FR_NO_FILE"
        OBVIOUS
      <4>3. OpenedOr(m, MakeFile(d, mode, "CREATE_ALWAYS" \in mode), n, o, L, T)
        BY <3>2, <4>1, Zenon
      <4>4. w = MakeFile(d, mode, "CREATE_ALWAYS" \in mode)
        BY <1>1, <1>4, <2>5, <3>5, <4>2, Zenon
      <4> QED BY <4>3, <4>4, Zenon
    <3> QED BY <3>3, <3>4, <3>5
  <2>6. CASE d.res # "FR_OK" /\ (~Creates(mode) \/ d.res # "FR_NO_FILE")
    <3>1. OpenedOr(m, d, n, o, L, T)
      BY <2>2, <2>3, <2>6, OpenFailed
    <3>2. w = d
      BY <1>1, <1>4, <2>6, Zenon
    <3> QED BY <3>1, <3>2, Zenon
  <2>7. CASE Creates(mode) /\ d.res = "FR_NO_FILE"
    <3>1. \A j \in 0 .. NRootDir - 1 : Dir(Seen(d))[j].name # n
      <4>1. n # NoName
        BY FatFsAssumption
      <4>2. DirOK(Dir(Seen(v)))
        <5> DEFINE D == Dir(Seen(v))
        <5>1. Holds(Fat(Seen(v)), D, o, L, T, {}, q)
          BY <2>1, InOrderFacts, Zenon
        <5> HIDE DEF D
        <5>2. DirOK(D)
          BY <5>1, HoldsParts
        <5> QED BY <5>2 DEF D
      <4> QED BY <2>2, <2>7, <4>1, <4>2, Zenon DEF Scanned
    <3>2. Registered(d, r, o, L, T, {}, q, n)
      <4> DEFINE X == {}
      <4>1. InOrder(d, o, L, T, X, q)
        BY <2>2
      <4> HIDE DEF X
      <4>2. Registered(d, dir_register(d, n), o, L, T, X, q, n)
        BY <3>1, <4>1, RegisterFacts
      <4> QED BY <4>2 DEF X
    <3> HIDE DEF r
    <3>3. InOrder(r, o, L, T, {}, q) /\ r.fp = m.fp
      BY <2>3, <3>2, Zenon DEF Registered, Keeps
    <3>4. CASE r.res # "FR_OK"
      <4>1. OpenedOr(m, r, n, o, L, T)
        BY <3>3, <3>4, OpenFailed
      <4> QED BY <1>1, <1>4, <2>7, <3>4, <4>1, Zenon
    <3>5. CASE r.res = "FR_OK"
      <4>1. Shown(r, r.val, n)
        <5>1. /\ r.val \in 0 .. NRootDir - 1 /\ Shows(r, DirSect(r.val))
              /\ Dir(Seen(r)) = [Dir(Seen(d)) EXCEPT ![r.val] = BlankOf(n)]
          BY <3>2, <3>5 DEF Registered
        <5>2. Dir(Seen(d)) \in Folder
          BY <2>2, InOrderFacts
        <5>3. BlankOf(n).name = n
          BY BlankFacts
        <5>4. Dir(Seen(r))[r.val] = BlankOf(n)
          BY <5>1, <5>2 DEF Folder
        <5> QED BY <5>1, <5>3, <5>4, Zenon DEF Shown
      <4>2. OpenedOr(m, MakeFile(r, mode, TRUE), n, o, L, T)
        BY <3>3, <4>1, MakeFacts
      <4> QED BY <1>1, <1>4, <2>7, <3>5, <4>2, Zenon
    <3> QED BY <3>4, <3>5
  <2> QED BY <2>5, <2>6, <2>7
<1> QED BY <1>3, <1>4

-------------------------------------------------------------------------------
(* f_unlink *)

\* After sync_fs has succeeded the medium is what the calls see
LEMMA SyncedFacts ==
    ASSUME NEW m, NEW o, NEW L, NEW T, NEW q, InOrder(m, o, L, T, {}, q),
           NEW M, NEW S, NEW r, Holds(Fat(Seen(m)), Dir(Seen(m)), o, M, S, {}, r)
    PROVE  LET w == sync_fs(m) IN
           /\ InOrder(w, o, L, T, {}, q) /\ Keeps(m, w) /\ w.res \in {"FR_OK", "FR_DISK_ERR"}
           /\ w.res = "FR_OK" => InOrder(w, o, M, S, {}, r)
<1> DEFINE w == sync_fs(m)
<1>1. Sound(m) /\ m.mounted
  BY InOrderFacts
<1>2. Passes(m, w) /\ Answers(m, w) /\ (w.res = "FR_OK" => w.disk = Seen(m))
  BY <1>1, SyncFsFacts
<1> HIDE DEF w
<1>3. InOrder(w, o, L, T, {}, q) /\ Keeps(m, w)
  BY <1>1, <1>2, InOrderPasses, PassesKeeps
<1>4. ASSUME w.res = "FR_OK" PROVE InOrder(w, o, M, S, {}, r)
  <2>1. Seen(w) = Seen(m) /\ w.disk = Seen(w) /\ Sound(w) /\ w.mounted
    BY <1>1, <1>2, <1>4, Zenon DEF Passes
  <2>2. Holds(Fat(Seen(w)), Dir(Seen(w)), o, M, S, {}, r)
    BY <2>1, Zenon
  <2>3. Fine(w.disk, M)
    <3> DEFINE s == w.disk
    <3>1. Holds(Fat(s), Dir(s), o, M, S, {}, r)
      BY <2>1, <2>2, Zenon
    <3> HIDE DEF s
    <3>2. Fine(s, M)
      BY <3>1, HeldFine
    <3> QED BY <3>2 DEF s
  <2> QED BY <2>1, <2>2, <2>3, Zenon DEF InOrder
<1> QED BY <1>2, <1>3, <1>4, Zenon DEF Answers, w

\* dir_remove on a volume in order: the entry is blank, once the window shows it
Removed(m, w, o, L, T, q, i) ==
    /\ Keeps(m, w)
    /\ \/ w.res = "FR_DISK_ERR" /\ InOrder(w, o, L, T, {}, q)
       \/ /\ w.res = "FR_OK" /\ Fat(Seen(w)) = Fat(Seen(m))
          /\ Dir(Seen(w)) = [Dir(Seen(m)) EXCEPT ![i] = Blank(FALSE)]

\* An entry removed.
LEMMA RemovedFacts ==
    ASSUME NEW m, NEW o, NEW L, NEW T, NEW q, InOrder(m, o, L, T, {}, q), NEW i \in 0 .. NRootDir - 1,
           NEW L1, NEW T1, NEW X1, NEW q1, L \subseteq L1,
           Holds(Fat(Seen(m)), [Dir(Seen(m)) EXCEPT ![i] = Blank(FALSE)], o, L1, T1, X1, q1)
    PROVE  LET w == dir_remove(m, i) IN
           Removed(m, w, o, L, T, q, i) /\ (w.res = "FR_OK" => InOrder(w, o, L1, T1, X1, q1))
<1> DEFINE x == DirSect(i)
           v == move_window(m, x)
           e == Blank(FALSE)
           u == SetEntry(v, i, e)
           w == dir_remove(m, i)
<1>1. w = IF v.res = "FR_OK" THEN u ELSE v
  BY Zenon DEF dir_remove, IfOk
<1>2. Sound(m) /\ x \in 0 .. database - 1
  BY InOrderFacts, LayoutFacts
<1> HIDE DEF x
<1>3. Passes(m, v) /\ Answers(m, v) /\ (v.res = "FR_OK" => Shows(v, x))
  BY <1>2, MoveWindowFacts
<1> HIDE DEF v
<1>4. InOrder(v, o, L, T, {}, q) /\ Keeps(m, v) /\ Seen(v) = Seen(m)
  BY <1>2, <1>3, InOrderPasses, PassesKeeps DEF Passes
<1>5. CASE v.res # "FR_OK"
  <2>1. v.res = "FR_DISK_ERR"
    BY <1>3, <1>5, Zenon DEF Answers
  <2>2. Removed(m, v, o, L, T, q, i)
    BY <1>4, <2>1, Zenon DEF Removed
  <2> QED BY <1>1, <1>5, <2>2
<1>6. CASE v.res = "FR_OK"
  <2>1. Shows(v, DirSect(i)) /\ e \in DirEntry
    BY <1>3, <1>6, BlankFacts DEF x
  <2>2. Holds(Fat(Seen(v)), [Dir(Seen(v)) EXCEPT ![i] = e], o, L1, T1, X1, q1)
    BY <1>4, Zenon
  <2> HIDE DEF e
  <2>3. InOrder(u, o, L1, T1, X1, q1) /\ EntrySet(v, u, i, e)
    <3> DEFINE X == {}
    <3>1. InOrder(v, o, L, T, X, q)
      BY <1>4
    <3> HIDE DEF X
    <3> QED BY <2>1, <2>2, <3>1, InOrderSetEntry
  <2> HIDE DEF u
  <2>4. /\ Keeps(v, u) /\ u.res = "FR_OK" /\ Fat(Seen(u)) = Fat(Seen(m))
        /\ Dir(Seen(u)) = [Dir(Seen(m)) EXCEPT ![i] = e]
    BY <1>4, <1>6, <2>3, Zenon DEF EntrySet
  <2>5. Keeps(m, u)
    BY <1>4, <2>4, KeepsTrans
  <2>6. Removed(m, u, o, L, T, q, i)
    BY <2>4, <2>5, Zenon DEF Removed, e
  <2> QED BY <1>1, <1>6, <2>3, <2>6, Zenon DEF w
<1> QED BY <1>5, <1>6

\* f_unlink
Unlinked(m, w, n, o, L, T) ==
    /\ w.fp = m.fp
    /\ w.res # "FR_OK" => Vol(w, o, L, T)
    /\ w.res = "FR_OK" => Vol(w, o, L \ {n}, T)

\* A volume in order, whatever the certificate.
LEMMA InOrderVol ==
    ASSUME NEW m, NEW o, NEW L, NEW T, NEW X, NEW q, InOrder(m, o, L, T, X, q)
    PROVE  Vol(m, o, L, T)
<1>1. InOrder(m, o, L, T, {}, q) /\ m.mounted
  BY InOrderLess, InOrderFacts, Zenon
<1> QED BY <1>1, Zenon DEF Vol

\* f_unlink frees the chain when there is one.
Freeing(r, dclst) == IF dclst = 0 THEN r ELSE remove_chain(r, dclst)

\* f_unlink behind the search.
Erased(d) == IfOk(dir_remove(d, d.val), LAMBDA r : IfOk(Freeing(r, EntryAt(d, d.val).clust), sync_fs))

\* The entry goes first, then the chain.
LEMMA ErasedFacts ==
    ASSUME NEW m, NEW n \in Name, NEW o, NEW L, NEW T, NEW q, InOrder(m, o, L, T, {}, q), Shown(m, m.val, n),
           ~o[n].open, \A k \in Name : {n, k} \notin T
    PROVE  Unlinked(m, Erased(m), n, o, L, T)
<1> DEFINE i == m.val
           D == Dir(Seen(m))
           cl == D[i].clust
           r == dir_remove(m, i)
           f == Freeing(r, cl)
           s == sync_fs(f)
           w == Erased(m)
<1>1. i \in 0 .. NRootDir - 1 /\ Shows(m, DirSect(i)) /\ D[i].name = n
  BY Zenon DEF Shown
<1>2. Sound(m) /\ Holds(Fat(Seen(m)), D, o, L, T, {}, q) /\ D \in Folder
  BY InOrderFacts
<1>3. EntryAt(m, i) = D[i] /\ D[i] \in DirEntry
  <2> HIDE DEF i
  <2> QED BY <1>1, <1>2, ShownEntry
<1>4. cl \in {0} \union Cluster
  BY <1>3 DEF DirEntry
<1>5. w = IF r.res # "FR_OK" THEN r ELSE IF f.res # "FR_OK" THEN f ELSE s
  <2>1. EntryAt(m, i) = D[i]
    BY <1>3
  <2> HIDE DEF D
  <2> QED BY <2>1, Zenon DEF Erased, IfOk
<1> HIDE DEF D
<1>6. PICK t, X : Holds(Fat(Seen(m)), [D EXCEPT ![i] = Blank(FALSE)], o, L, T, X, t) /\ (cl # 0 => cl \in X)
  <2> DEFINE e == Blank(FALSE)
  <2>1. e \in DirEntry /\ ~e.end /\ e.clust = 0 /\ e.size = 0 /\ e.name \in {n, NoName}
    BY BlankFacts
  <2> HIDE DEF e, i
  <2>2. \E t, X : Holds(Fat(Seen(m)), [D EXCEPT ![i] = e], o, L, T, X, t) /\ (D[i].clust # 0 => D[i].clust \in X)
    BY <1>1, <1>2, <2>1, Vacate
  <2> QED BY <2>2, Zenon DEF e
<1>7. Removed(m, r, o, L, T, q, i) /\ (r.res = "FR_OK" => InOrder(r, o, L, T, X, t))
  <2>1. Holds(Fat(Seen(m)), [Dir(Seen(m)) EXCEPT ![i] = Blank(FALSE)], o, L, T, X, t) /\ L \subseteq L
    BY <1>6 DEF D
  <2> HIDE DEF i
  <2> QED BY <1>1, <2>1, RemovedFacts
<1> HIDE DEF r, i
<1>8. r.fp = m.fp
  BY <1>7, Zenon DEF Removed, Keeps
<1>9. CASE r.res # "FR_OK"
  <2>1. InOrder(r, o, L, T, {}, q)
    BY <1>7, <1>9, Zenon DEF Removed
  <2>2. Vol(r, o, L, T)
    BY <2>1, InOrderVol
  <2> QED BY <1>5, <1>8, <1>9, <2>2, Zenon DEF Unlinked
<1>10. CASE r.res = "FR_OK"
  <2>1. InOrder(r, o, L, T, X, t)
    BY <1>7, <1>10
  <2>2. InOrder(f, o, L, T, X, t) /\ f.fp = m.fp
    <3>1. CASE cl = 0
      <4>1. f = r
        BY <3>1, Zenon DEF Freeing
      <4> HIDE DEF f
      <4> QED BY <2>1, <4>1, <1>8
    <3>2. CASE cl # 0
      <4>1. cl \in Cluster /\ cl \in X
        BY <1>4, <1>6, <3>2
      <4>2. f = RemoveFrom(r, cl)
        BY <3>2, <4>1, Zenon DEF Freeing, remove_chain
      <4> HIDE DEF cl
      <4>3. LET u == RemoveFrom(r, cl) IN InOrder(u, o, L, T, X, t) /\ Keeps(r, u)
        BY <2>1, <4>1, RemoveFacts
      <4> HIDE DEF f
      <4>4. InOrder(f, o, L, T, X, t) /\ Keeps(r, f)
        BY <4>2, <4>3, Zenon
      <4> QED BY <1>8, <4>4, Zenon DEF Keeps
    <3> QED BY <3>1, <3>2
  <2> HIDE DEF f
  <2>3. InOrder(f, o, L, T, {}, t)
    BY <2>2, InOrderLess
  <2>4. CASE f.res # "FR_OK"
    <3>1. Vol(f, o, L, T)
      BY <2>3, InOrderVol
    <3> QED BY <1>5, <1>10, <2>2, <2>4, <3>1, Zenon DEF Unlinked
  <2>5. CASE f.res = "FR_OK"
    <3> DEFINE M == L \ {n}
    <3>1. Holds(Fat(Seen(f)), Dir(Seen(f)), o, M, T, {}, t)
      <4> DEFINE Z == {}
                 F == Fat(Seen(f))
                 E == Dir(Seen(f))
      <4>1. Holds(F, E, o, L, T, Z, t)
        BY <2>3, InOrderFacts
      <4> HIDE DEF Z, F, E
      <4>2. Holds(F, E, o, L \ {n}, T, Z, t)
        BY <4>1, HoldsLess
      <4> QED BY <4>2 DEF Z, F, E
    <3> HIDE DEF M
    <3>2. /\ InOrder(s, o, L, T, {}, t) /\ Keeps(f, s)
          /\ s.res = "FR_OK" => InOrder(s, o, M, T, {}, t)
      BY <2>3, <3>1, SyncedFacts
    <3> HIDE DEF s
    <3>3. Vol(s, o, L, T) /\ (s.res = "FR_OK" => Vol(s, o, M, T))
      BY <3>2, InOrderVol
    <3>4. s.fp = m.fp
      BY <2>2, <3>2, Zenon DEF Keeps
    <3>5. Unlinked(m, s, n, o, L, T)
      BY <3>3, <3>4, Zenon DEF Unlinked, M
    <3> QED BY <1>5, <1>10, <2>5, <3>5, Zenon
  <2> QED BY <2>4, <2>5
<1> QED BY <1>9, <1>10

\* f_unlink keeps the invariant.
LEMMA UnlinkFacts ==
    ASSUME NEW m, NEW n \in Name, NEW o, NEW L, NEW T, Vol(m, o, L, T), m.mounted \/ L = {},
           ~o[n].open, \A k \in Name : {n, k} \notin T
    PROVE  Unlinked(m, f_unlink(m, n), n, o, L, T)
<1> DEFINE v == find_volume(m)
           d == dir_find(v, n)
           w == f_unlink(m, n)
<1>1. w = IF v.res # "FR_OK" THEN v ELSE IF d.res # "FR_OK" THEN d ELSE Erased(d)
  BY Zenon DEF f_unlink, IfOk, Erased, Freeing
<1>2. /\ v.fp = m.fp
      /\ \/ v.res = "FR_OK" /\ v.mounted /\ \E q : InOrder(v, o, L, T, {}, q)
         \/ v.res = "FR_DISK_ERR" /\ Vol(v, o, L, T)
  BY FindVolumeFacts
<1> HIDE DEF v
<1>3. CASE v.res # "FR_OK"
  <2>1. Unlinked(m, v, n, o, L, T)
    BY <1>2, <1>3, Zenon DEF Unlinked
  <2> QED BY <1>1, <1>3, <2>1, Zenon
<1>4. CASE v.res = "FR_OK"
  <2>1. PICK q : InOrder(v, o, L, T, {}, q)
    <3>1. "FR_OK" # "FR_DISK_ERR"
      OBVIOUS
    <3> QED BY <1>2, <1>4, <3>1, Zenon
  <2>2. InOrder(d, o, L, T, {}, q) /\ Keeps(v, d) /\ Scanned(v, d, Dir(Seen(v)), n, "FR_NO_FILE") /\ Seen(d) = Seen(v)
    BY <2>1, InOrderScan, Zenon DEF dir_find
  <2> HIDE DEF d
  <2>3. d.fp = m.fp
    BY <1>2, <2>2, Zenon DEF Keeps
  <2>4. CASE d.res # "FR_OK"
    <3>1. Vol(d, o, L, T)
      BY <2>2, InOrderVol
    <3> QED BY <1>1, <1>4, <2>3, <2>4, <3>1, Zenon DEF Unlinked
  <2>5. CASE d.res = "FR_OK"
    <3>1. Shown(d, d.val, n)
      BY <2>2, <2>5, Zenon DEF Scanned, Shown
    <3>2. Unlinked(d, Erased(d), n, o, L, T)
      BY <2>2, <3>1, ErasedFacts
    <3>3. Unlinked(m, Erased(d), n, o, L, T)
      BY <2>3, <3>2, Zenon DEF Unlinked
    <3> QED BY <1>1, <1>4, <2>5, <3>3, Zenon
  <2> QED BY <2>4, <2>5
<1> QED BY <1>3, <1>4

-------------------------------------------------------------------------------
(* f_rename: until both entries are written, two names may hold one chain *)

\* More names may share a chain, more files be loose
LEMMA TwinMore ==
    ASSUME NEW F, NEW D, NEW o, NEW L, NEW T, NEW X, NEW q, Holds(F, D, o, L, T, X, q),
           NEW L1, NEW T1, L \subseteq L1, T \subseteq T1, Twinned(T1, L1)
    PROVE  Holds(F, D, o, L1, T1, X, q)
<1>1. Apart(q, Root(D, o), T) => Apart(q, Root(D, o), T1)
  BY DEF Apart
<1>2. Filed(D, o, L) => Filed(D, o, L1)
  BY DEF Filed, FiledAt
<1> QED BY <1>1, <1>2, Zenon DEF Holds, Held

\* More pairs and more loose names may be named.
LEMMA InOrderTwinMore ==
    ASSUME NEW m, NEW o, NEW L, NEW T, NEW q, InOrder(m, o, L, T, {}, q),
           NEW L1, NEW T1, L \subseteq L1, T \subseteq T1, Twinned(T1, L1)
    PROVE  InOrder(m, o, L1, T1, {}, q)
<1> DEFINE F == Fat(Seen(m))
           D == Dir(Seen(m))
           X == {}
<1>1. Holds(F, D, o, L, T, X, q) /\ Sound(m) /\ m.mounted /\ Fine(m.disk, L)
  BY InOrderFacts
<1> HIDE DEF F, D, X
<1>2. Holds(F, D, o, L1, T1, X, q)
  BY <1>1, TwinMore
<1>3. Fine(m.disk, L1)
  BY <1>1, FineMore
<1> QED BY <1>1, <1>2, <1>3, Zenon DEF InOrder, F, D, X

\* The entries of other names stay filed.
LEMMA FiledElse ==
    ASSUME NEW D, NEW o \in [Name -> File], NEW L, Filed(D, o, L), NEW n, NEW k, ~o[n].open, ~o[k].open,
           NEW D1, \A i \in 0 .. NRootDir - 1 : D1[i] = D[i] \/ D[i].name \in {n, k}, NEW L1, L \subseteq L1
    PROVE  Filed(D1, o, L1)
<1> SUFFICES ASSUME NEW j \in Name, o[j].open PROVE FiledAt(D1, j, o[j], L1)
  BY Zenon DEF Filed, FiledAt
<1>1. FiledAt(D, j, o[j], L) /\ D[o[j].slot].name = j
  BY Zenon DEF Filed, FiledAt
<1>2. o[j].slot \in 0 .. NRootDir - 1
  <2>1. o[j] \in OpenFile
    BY NoFileFacts DEF File
  <2> QED BY <2>1, OpenFacts
<1>3. D1[o[j].slot] = D[o[j].slot]
  BY <1>1, <1>2, Zenon
<1> QED BY <1>1, <1>3, Zenon DEF FiledAt

\* The directory while f_rename moves the entry a of n to the new entry b of k
NameOf(e, k) == [e EXCEPT !.name = k]

\* The directory after the new entry is written.
Copying(D, a, b, k) == [D EXCEPT ![b] = NameOf(D[a], k)]

\* The directory after the old entry is removed too.
Moving(D, a, b, k) == [Copying(D, a, b, k) EXCEPT ![a] = Blank(FALSE)]

\* What is known of both.
MovingDir(D, D2, D3, n, k) ==
    /\ D2 \in Folder /\ DirOK(D2) /\ Moved(D, D2, n, k)
    /\ D3 \in Folder /\ DirOK(D3) /\ Moved(D, D3, n, k)
    /\ Entry(D3, n).clust = 0 /\ Entry(D3, n).size = 0 /\ Entry(D3, k).clust = Entry(D, n).clust
    /\ \A i \in 0 .. NRootDir - 1 : D2[i] = D[i] \/ D[i].name \in {n, k}
    /\ \A i \in 0 .. NRootDir - 1 : D3[i] = D[i] \/ D[i].name \in {n, k}

\* It holds.
LEMMA MovingFacts ==
    ASSUME NEW D \in Folder, DirOK(D), NEW n \in Name, NEW k \in Name, n # k,
           NEW a \in 0 .. NRootDir - 1, NEW b \in 0 .. NRootDir - 1, D[a].name = n, D[b] = BlankOf(k)
    PROVE  NameOf(D[a], k) \in DirEntry /\ MovingDir(D, Copying(D, a, b, k), Moving(D, a, b, k), n, k)
<1> DEFINE e == NameOf(D[a], k)
           z == Blank(FALSE)
           D2 == Copying(D, a, b, k)
           D3 == Moving(D, a, b, k)
<1>1. D[a] \in DirEntry /\ D[b].name = k /\ D[b].clust = 0 /\ D[b].size = 0 /\ a # b
  BY BlankFacts DEF Folder
<1>2. NoName # n /\ NoName # k /\ NoName \notin Name
  BY FatFsAssumption
<1>3. \A i, j \in 0 .. NRootDir - 1 : D[i].name # NoName /\ j <= i => ~D[j].end
  BY Zenon DEF DirOK
<1>4. ~D[a].end
  <2>1. a <= a
    OBVIOUS
  <2> QED BY <1>2, <1>3, <2>1
<1>5. e \in DirEntry /\ ~e.end /\ e.name = k /\ e.clust = D[a].clust /\ e.size = D[a].size
  <2> DEFINE d == D[a]
  <2>1. d \in DirEntry /\ ~d.end
    BY <1>1, <1>4
  <2> HIDE DEF d
  <2>2. e = NameOf(d, k)
    BY DEF d
  <2>3. LET y == NameOf(d, k) IN y \in DirEntry /\ y.name = k /\ y.clust = d.clust /\ y.size = d.size
    BY <2>1 DEF DirEntry, NameOf
  <2>4. LET y == NameOf(d, k) IN y.end = d.end
    BY <2>1, Zenon DEF DirEntry, NameOf
  <2> QED BY <2>1, <2>2, <2>3, <2>4, Zenon DEF d
<1>6. Updated(D, b, e, D2)
  <2>1. \A j \in 0 .. NRootDir - 1 : j < b => ~D[j].end
    BY <1>1, <1>2, <1>3
  <2>2. \A j \in 0 .. NRootDir - 1 : j # b /\ D[j].name = e.name => e.name = NoName
    BY <1>1, <1>5, Zenon DEF DirOK
  <2>3. D2 = [D EXCEPT ![b] = e]
    BY Zenon DEF Copying
  <2> HIDE DEF e
  <2>4. Updated(D, b, e, [D EXCEPT ![b] = e])
    BY <1>5, <2>1, <2>2, DirUpdate
  <2> QED BY <2>3, <2>4, Zenon
<1>7. D3 = [D2 EXCEPT ![a] = z]
  BY Zenon DEF Moving
<1> HIDE DEF D2, D3, e
<1>8. /\ D2 \in Folder /\ DirOK(D2) /\ D2[b] = e /\ D2[a] = D[a]
      /\ \A j \in 0 .. NRootDir - 1 : j # b => D2[j] = D[j]
      /\ Entry(D2, k) = e
      /\ \A j \in Name : j # k => Entry(D2, j) = Entry(D, j)
  <2>1. /\ D2 \in Folder /\ DirOK(D2) /\ D2[b] = e
        /\ \A j \in 0 .. NRootDir - 1 : j # b => D2[j] = D[j]
        /\ \A j \in Name : j = e.name => Entry(D2, j) = e
        /\ \A j \in Name : j # e.name /\ j # D[b].name => Entry(D2, j) = Entry(D, j)
    BY <1>6, Zenon DEF Updated
  <2> QED BY <1>1, <1>5, <2>1, Zenon
<1>9. Updated(D2, a, z, D3)
  <2>1. \A i, j \in 0 .. NRootDir - 1 : D2[i].name # NoName /\ j <= i => ~D2[j].end
    BY <1>8, Zenon DEF DirOK
  <2>2. D2[a].name = n
    BY <1>8
  <2>3. \A j \in 0 .. NRootDir - 1 : j < a => ~D2[j].end
    BY <1>2, <2>1, <2>2
  <2>4. z \in DirEntry /\ ~z.end /\ z.name = NoName
    BY BlankFacts
  <2>5. \A j \in 0 .. NRootDir - 1 : j # a /\ D2[j].name = z.name => z.name = NoName
    BY <2>4
  <2> HIDE DEF z
  <2> QED BY <1>7, <1>8, <2>3, <2>4, <2>5, DirUpdate
<1>10. /\ D3 \in Folder /\ DirOK(D3) /\ D3[a] = z
       /\ \A j \in 0 .. NRootDir - 1 : j # a => D3[j] = D2[j]
       /\ Entry(D3, n) = z
       /\ \A j \in Name : j # n => Entry(D3, j) = Entry(D2, j)
  <2>1. /\ D3 \in Folder /\ DirOK(D3) /\ D3[a] = z
        /\ \A j \in 0 .. NRootDir - 1 : j # a => D3[j] = D2[j]
        /\ \A j \in Name : j # z.name /\ j # D2[a].name => Entry(D3, j) = Entry(D2, j)
        /\ \A j \in Name : j # z.name /\ j = D2[a].name => Entry(D3, j) = Blank(FALSE)
    BY <1>9, Zenon DEF Updated
  <2>2. z.name = NoName /\ D2[a].name = n
    BY <1>8, BlankFacts
  <2> HIDE DEF z
  <2>3. \A j \in Name : j # z.name
    BY <1>2, <2>2
  <2>4. Entry(D3, n) = Blank(FALSE)
    BY <2>1, <2>2, <2>3
  <2> QED BY <2>1, <2>2, <2>3, <2>4 DEF z
<1>11. Entry(D, n) = D[a] /\ Entry(D, k) = D[b]
  BY <1>1, EntryType
<1>12. z.clust = 0 /\ z.size = 0
  BY BlankFacts
<1> HIDE DEF z
<1>13. Moved(D, D2, n, k)
  BY <1>1, <1>5, <1>8, <1>11, Zenon DEF Moved
<1>14. Moved(D, D3, n, k)
  BY <1>1, <1>5, <1>8, <1>10, <1>11, <1>12, Zenon DEF Moved
<1>15. Entry(D3, n).clust = 0 /\ Entry(D3, n).size = 0 /\ Entry(D3, k).clust = Entry(D, n).clust
  BY <1>5, <1>8, <1>10, <1>11, <1>12
<1>16. \A i \in 0 .. NRootDir - 1 : D2[i] = D[i] \/ D[i].name \in {n, k}
  BY <1>1, <1>8
<1>17. \A i \in 0 .. NRootDir - 1 : D3[i] = D[i] \/ D[i].name \in {n, k}
  BY <1>10, <1>16
<1> QED BY <1>5, <1>8, <1>10, <1>13, <1>14, <1>15, <1>16, <1>17, Zenon DEF MovingDir, D2, D3, e

\* The end of f_rename, from the new and still blank entry b on, which the window of m shows
MoveEntry(m, a, b, e) == IfOk(dir_remove(SetEntry(m, b, e), a), sync_fs)

\* What a rename leaves: moved, or two names for one chain.
MovedOr(m, w, n, k, o, L, T) ==
    /\ w.fp = m.fp /\ w.mounted
    /\ \/ w.res = "FR_OK" /\ Vol(w, o, L, T)
       \/ w.res = "FR_DISK_ERR" /\ Vol(w, o, L \union {n, k}, T \union {{n, k}})

\* The critical section of f_rename.
LEMMA MoveEntryFacts ==
    ASSUME NEW m, NEW n \in Name, NEW k \in Name, n # k, NEW o, NEW L, NEW T, NEW q, InOrder(m, o, L, T, {}, q),
           ~o[n].open, ~o[k].open, \A j \in Name : {n, j} \notin T /\ {k, j} \notin T,
           NEW a \in 0 .. NRootDir - 1, NEW b \in 0 .. NRootDir - 1,
           Dir(Seen(m))[a].name = n, Dir(Seen(m))[b] = BlankOf(k), Shows(m, DirSect(b)),
           NEW e, e = NameOf(Dir(Seen(m))[a], k)
    PROVE  MovedOr(m, MoveEntry(m, a, b, e), n, k, o, L, T)
<1> DEFINE F == Fat(Seen(m))
           D == Dir(Seen(m))
           D2 == Copying(D, a, b, k)
           D3 == Moving(D, a, b, k)
           L1 == L \union {n, k}
           T1 == T \union {{n, k}}
           c == SetEntry(m, b, e)
           r == dir_remove(c, a)
           s == sync_fs(r)
           w == MoveEntry(m, a, b, e)
<1>1. w = IF r.res = "FR_OK" THEN s ELSE r
  BY Zenon DEF MoveEntry, IfOk
<1>2. Holds(F, D, o, L, T, {}, q) /\ D \in Folder /\ o \in [Name -> File]
  BY InOrderFacts
<1>3. DirOK(D) /\ Filed(D, o, L)
  <2> HIDE DEF F, D
  <2> QED BY <1>2, HoldsParts
<1>4. e \in DirEntry /\ MovingDir(D, D2, D3, n, k)
  <2>1. D[b] = BlankOf(k) /\ D[a].name = n
    OBVIOUS
  <2>2. e = NameOf(D[a], k)
    OBVIOUS
  <2> HIDE DEF D
  <2> QED BY <1>2, <1>3, <2>1, <2>2, MovingFacts
<1>5. D2 = [D EXCEPT ![b] = e] /\ D3 = [D2 EXCEPT ![a] = Blank(FALSE)]
  BY Zenon DEF Copying, Moving
<1>6. L \subseteq L1 /\ n \in L1 /\ k \in L1
  OBVIOUS
<1> HIDE DEF D2, D3, D, F
<1>7. \E x : Holds(F, D2, o, L1, T1, {}, x)
  <2>1. Filed(D2, o, L1)
    <3>1. \A i \in 0 .. NRootDir - 1 : D2[i] = D[i] \/ D[i].name \in {n, k}
      BY <1>4, Zenon DEF MovingDir
    <3> HIDE DEF L1
    <3> QED BY <1>2, <1>3, <1>6, <3>1, FiledElse
  <2>2. D2 \in Folder /\ DirOK(D2) /\ Moved(D, D2, n, k)
    BY <1>4, Zenon DEF MovingDir
  <2>3. L \union {n, k} \subseteq L1
    OBVIOUS
  <2> DEFINE X == {}
  <2>4. Holds(F, D, o, L, T, X, q)
    BY <1>2
  <2> HIDE DEF L1
  <2>5. \E x : Holds(F, D2, o, L1, T \union {{n, k}}, {}, x)
    BY <1>2, <2>1, <2>2, <2>3, TwinHolds
  <2> QED BY <2>5
<1>8. \E x : Holds(F, D3, o, L1, T1, {}, x)
  <2>1. Filed(D3, o, L1)
    <3>1. \A i \in 0 .. NRootDir - 1 : D3[i] = D[i] \/ D[i].name \in {n, k}
      BY <1>4, Zenon DEF MovingDir
    <3> HIDE DEF L1
    <3> QED BY <1>2, <1>3, <1>6, <3>1, FiledElse
  <2>2. D3 \in Folder /\ DirOK(D3) /\ Moved(D, D3, n, k)
    BY <1>4, Zenon DEF MovingDir
  <2>3. L \union {n, k} \subseteq L1
    OBVIOUS
  <2> HIDE DEF L1
  <2>5. \E x : Holds(F, D3, o, L1, T \union {{n, k}}, {}, x)
    BY <1>2, <2>1, <2>2, <2>3, TwinHolds
  <2> QED BY <2>5
<1>9. \E x : Holds(F, D3, o, L, T, {}, x)
  <2>1. Filed(D3, o, L)
    <3>1. (\A i \in 0 .. NRootDir - 1 : D3[i] = D[i] \/ D[i].name \in {n, k}) /\ L \subseteq L
      BY <1>4, Zenon DEF MovingDir
    <3> QED BY <1>2, <1>3, <3>1, FiledElse
  <2>2. /\ D3 \in Folder /\ DirOK(D3) /\ Moved(D, D3, n, k) /\ Entry(D3, n).clust = 0 /\ Entry(D3, n).size = 0
        /\ Entry(D3, k).clust = Entry(D, n).clust
    BY <1>4, Zenon DEF MovingDir
  <2> QED BY <1>2, <2>1, <2>2, MovedHolds
<1>10. PICK x2 : Holds(F, D2, o, L1, T1, {}, x2)
  BY <1>7
<1>11. PICK x3 : Holds(F, D3, o, L1, T1, {}, x3)
  BY <1>8
<1>12. PICK x4 : Holds(F, D3, o, L, T, {}, x4)
  BY <1>9
<1> HIDE DEF L1, T1
<1>13. InOrder(c, o, L1, T1, {}, x2) /\ EntrySet(m, c, b, e)
  <2> DEFINE X == {}
  <2>1. Holds(Fat(Seen(m)), [Dir(Seen(m)) EXCEPT ![b] = e], o, L1, T1, X, x2) /\ InOrder(m, o, L, T, X, q)
    BY <1>5, <1>10, Zenon DEF F, D
  <2> HIDE DEF X, c
  <2>2. InOrder(SetEntry(m, b, e), o, L1, T1, X, x2) /\ EntrySet(m, SetEntry(m, b, e), b, e)
    BY <1>4, <1>6, <2>1, InOrderSetEntry
  <2> QED BY <2>2, Zenon DEF X, c
<1> HIDE DEF c
<1>14. Keeps(m, c) /\ Fat(Seen(c)) = F /\ Dir(Seen(c)) = D2
  BY <1>5, <1>13, Zenon DEF EntrySet, F, D
<1>15. Removed(c, r, o, L1, T1, x2, a) /\ (r.res = "FR_OK" => InOrder(r, o, L1, T1, {}, x3))
  <2> DEFINE X == {}
  <2>1. Holds(Fat(Seen(c)), [Dir(Seen(c)) EXCEPT ![a] = Blank(FALSE)], o, L1, T1, X, x3)
    BY <1>5, <1>11, <1>14, Zenon
  <2>2. L1 \subseteq L1
    OBVIOUS
  <2> HIDE DEF X
  <2>3. Removed(c, r, o, L1, T1, x2, a) /\ (r.res = "FR_OK" => InOrder(r, o, L1, T1, X, x3))
    BY <1>13, <2>1, <2>2, RemovedFacts
  <2> QED BY <2>3 DEF X
<1> HIDE DEF r
<1>16. r.fp = m.fp
  BY <1>14, <1>15, Zenon DEF Removed, Keeps
<1>17. CASE r.res # "FR_OK"
  <2>1. InOrder(r, o, L1, T1, {}, x2) /\ r.res = "FR_DISK_ERR"
    BY <1>15, <1>17, Zenon DEF Removed
  <2>2. r.mounted /\ Vol(r, o, L1, T1)
    BY <2>1, InOrderFacts, InOrderVol
  <2> QED BY <1>1, <1>16, <1>17, <2>1, <2>2, Zenon DEF MovedOr, L1, T1
<1>18. CASE r.res = "FR_OK"
  <2>1. Fat(Seen(r)) = F /\ Dir(Seen(r)) = D3
    <3>1. "FR_OK" # "FR_DISK_ERR"
      OBVIOUS
    <3> QED BY <1>5, <1>14, <1>15, <1>18, <3>1, Zenon DEF Removed
  <2>2. Holds(Fat(Seen(r)), Dir(Seen(r)), o, L, T, {}, x4)
    BY <1>12, <2>1, Zenon
  <2>3. InOrder(r, o, L1, T1, {}, x3)
    BY <1>15, <1>18
  <2>4. /\ InOrder(s, o, L1, T1, {}, x3) /\ Keeps(r, s) /\ s.res \in {"FR_OK", "FR_DISK_ERR"}
        /\ s.res = "FR_OK" => InOrder(s, o, L, T, {}, x4)
    BY <2>2, <2>3, SyncedFacts
  <2> HIDE DEF s
  <2>5. s.mounted /\ Vol(s, o, L1, T1) /\ (s.res = "FR_OK" => Vol(s, o, L, T))
    BY <2>4, InOrderFacts, InOrderVol
  <2>6. s.fp = m.fp
    BY <1>16, <2>4, Zenon DEF Keeps
  <2>7. MovedOr(m, s, n, k, o, L, T)
    BY <2>4, <2>5, <2>6, Zenon DEF MovedOr, L1, T1
  <2> QED BY <1>1, <1>18, <2>7, Zenon
<1> QED BY <1>17, <1>18

\* f_rename
Renamed(m, w, n, k, o, L, T) ==
    /\ w.fp = m.fp
    /\ WholeMove(w) => Vol(w, o, L, T)
    /\ ~WholeMove(w) => Vol(w, o, L \union {n, k}, T \union {{n, k}})

\* A rename that fails before it changed nothing.
LEMMA RenamedStill ==
    ASSUME NEW m, NEW w, NEW n \in Name, NEW k \in Name, NEW o, NEW L, NEW T, NEW q, InOrder(w, o, L, T, {}, q), w.fp = m.fp
    PROVE  Renamed(m, w, n, k, o, L, T)
<1> DEFINE L1 == L \union {n, k}
           T1 == T \union {{n, k}}
<1>1. Twinned(T, L)
  <2> DEFINE F == Fat(Seen(w))
             D == Dir(Seen(w))
             X == {}
  <2>1. Holds(F, D, o, L, T, X, q)
    BY InOrderFacts
  <2> HIDE DEF F, D, X
  <2> QED BY <2>1, HoldsParts
<1>2. L \subseteq L1 /\ T \subseteq T1 /\ Twinned(T1, L1)
  BY <1>1 DEF Twinned
<1> HIDE DEF L1, T1
<1>3. InOrder(w, o, L1, T1, {}, q)
  BY <1>2, InOrderTwinMore
<1>4. Vol(w, o, L, T) /\ Vol(w, o, L1, T1)
  BY <1>3, InOrderVol
<1> QED BY <1>4, Zenon DEF Renamed, L1, T1

\* f_rename keeps the invariant, the pair apart when it fails.
LEMMA RenameFacts ==
    ASSUME NEW m, NEW n \in Name, NEW k \in Name, n # k, NEW o, NEW L, NEW T, Vol(m, o, L, T), m.mounted \/ L = {},
           ~o[n].open, ~o[k].open, \A j \in Name : {n, j} \notin T /\ {k, j} \notin T
    PROVE  Renamed(m, f_rename(m, n, k), n, k, o, L, T)
<1> DEFINE v == find_volume(m)
           d == dir_find(v, n)
           x == dir_find(d, k)
           r == dir_register(x, k)
           e == NameOf(EntryAt(d, d.val), k)
           w == f_rename(m, n, k)
<1>1. w = IF v.res # "FR_OK" THEN v ELSE IF d.res # "FR_OK" THEN d
          ELSE IF x.res = "FR_OK" THEN Return(x, "FR_EXIST")
          ELSE IF x.res # "FR_NO_FILE" THEN x
          ELSE IF r.res # "FR_OK" THEN r ELSE MoveEntry(r, d.val, r.val, e)
  BY Zenon DEF f_rename, IfOk, MoveEntry, NameOf
<1>2. /\ v.fp = m.fp
      /\ \/ v.res = "FR_OK" /\ v.mounted /\ \E q : InOrder(v, o, L, T, {}, q)
         \/ v.res = "FR_DISK_ERR" /\ ~v.mounted /\ Vol(v, o, L, T)
  BY FindVolumeFacts
<1>3. v.res # "FR_OK" => ~v.mounted
  BY <1>2, Zenon
<1> HIDE DEF v
<1>4. CASE v.res # "FR_OK"
  <2>1. Renamed(m, v, n, k, o, L, T)
    BY <1>2, <1>3, <1>4, Zenon DEF Renamed, WholeMove
  <2> QED BY <1>1, <1>4, <2>1, Zenon
<1>5. CASE v.res = "FR_OK"
  <2>1. PICK q : InOrder(v, o, L, T, {}, q)
    <3>1. "FR_OK" # "FR_DISK_ERR"
      OBVIOUS
    <3> QED BY <1>2, <1>5, <3>1, Zenon
  <2>2. InOrder(d, o, L, T, {}, q) /\ Keeps(v, d) /\ Scanned(v, d, Dir(Seen(v)), n, "FR_NO_FILE") /\ Seen(d) = Seen(v)
    BY <2>1, InOrderScan, Zenon DEF dir_find
  <2>3. d.fp = m.fp
    BY <1>2, <2>2, Zenon DEF Keeps
  <2> HIDE DEF d
  <2>4. CASE d.res # "FR_OK"
    <3>1. Renamed(m, d, n, k, o, L, T)
      BY <2>2, <2>3, RenamedStill
    <3> QED BY <1>1, <1>5, <2>4, <3>1, Zenon
  <2>5. CASE d.res = "FR_OK"
    <3>1. InOrder(x, o, L, T, {}, q) /\ Keeps(d, x) /\ Scanned(d, x, Dir(Seen(d)), k, "FR_NO_FILE") /\ Seen(x) = Seen(d)
      BY <2>2, InOrderScan, Zenon DEF dir_find
    <3>2. x.fp = m.fp
      BY <2>3, <3>1, Zenon DEF Keeps
    <3>3. x.res \in {"FR_OK", "FR_DISK_ERR", "FR_NO_FILE"}
      BY <3>1, Zenon DEF Scanned
    <3> HIDE DEF x
    <3>4. CASE x.res = "FR_OK"
      <4> DEFINE u == Return(x, "FR_EXIST")
      <4>1. InOrder(u, o, L, T, {}, q) /\ Keeps(x, u)
        BY <3>1, OkResult, InOrderReturn
      <4> HIDE DEF u
      <4>2. u.fp = m.fp
        BY <3>2, <4>1, Zenon DEF Keeps
      <4>3. Renamed(m, u, n, k, o, L, T)
        BY <4>1, <4>2, RenamedStill
      <4> QED BY <1>1, <1>5, <2>5, <3>4, <4>3, Zenon DEF u
    <3>5. CASE x.res # "FR_OK" /\ x.res # "FR_NO_FILE"
      <4>1. Renamed(m, x, n, k, o, L, T)
        BY <3>1, <3>2, RenamedStill
      <4> QED BY <1>1, <1>5, <2>5, <3>5, <4>1, Zenon
    <3>6. CASE x.res = "FR_NO_FILE"
      <4>1. \A j \in 0 .. NRootDir - 1 : Dir(Seen(x))[j].name # k
        <5>1. k # NoName
          BY FatFsAssumption
        <5>2. DirOK(Dir(Seen(d)))
          <6> DEFINE F == Fat(Seen(d))
                     D == Dir(Seen(d))
          <6>1. Holds(F, D, o, L, T, {}, q)
            BY <2>2, InOrderFacts, Zenon
          <6> HIDE DEF D, F
          <6>2. DirOK(D)
            BY <6>1, HoldsParts
          <6> QED BY <6>2 DEF D
        <5> QED BY <3>1, <3>6, <5>1, <5>2, Zenon DEF Scanned
      <4>2. Registered(x, r, o, L, T, {}, q, k)
        <5> DEFINE X == {}
        <5>1. InOrder(x, o, L, T, X, q)
          BY <3>1
        <5> HIDE DEF X
        <5>2. Registered(x, dir_register(x, k), o, L, T, X, q, k)
          BY <4>1, <5>1, RegisterFacts
        <5> QED BY <5>2 DEF X
      <4> HIDE DEF r
      <4>3. InOrder(r, o, L, T, {}, q) /\ r.fp = m.fp
        BY <3>2, <4>2, Zenon DEF Registered, Keeps
      <4>4. CASE r.res # "FR_OK"
        <5>1. Renamed(m, r, n, k, o, L, T)
          BY <4>3, RenamedStill
        <5>2. "FR_OK" # "FR_NO_FILE"
          OBVIOUS
        <5> QED BY <1>1, <1>5, <2>5, <3>6, <4>4, <5>1, <5>2, Zenon
      <4>5. CASE r.res = "FR_OK"
        <5> DEFINE a == d.val
                   b == r.val
                   D == Dir(Seen(d))
                   E == Dir(Seen(r))
        <5>1. /\ b \in 0 .. NRootDir - 1 /\ Shows(r, DirSect(b)) /\ D[b].name = NoName
              /\ E = [D EXCEPT ![b] = BlankOf(k)]
          <6>1. "FR_OK" \notin {"FR_DISK_ERR", "FR_DENIED", "FR_NO_FILE"}
            OBVIOUS
          <6> QED BY <3>1, <4>2, <4>5, <6>1, Zenon DEF Registered
        <5>2. a \in 0 .. NRootDir - 1 /\ D[a].name = n /\ EntryAt(d, a) = D[a] /\ D \in Folder
          <6>1. a \in 0 .. NRootDir - 1 /\ Shows(d, DirSect(a)) /\ D[a].name = n
            BY <2>2, <2>5, Zenon DEF Scanned
          <6>2. Sound(d) /\ D \in Folder
            BY <2>2, InOrderFacts
          <6> HIDE DEF a
          <6> QED BY <6>1, <6>2, ShownEntry
        <5> HIDE DEF a, b
        <5>3. a # b
          BY <5>1, <5>2, FatFsAssumption
        <5>4. E[a] = D[a] /\ E[b] = BlankOf(k)
          BY <5>1, <5>2, <5>3 DEF Folder
        <5>5. e = NameOf(E[a], k) /\ E[a].name = n
          BY <5>2, <5>4, Zenon DEF a
        <5> HIDE DEF e
        <5>6. MovedOr(r, MoveEntry(r, a, b, e), n, k, o, L, T)
          <6>1. Dir(Seen(r))[a].name = n /\ Dir(Seen(r))[b] = BlankOf(k) /\ e = NameOf(Dir(Seen(r))[a], k)
            BY <5>4, <5>5, Zenon
          <6> QED BY <4>3, <5>1, <5>2, <6>1, MoveEntryFacts
        <5> DEFINE u == MoveEntry(r, a, b, e)
        <5>7. w = u
          <6>1. "FR_OK" # "FR_NO_FILE"
            OBVIOUS
          <6> QED BY <1>1, <1>5, <2>5, <3>6, <4>5, <6>1, Zenon DEF a, b
        <5> HIDE DEF u
        <5>8. "FR_DISK_ERR" \notin {"FR_OK", "FR_NO_FILE", "FR_EXIST", "FR_DENIED"}
          OBVIOUS
        <5>9. MovedOr(r, u, n, k, o, L, T)
          BY <5>6 DEF u
        <5>10. Renamed(m, u, n, k, o, L, T)
          BY <4>3, <5>8, <5>9, Zenon DEF Renamed, MovedOr, WholeMove
        <5> QED BY <5>7, <5>10, Zenon
      <4> QED BY <4>4, <4>5
    <3> QED BY <3>3, <3>4, <3>5, <3>6
  <2> QED BY <2>4, <2>5
<1> QED BY <1>4, <1>5

-------------------------------------------------------------------------------
(* f_getfree *)

\* move_window keeps InOrder.
LEMMA InOrderMove ==
    ASSUME NEW m, NEW o, NEW L, NEW T, NEW X, NEW q, InOrder(m, o, L, T, X, q), NEW sect \in 0 .. database - 1
    PROVE  LET w == move_window(m, sect) IN InOrder(w, o, L, T, X, q) /\ Keeps(m, w)
<1> DEFINE w == move_window(m, sect)
<1>1. Sound(m)
  BY InOrderFacts, Zenon
<1>2. Passes(m, w)
  BY <1>1, MoveWindowFacts
<1> HIDE DEF w
<1>3. InOrder(w, o, L, T, X, q)
  BY <1>2, InOrderPasses
<1>4. Keeps(m, w)
  BY <1>1, <1>2, PassesKeeps
<1> QED BY <1>3, <1>4, Zenon DEF w

\* A round of the scan for free clusters changes the count and nothing else
LEMMA CountEntryFacts ==
    ASSUME NEW m, NEW o, NEW L, NEW T, NEW q, InOrder(m, o, L, T, {}, q), NEW c \in 0 .. n_fatent - 1
    PROVE  LET w == CountEntry(m, c) IN InOrder(w, o, L, T, {}, q) /\ Keeps(m, w)
<1> DEFINE w == CountEntry(m, c)
           v == move_window(m, FatSect(c))
           u == Counted(v, v.free_clust + 1, v.last_clust, v.val, v.res)
<1>1. FatSect(c) \in 0 .. database - 1
  BY LayoutFacts
<1>2. InOrder(v, o, L, T, {}, q) /\ Keeps(m, v)
  BY <1>1, InOrderMove
<1>3. InOrder(m, o, L, T, {}, q) /\ Keeps(m, m)
  BY KeepsRefl
<1>4. v \in Machines
  BY <1>2, InOrderFacts, Zenon
<1>5. w \in {m, v, [v EXCEPT !.free_clust = @ + 1]}
  BY Zenon DEF CountEntry, IfOk
<1> HIDE DEF v, w
<1>6. [v EXCEPT !.free_clust = @ + 1] = u
  BY <1>4 DEF Machines, Counted
<1>7. InOrder(u, o, L, T, {}, q) /\ Keeps(v, u)
  <2>1. v.free_clust + 1 \in Int /\ v.last_clust \in Int /\ v.val \in Int /\ v.res \in Result
    BY <1>4 DEF Machines
  <2> HIDE DEF u
  <2>2. LET y == Counted(v, v.free_clust + 1, v.last_clust, v.val, v.res) IN InOrder(y, o, L, T, {}, q) /\ Keeps(v, y)
    BY <1>2, <2>1, InOrderCount
  <2> QED BY <2>2, Zenon DEF u
<1> HIDE DEF u
<1>8. Keeps(m, u)
  BY <1>2, <1>7, KeepsTrans
<1> QED BY <1>2, <1>3, <1>5, <1>6, <1>7, <1>8, Zenon DEF w

\* f_getfree reads every FAT entry and changes nothing.
LEMMA ScanFreeFacts ==
    ASSUME NEW m, NEW o, NEW L, NEW T, NEW q, InOrder(m, o, L, T, {}, q)
    PROVE  LET w == ScanFree(m) IN InOrder(w, o, L, T, {}, q) /\ Keeps(m, w)
<1> DEFINE n == n_fatent
           h == [m EXCEPT !.free_clust = 0, !.res = "FR_OK"]
           J == {w \in Machines : InOrder(w, o, L, T, {}, q) /\ Keeps(m, w)}
           S == [k \in 0 .. n |-> J]
           count == Loop(h, n, LAMBDA w, k : CountEntry(w, k - 1))
<1>1. n \in Nat
  BY LayoutFacts
<1>2. m \in Machines
  BY InOrderFacts, Zenon
<1>3. h \in J
  <2> DEFINE e == Counted(m, 0, m.last_clust, m.val, "FR_OK")
  <2>1. h = e
    BY <1>2 DEF Machines, Counted
  <2>2. 0 \in Int /\ m.last_clust \in Int /\ m.val \in Int /\ "FR_OK" \in Result
    BY <1>2, OkResult DEF Machines
  <2> HIDE DEF h
  <2>3. InOrder(e, o, L, T, {}, q) /\ Keeps(m, e)
    BY <2>2, InOrderCount
  <2> HIDE DEF e
  <2>4. e \in Machines
    BY <2>3, InOrderFacts, Zenon
  <2> QED BY <2>1, <2>3, <2>4
<1>4. \A k \in 1 .. n : \A w \in J : CountEntry(w, k - 1) \in J
  <2> TAKE k \in 1 .. n
  <2> TAKE w \in J
  <2> DEFINE u == CountEntry(w, k - 1)
  <2>1. InOrder(w, o, L, T, {}, q) /\ Keeps(m, w)
    OBVIOUS
  <2>2. k - 1 \in 0 .. n_fatent - 1
    BY <1>1
  <2>3. InOrder(u, o, L, T, {}, q) /\ Keeps(w, u)
    BY <2>1, <2>2, CountEntryFacts
  <2> HIDE DEF u
  <2>4. Keeps(m, u) /\ u \in Machines
    BY <2>1, <2>3, KeepsTrans, InOrderFacts
  <2>5. u \in J
    BY <2>3, <2>4
  <2> QED BY <2>5, Zenon DEF u
<1>5. \A k \in 0 .. n : S[k] = J
  OBVIOUS
<1>6. J \subseteq Machines
  OBVIOUS
<1>7. ScanFree(m) = Value(count, count.free_clust)
  BY Zenon DEF ScanFree
<1> HIDE DEF S, n, J, h
<1>8. h \in S[0]
  <2>1. 0 \in 0 .. n
    BY <1>1
  <2> QED BY <2>1, <1>3, <1>5, Zenon
<1>9. \A k \in 1 .. n : \A w \in S[k - 1] : CountEntry(w, k - 1) \in S[k]
  <2>1. \A k \in 1 .. n : S[k - 1] = J /\ S[k] = J
    BY <1>1, <1>5
  <2> QED BY <1>4, <2>1, Zenon
<1>10. \A k \in 0 .. n : S[k] \subseteq Machines
  BY <1>5, <1>6
<1> DEFINE g == [p \in Machines \X (1 .. n) |-> CountEntry(p[1], p[2] - 1)]
<1>11. \A k \in 1 .. n : \A w \in Machines : g[<<w, k>>] = CountEntry(w, k - 1)
  OBVIOUS
<1> HIDE DEF g
<1>12. \E r : RunOf(n, S, h, g, r)
  <2>1. Steady(n, S, g)
    <3>1. \A k \in 1 .. n : \A w \in S[k - 1] : w \in Machines
      BY <1>1, <1>10
    <3> QED BY <3>1, <1>9, <1>11, Zenon DEF Steady
  <2> QED BY <1>1, <1>8, <2>1, RunExists
<1> DEFINE R == CHOOSE R : R = [k \in 0 .. n |-> IF k = 0 THEN h ELSE CountEntry(R[k - 1], k - 1)]
<1>13. R = [k \in 0 .. n |-> IF k = 0 THEN h ELSE CountEntry(R[k - 1], k - 1)]
  <2>1. PICK r : RunOf(n, S, h, g, r)
    BY <1>12, Zenon
  <2>2. \A k \in 0 .. n : k # 0 => g[<<r[k - 1], k>>] = CountEntry(r[k - 1], k - 1)
    <3> TAKE k \in 0 .. n
    <3>1. k # 0 => k \in 1 .. n /\ k - 1 \in 0 .. n
      BY <1>1
    <3> QED BY <2>1, <3>1, <1>10, <1>11, Zenon DEF RunOf
  <2>3. r = [k \in 0 .. n |-> IF k = 0 THEN h ELSE CountEntry(r[k - 1], k - 1)]
    <3> DEFINE a == [k \in 0 .. n |-> IF k = 0 THEN h ELSE g[<<r[k - 1], k>>]]
               b == [k \in 0 .. n |-> IF k = 0 THEN h ELSE CountEntry(r[k - 1], k - 1)]
    <3>1. \A k \in 0 .. n : a[k] = b[k]
      BY <2>2
    <3>2. a = b
      BY <3>1
    <3>3. r = a
      BY <2>1, Zenon DEF RunOf
    <3> QED BY <3>2, <3>3, Zenon
  <2> QED BY <2>3, Zenon
<1>14. count = R[n]
  BY Zenon DEF count, Loop
<1> HIDE DEF R
<1>15. \A k \in 0 .. n : R[k] \in S[k]
  <2>1. R[0] = h /\ \A k \in 1 .. n : R[k] = CountEntry(R[k - 1], k - 1)
    BY <1>1, <1>13
  <2>2. R[0] \in S[0]
    BY <2>1, <1>8
  <2>3. \A k \in 1 .. n : R[k - 1] \in S[k - 1] => R[k] \in S[k]
    BY <2>1, <1>9, Zenon
  <2> QED BY <1>1, <2>2, <2>3, RunInduct
<1>16. count \in S[n]
  <2>1. n \in 0 .. n
    BY <1>1
  <2> QED BY <1>14, <1>15, <2>1, Zenon
<1>17. count \in J
  <2>1. n \in 0 .. n
    BY <1>1
  <2> QED BY <2>1, <1>5, <1>16, Zenon
<1> HIDE DEF count
<1>18. InOrder(count, o, L, T, {}, q) /\ Keeps(m, count) /\ count \in Machines
  BY <1>17 DEF J
<1>19. count.free_clust \in Int
  BY <1>18 DEF Machines
<1> DEFINE w == Value(count, count.free_clust)
<1>20. InOrder(w, o, L, T, {}, q) /\ Keeps(count, w)
  BY <1>18, <1>19, InOrderValue
<1> HIDE DEF w
<1>21. Keeps(m, w)
  BY <1>18, <1>20, KeepsTrans
<1> QED BY <1>7, <1>20, <1>21, Zenon DEF w

\* f_getfree keeps the volume in order
LEMMA GetFreeFacts ==
    ASSUME NEW m, NEW o, NEW L, NEW T, Vol(m, o, L, T), m.mounted \/ L = {}
    PROVE  LET w == f_getfree(m) IN w.fp = m.fp /\ Vol(w, o, L, T)
<1> DEFINE v == find_volume(m)
           x == Value(v, v.free_clust)
           y == ScanFree(v)
<1>1. /\ v.fp = m.fp
      /\ \/ v.res = "FR_OK" /\ v.mounted /\ \E q : InOrder(v, o, L, T, {}, q)
         \/ v.res = "FR_DISK_ERR" /\ ~v.mounted /\ Vol(v, o, L, T)
  BY FindVolumeFacts
<1>2. f_getfree(m) \in {v, x, y} /\ (v.res # "FR_OK" => f_getfree(m) = v)
  BY Zenon DEF f_getfree, IfOk
<1> HIDE DEF v
<1>3. CASE v.res # "FR_OK"
  BY <1>1, <1>2, <1>3, Zenon
<1>4. CASE v.res = "FR_OK"
  <2>1. PICK q : InOrder(v, o, L, T, {}, q)
    <3>1. "FR_OK" # "FR_DISK_ERR"
      OBVIOUS
    <3> QED BY <1>1, <1>4, <3>1, Zenon
  <2>2. v \in Machines
    BY <2>1, InOrderFacts, Zenon
  <2>3. v.free_clust \in Int
    BY <2>2 DEF Machines
  <2>4. InOrder(x, o, L, T, {}, q) /\ Keeps(v, x)
    BY <2>1, <2>3, InOrderValue
  <2>5. InOrder(y, o, L, T, {}, q) /\ Keeps(v, y)
    BY <2>1, ScanFreeFacts
  <2> HIDE DEF x, y
  <2>6. Vol(v, o, L, T) /\ Vol(x, o, L, T) /\ Vol(y, o, L, T)
    BY <2>1, <2>4, <2>5, InOrderVol
  <2> QED BY <1>1, <1>2, <2>4, <2>5, <2>6, Zenon DEF Keeps
<1> QED BY <1>3, <1>4

-------------------------------------------------------------------------------
(* The module's variables: a call takes fs, disk and fil into a machine and puts them
   back when it ends *)

\* The file system object
Object == [mounted : BOOLEAN, win : AnySector \union {<<>>}, winsect : Int, wflag : BOOLEAN,
           last_clust : Int, free_clust : Int]

\* The inductive invariant: whatever is in the variables, a call that starts now
\* finds the volume in order under some certificate. A pair of twins is known to both
\* its names, and a file open without error does not stand behind its size.
Coherent ==
    /\ disk \in Medium /\ fs \in Object /\ fil \in [Name -> File]
    /\ Vol(Machine(fs, disk, NoFile, Healthy), fil, loose, twins)
    /\ \A t \in twins : \E n, k \in dropped : n \in Name /\ k \in Name /\ t = {n, k}
    /\ \A n \in Name : fil[n].open /\ fil[n].err = "FR_OK" => fil[n].fptr <= fil[n].fsize
    /\ content = View(disk, fs, fil, dropped)
    /\ calls \in Nat

\* The order of a volume depends on window and medium alone.
LEMMA SameVol ==
    ASSUME NEW m, NEW w, NEW o, NEW L, NEW T, Vol(m, o, L, T),
           w \in Machines, w.disk = m.disk, w.win = m.win, w.winsect = m.winsect, w.wflag = m.wflag,
           w.mounted = m.mounted
    PROVE  Vol(w, o, L, T)
<1>1. CASE m.mounted
  <2> DEFINE X == {}
  <2>1. PICK q : InOrder(m, o, L, T, X, q)
    BY <1>1, Zenon DEF Vol
  <2> HIDE DEF X
  <2>2. InOrder(w, o, L, T, X, q)
    BY <2>1, InOrderSame
  <2> QED BY <1>1, <2>2, Zenon DEF Vol, X
<1>2. CASE ~m.mounted
  <2>1. Sound(w)
    <3>1. Windowed(m)
      BY <1>2, Zenon DEF Vol, Sound
    <3>2. Windowed(w)
      BY <3>1, SameSeen
    <3> QED BY <3>2, Zenon DEF Sound
  <2> QED BY <1>2, <2>1, Zenon DEF Vol
<1> QED BY <1>1, <1>2

\* What a machine takes from the variables.
MachineOf(w, v, medium, p) ==
    /\ w \in Machines
    /\ w.disk = medium /\ w.win = v.win /\ w.winsect = v.winsect /\ w.wflag = v.wflag
    /\ w.mounted = v.mounted /\ w.fp = p

\* Machine does so.
LEMMA MachineType ==
    ASSUME NEW v \in Object, NEW medium \in Medium, NEW p \in File, NEW z, z.fuse \in Nat, z.fault \in FaultKind
    PROVE  MachineOf(Machine(v, medium, p, z), v, medium, p)
<1> DEFINE w == Machine(v, medium, p, z)
<1>1. /\ w.disk = medium /\ w.win = v.win /\ w.winsect = v.winsect /\ w.wflag = v.wflag
      /\ w.mounted = v.mounted /\ w.fp = p
  BY Zenon DEF Machine
<1>2. "FR_OK" \in Result /\ 0 \in Int /\ <<>> \in Seq(Nat) /\ FALSE \in BOOLEAN
  BY OkResult
<1>3. /\ v.mounted \in BOOLEAN /\ v.win \in AnySector \union {<<>>} /\ v.winsect \in Int /\ v.wflag \in BOOLEAN
      /\ v.last_clust \in Int /\ v.free_clust \in Int
  BY Zenon DEF Object
<1>4. w \in Machines
  BY <1>2, <1>3, Zenon DEF Machine, Machines
<1> QED BY <1>1, <1>4, Zenon DEF MachineOf

\* FileSystem puts the volume object back.
LEMMA ObjectOf ==
    ASSUME NEW m \in Machines
    PROVE  LET v == FileSystem(m) IN
           /\ v \in Object /\ v.win = m.win /\ v.winsect = m.winsect /\ v.wflag = m.wflag /\ v.mounted = m.mounted
<1> DEFINE v == FileSystem(m)
<1>1. /\ m.mounted \in BOOLEAN /\ m.win \in AnySector \union {<<>>} /\ m.winsect \in Int /\ m.wflag \in BOOLEAN
      /\ m.last_clust \in Int /\ m.free_clust \in Int
  BY Zenon DEF Machines
<1>2. v \in Object
  BY <1>1, Zenon DEF FileSystem, Object
<1> QED BY <1>2, Zenon DEF FileSystem

\* A medium that works.
LEMMA HealthyFacts == Healthy.fuse \in Nat /\ Healthy.fault \in FaultKind
BY DEF Healthy, FaultKind

\* The media the module lets a call meet.
LEMMA MediaFacts ==
    ASSUME NEW z \in Media
    PROVE  z.fuse \in Nat /\ z.fault \in FaultKind
<1>1. z = Healthy \/ z \in [fuse : 1 .. MaxAccess, fault : Fault]
  BY Zenon DEF Media
<1>2. CASE z \in [fuse : 1 .. MaxAccess, fault : Fault]
  <2>1. z.fuse \in 1 .. MaxAccess /\ z.fault \in Fault
    BY <1>2
  <2>2. MaxAccess \in Nat /\ Fault \subseteq {"error", "late", "power"}
    BY VolumeAssumption, Zenon
  <2>3. z.fault \in {"error", "late", "power"}
    BY <2>1, <2>2, Zenon
  <2>4. z.fault \in FaultKind
    BY <2>3 DEF FaultKind
  <2>5. z.fuse \in Nat
    BY <2>1, <2>2
  <2> QED BY <2>4, <2>5
<1> QED BY <1>1, <1>2, HealthyFacts

\* A file that has no part in a failed f_rename shares its clusters with none
LEMMA Untwinned ==
    ASSUME Coherent, NEW n \in Name, n \notin dropped
    PROVE  \A k \in Name : {n, k} \notin twins
<1> SUFFICES ASSUME NEW k \in Name, {n, k} \in twins PROVE FALSE
  OBVIOUS
<1>1. PICK a, b \in dropped : {n, k} = {a, b}
  BY Zenon DEF Coherent
<1>2. n \in {a, b}
  BY <1>1
<1> QED BY <1>1, <1>2

\* A closed FIL has no fields left.
LEMMA ClosedFile ==
    ASSUME NEW p \in File, ~p.open
    PROVE  p = NoFile
<1>1. p \notin OpenFile
  <2> SUFFICES ASSUME p \in OpenFile PROVE FALSE
    OBVIOUS
  <2> QED BY OpenFacts, Zenon
<1> QED BY <1>1 DEF File

\* The call begins: on a volume in order
LEMMA Begins ==
    ASSUME Coherent, NEW p \in File, NEW z \in Media
    PROVE  LET m == Machine(fs, disk, p, z) IN
           Vol(m, fil, loose, twins) /\ m.fp = p /\ m.mounted = fs.mounted
<1> DEFINE m == Machine(fs, disk, p, z)
           e == Machine(fs, disk, NoFile, Healthy)
<1>1. disk \in Medium /\ fs \in Object /\ Vol(e, fil, loose, twins)
  BY DEF Coherent
<1>2. MachineOf(m, fs, disk, p) /\ MachineOf(e, fs, disk, NoFile)
  BY <1>1, MachineType, MediaFacts, HealthyFacts, NoFileFacts
<1> HIDE DEF m, e
<1>3. Vol(m, fil, loose, twins)
  BY <1>1, <1>2, SameVol DEF MachineOf
<1> QED BY <1>2, <1>3, Zenon DEF MachineOf, m

\* A call on an open file starts with the file in hand.
LEMMA HandIn ==
    ASSUME Coherent, NEW n \in Name, Usable(n), NEW z \in Media
    PROVE  LET m == Machine(fs, disk, fil[n], z) IN
           m.fp = fil[n] /\ \E q : Kept(m, m, n, fil, loose, twins, q)
<1> DEFINE p == fil[n]
           m == Machine(fs, disk, p, z)
<1>1. fil \in [Name -> File] /\ p \in File /\ p.open /\ (p.err = "FR_OK" => p.fptr <= p.fsize)
  BY DEF Coherent, Usable
<1>2. \A k \in Name : {n, k} \notin twins
  BY Untwinned DEF Usable
<1>3. Vol(m, fil, loose, twins) /\ m.fp = p /\ m.mounted = fs.mounted
  BY <1>1, Begins
<1> HIDE DEF m
<1>4. PICK q : InOrder(m, fil, loose, twins, {}, q)
  BY <1>1, <1>3, Zenon DEF Vol
<1>5. Hand(m, n, fil, loose, twins, q)
  BY <1>1, <1>2, <1>3, <1>4, HandStart
<1>6. PosOK(q, n, p) /\ BufOK(p)
  <2> DEFINE F == Fat(Seen(m))
             D == Dir(Seen(m))
             X == {}
  <2>1. Holds(F, D, fil, loose, twins, X, q)
    BY <1>4, InOrderFacts
  <2> HIDE DEF F, D, X
  <2>2. Filed(D, fil, loose) /\ \A k \in Name : PosOK(q, k, fil[k])
    BY <2>1, HoldsParts
  <2> QED BY <1>1, <2>2, Zenon DEF Filed, FiledAt
<1>7. p.err = "FR_OK" => Placed(q, n, p) /\ BufOK(p) /\ p.fptr <= p.fsize
  BY <1>1, <1>6, Zenon DEF PosOK, Placed
<1>8. Kept(m, m, n, fil, loose, twins, q)
  BY <1>3, <1>5, <1>7, Zenon DEF Kept
<1> QED BY <1>3, <1>8, Zenon DEF m

\* A call on an open file ends with the volume in order.
LEMMA HandOut ==
    ASSUME NEW m, NEW w, NEW n, NEW o, NEW L, NEW T, NEW q, Kept(m, w, n, o, L, T, q)
    PROVE  /\ Vol(w, [o EXCEPT ![n] = w.fp], L, T) /\ w \in Machines /\ w.fp \in File
           /\ w.fp.err = "FR_OK" => w.fp.fptr <= w.fp.fsize
<1>1. Hand(w, n, o, L, T, q) /\ (w.fp.err = "FR_OK" => Placed(q, n, w.fp) /\ BufOK(w.fp) /\ w.fp.fptr <= w.fp.fsize)
  BY Zenon DEF Kept
<1>2. w \in Machines /\ w.fp \in OpenFile /\ (w.fp.dirty => w.fp.dsect >= database)
  BY <1>1, HandPlain
<1>3. PosOK(q, n, w.fp) /\ BufOK(w.fp)
  BY <1>1, <1>2, Zenon DEF PosOK, Placed, BufOK
<1> DEFINE u == [o EXCEPT ![n] = w.fp]
           X == {}
<1>4. InOrder(w, u, L, T, X, q)
  BY <1>1, <1>3, HandEnd
<1> HIDE DEF u, X
<1>5. Vol(w, u, L, T)
  BY <1>4, InOrderVol
<1> QED BY <1>1, <1>2, <1>5, OpenFacts DEF u

\* Every pair of names is that of an f_rename that failed
Marked(T, X) == \A t \in T : \E a, b \in X : a \in Name /\ b \in Name /\ t = {a, b}

\* No loose names, no twins.
LEMMA TwinsLoose ==
    ASSUME NEW T, NEW L, NEW X, Marked(T, X), Twinned(T, L), L = {}
    PROVE  T = {}
<1> SUFFICES ASSUME NEW t \in T PROVE FALSE
  OBVIOUS
<1>1. PICK a, b \in X : a \in Name /\ b \in Name /\ t = {a, b}
  BY Zenon DEF Marked
<1>2. {a, b} \in T
  BY <1>1
<1>3. a \in L
  BY <1>1, <1>2, Zenon DEF Twinned
<1> QED BY <1>3

\* The volume object after a power cut.
LEMMA UnmountedFacts == /\ Unmounted \in Object /\ Unmounted.winsect = Unknown
                        /\ ~Unmounted.wflag /\ ~Unmounted.mounted
<1>1. Unknown \in Int
  BY DEF Unknown
<1>2. /\ Unmounted.winsect = Unknown /\ ~Unmounted.wflag /\ ~Unmounted.mounted
  BY Zenon DEF Unmounted
<1>3. FALSE \in BOOLEAN
  OBVIOUS
<1>4. Unmounted \in Object
  BY <1>1, <1>3, Zenon DEF Unmounted, Object
<1> QED BY <1>2, <1>4

\* After a power cut the volume is that of the medium
LEMMA PowerCut ==
    ASSUME NEW m \in Machines, NEW o, NEW L, NEW T, NEW X, Vol(m, o, L, T), Marked(T, X)
    PROVE  Vol(Machine(Unmounted, m.disk, NoFile, Healthy), [k \in Name |-> NoFile], L, T)
<1> DEFINE w == Machine(Unmounted, m.disk, NoFile, Healthy)
           u == [k \in Name |-> NoFile]
           Y == {}
<1>1. m.disk \in Medium
  BY Zenon DEF Machines
<1>2. MachineOf(w, Unmounted, m.disk, NoFile)
  BY <1>1, UnmountedFacts, HealthyFacts, NoFileFacts, MachineType
<1> HIDE DEF w
<1>3. /\ w \in Machines /\ w.winsect = Unknown /\ ~w.wflag /\ ~w.mounted /\ w.disk = m.disk
  BY <1>2, UnmountedFacts, Zenon DEF MachineOf
<1>4. Sound(w)
  <2>1. w.winsect \in 0 .. database - 1 \union {Unknown}
    BY <1>3
  <2> QED BY <1>3, <2>1, Zenon DEF Sound, Windowed
<1>5. Fine(m.disk, L) /\ Twinned(T, L)
  <2>1. CASE m.mounted
    <3>1. \E q : InOrder(m, o, L, T, Y, q)
      BY <2>1, Zenon DEF Vol
    <3> HIDE DEF Y
    <3>2. PICK q : InOrder(m, o, L, T, Y, q)
      BY <3>1
    <3> DEFINE F == Fat(Seen(m))
               D == Dir(Seen(m))
    <3>3. Fine(m.disk, L) /\ Holds(F, D, o, L, T, Y, q)
      BY <3>2, Zenon DEF InOrder
    <3> HIDE DEF F, D
    <3>4. Twinned(T, L)
      BY <3>3, Zenon DEF Holds
    <3> QED BY <3>3, <3>4
  <2>2. CASE ~m.mounted
    BY <2>2, Zenon DEF Vol
  <2> QED BY <2>1, <2>2
<1>6. L = {} => T = {}
  BY <1>5, TwinsLoose
<1>7. u \in [Name -> File] /\ \A n \in Name : ~u[n].open
  BY NoFileFacts
<1> HIDE DEF u
<1>8. Vol(w, u, L, T)
  BY <1>3, <1>4, <1>5, <1>6, <1>7, Zenon DEF Vol
<1> QED BY <1>8 DEF w, u

\* What a call leaves undone: the names it marks
LEMMA DoneMarks ==
    ASSUME Coherent, NEW n \in Name, NEW z, NEW m, NEW call, Done(n, z, m, call),
           call.op = "rename" => call.to \in Name
    PROVE  Marked(twins', dropped')
<1> DEFINE pair == IF call.op = "rename" /\ ~WholeMove(m) THEN {n, call.to} ELSE {}
           cuts == call.op = "truncate" /\ m.fp.fsize # fil[n].fsize
<1>1. /\ dropped' = IF cuts /\ m.res # "FR_OK" THEN dropped \union {n} ELSE dropped \union pair
      /\ twins' = IF pair = {} THEN twins ELSE twins \union {pair}
  BY Zenon DEF Done
<1>2. Marked(twins, dropped)
  BY Zenon DEF Coherent, Marked
<1>3. CASE call.op = "rename" /\ ~WholeMove(m)
  <2>1. pair = {n, call.to} /\ pair # {}
    BY <1>3
  <2>2. ~cuts
    BY <1>3
  <2> HIDE DEF pair, cuts
  <2>3. dropped' = dropped \union {n, call.to} /\ twins' = twins \union {{n, call.to}}
    BY <1>1, <2>1, <2>2
  <2> SUFFICES ASSUME NEW t \in twins' PROVE \E a, b \in dropped' : a \in Name /\ b \in Name /\ t = {a, b}
    BY Zenon DEF Marked
  <2>4. CASE t \in twins
    BY <2>3, <2>4, <1>2, Zenon DEF Marked
  <2>5. CASE t = {n, call.to}
    BY <2>3, <2>5, <1>3
  <2> QED BY <2>3, <2>4, <2>5
<1>4. CASE ~(call.op = "rename" /\ ~WholeMove(m))
  <2>1. pair = {}
    BY <1>4
  <2> HIDE DEF pair, cuts
  <2>2. twins' = twins /\ dropped \subseteq dropped'
    BY <1>1, <2>1
  <2> QED BY <1>2, <2>2, Zenon DEF Marked
<1> QED BY <1>3, <1>4

\* The end of a call, power cuts included, keeps Coherent.
LEMMA DoneKeeps ==
    ASSUME Coherent, NEW n \in Name, NEW z, NEW m \in Machines, NEW call, Done(n, z, m, call),
           call.op = "rename" => call.to \in Name,
           m.fp \in File, m.fp.open /\ m.fp.err = "FR_OK" => m.fp.fptr <= m.fp.fsize,
           Vol(m, [fil EXCEPT ![n] = m.fp], loose', twins')
    PROVE  Coherent'
<1>1. Marked(twins', dropped')
  BY DoneMarks
<1>2. /\ disk' = m.disk
      /\ fs' = IF m.off THEN Unmounted ELSE FileSystem(m)
      /\ fil' = IF m.off THEN [k \in Name |-> NoFile] ELSE [fil EXCEPT ![n] = m.fp]
      /\ content' = View(disk', fs', fil', dropped')
      /\ calls' = calls + 1
  BY Zenon DEF Done
<1>3. m.disk \in Medium
  BY Zenon DEF Machines
<1>4. calls' \in Nat
  <2>1. calls \in Nat
    BY Zenon DEF Coherent
  <2> QED BY <1>2, <2>1
<1>5. fil \in [Name -> File] /\ \A k \in Name : fil[k].open /\ fil[k].err = "FR_OK" => fil[k].fptr <= fil[k].fsize
  BY Zenon DEF Coherent
<1>6. /\ fs' \in Object /\ fil' \in [Name -> File]
      /\ \A k \in Name : fil'[k].open /\ fil'[k].err = "FR_OK" => fil'[k].fptr <= fil'[k].fsize
      /\ Vol(Machine(fs', disk', NoFile, Healthy), fil', loose', twins')
  <2>1. CASE m.off
    <3> DEFINE u == [k \in Name |-> NoFile]
    <3>1. fs' = Unmounted /\ fil' = u
      BY <1>2, <2>1, Zenon
    <3>2. Vol(Machine(Unmounted, m.disk, NoFile, Healthy), u, loose', twins')
      BY <1>1, PowerCut
    <3>3. u \in [Name -> File] /\ \A k \in Name : u[k] = NoFile
      BY NoFileFacts
    <3> HIDE DEF u
    <3>4. \A k \in Name : ~fil'[k].open
      BY <3>1, <3>3, NoFileFacts
    <3> QED BY <3>1, <3>2, <3>3, <3>4, <1>2, UnmountedFacts
  <2>2. CASE ~m.off
    <3> DEFINE u == [fil EXCEPT ![n] = m.fp]
               v == FileSystem(m)
               w == Machine(v, m.disk, NoFile, Healthy)
    <3>1. fs' = v /\ fil' = u
      BY <1>2, <2>2, Zenon
    <3>2. v \in Object /\ v.win = m.win /\ v.winsect = m.winsect /\ v.wflag = m.wflag /\ v.mounted = m.mounted
      BY ObjectOf
    <3> HIDE DEF v
    <3>3. MachineOf(w, v, m.disk, NoFile)
      BY <1>3, <3>2, MachineType, HealthyFacts, NoFileFacts
    <3> HIDE DEF w
    <3>4. /\ w \in Machines /\ w.disk = m.disk /\ w.win = m.win /\ w.winsect = m.winsect
          /\ w.wflag = m.wflag /\ w.mounted = m.mounted
      BY <3>2, <3>3, Zenon DEF MachineOf
    <3>5. u \in [Name -> File] /\ \A k \in Name : u[k] = IF k = n THEN m.fp ELSE fil[k]
      BY <1>5
    <3>6. Vol(m, u, loose', twins')
      OBVIOUS
    <3> HIDE DEF u
    <3>7. Vol(w, u, loose', twins')
      BY <3>4, <3>6, SameVol
    <3>8. \A k \in Name : u[k].open /\ u[k].err = "FR_OK" => u[k].fptr <= u[k].fsize
      BY <1>5, <3>5
    <3>9. Machine(fs', disk', NoFile, Healthy) = w
      BY <3>1, <1>2, Zenon DEF w
    <3> QED BY <3>1, <3>2, <3>5, <3>7, <3>8, <3>9
  <2> QED BY <2>1, <2>2
<1> QED BY <1>1, <1>2, <1>3, <1>4, <1>6, Zenon DEF Coherent, Marked

\* A volume's machine is one.
LEMMA VolMachine ==
    ASSUME NEW m, NEW o, NEW L, NEW T, Vol(m, o, L, T)
    PROVE  m \in Machines /\ o \in [Name -> File]
<1>1. CASE m.mounted
  <2> DEFINE X == {}
  <2>1. \E q : InOrder(m, o, L, T, X, q)
    BY <1>1, Zenon DEF Vol
  <2> HIDE DEF X
  <2>2. PICK q : InOrder(m, o, L, T, X, q)
    BY <2>1
  <2> DEFINE F == Fat(Seen(m))
             D == Dir(Seen(m))
  <2>3. Sound(m) /\ Holds(F, D, o, L, T, X, q)
    BY <2>2, Zenon DEF InOrder
  <2> HIDE DEF F, D
  <2> QED BY <2>3, Zenon DEF Sound, Holds
<1>2. CASE ~m.mounted
  BY <1>2, Zenon DEF Vol, Sound
<1> QED BY <1>1, <1>2

\* The calls that neither cut, settle nor rename
LEMMA DonePlain ==
    ASSUME NEW n, NEW z, NEW m, NEW call, Done(n, z, m, call),
           call.op \in {"open", "read", "write", "seek", "getfree"}
    PROVE  loose' = loose /\ twins' = twins /\ call.op # "rename"
<1>1. call.op # "truncate" /\ call.op # "rename" /\ call.op \notin {"sync", "close"} /\ call.op # "unlink"
  OBVIOUS
<1> DEFINE cuts == call.op = "truncate" /\ m.fp.fsize # fil[n].fsize
           pair == IF call.op = "rename" /\ ~WholeMove(m) THEN {n, call.to} ELSE {}
           flushes == call.op \in {"sync", "close"} /\ fil[n].written
           settles == m.res = "FR_OK" /\ (flushes \/ call.op = "unlink")
<1>2. /\ loose' = IF cuts THEN loose \union {n} ELSE IF settles THEN loose \ {n} ELSE loose \union pair
      /\ twins' = IF pair = {} THEN twins ELSE twins \union {pair}
  BY Zenon DEF Done
<1>3. ~cuts /\ ~settles /\ pair = {}
  BY <1>1, Zenon
<1> HIDE DEF cuts, pair, settles, flushes
<1> QED BY <1>1, <1>2, <1>3

\* A call on an open file that keeps it open and in order
LEMMA KeptDone ==
    ASSUME Coherent, NEW n \in Name, NEW z, NEW m, NEW call, Done(n, z, m, call), call.op # "rename",
           NEW w, NEW q, Kept(w, m, n, fil, loose', twins', q)
    PROVE  Coherent'
<1> DEFINE u == [fil EXCEPT ![n] = m.fp]
           L == loose'
           T == twins'
<1> HIDE DEF L, T
<1>1. Vol(m, u, L, T) /\ m \in Machines /\ m.fp \in File /\ (m.fp.err = "FR_OK" => m.fp.fptr <= m.fp.fsize)
  BY HandOut DEF L, T
<1>2. Vol(m, u, loose', twins')
  BY <1>1 DEF L, T
<1> QED BY <1>1, <1>2, DoneKeeps

\* A call that leaves every file object as it is
LEMMA ClosedDone ==
    ASSUME Coherent, NEW n \in Name, NEW z, NEW m, NEW call, Done(n, z, m, call),
           call.op = "rename" => call.to \in Name,
           ~fil[n].open, m.fp = NoFile, Vol(m, fil, loose', twins')
    PROVE  Coherent'
<1>1. fil \in [Name -> File] /\ fil[n] \in File
  BY Zenon DEF Coherent
<1>2. fil[n] = NoFile
  BY <1>1, ClosedFile
<1>3. [fil EXCEPT ![n] = m.fp] = fil
  BY <1>1, <1>2
<1>4. m \in Machines
  <2> DEFINE L == loose'
             T == twins'
  <2> HIDE DEF L, T
  <2>1. Vol(m, fil, L, T)
    BY DEF L, T
  <2> QED BY <2>1, VolMachine
<1>5. Vol(m, [fil EXCEPT ![n] = m.fp], loose', twins')
  BY <1>3
<1>6. m.fp \in File /\ ~m.fp.open
  BY NoFileFacts
<1> QED BY <1>4, <1>5, <1>6, DoneKeeps

\* Each call keeps Coherent.
LEMMA OpenStep ==
    ASSUME Coherent, NEW n \in Name, NEW mode \in Modes, Open(n, mode)
    PROVE  Coherent'
<1>1. PICK z \in Media :
          \E m \in {f_open(Machine(fs, disk, NoFile, z), n, mode)} :
             Done(n, z, m, [op |-> "open", create |-> m.fp.open /\ m.fp.written])
  BY Zenon DEF Open
<1> DEFINE s == Machine(fs, disk, NoFile, z)
           m == f_open(s, n, mode)
           call == [op |-> "open", create |-> m.fp.open /\ m.fp.written]
<1>2. Done(n, z, m, call)
  BY <1>1, Zenon
<1>3. Mountable /\ ~fil[n].open /\ n \notin dropped
  BY Zenon DEF Open, Shut
<1>4. mode \in SUBSET Mode
  <2>1. Modes \subseteq SUBSET Mode
    BY VolumeAssumption, Zenon DEF Mode
  <2> QED BY <2>1
<1>5. Vol(s, fil, loose, twins) /\ s.fp = NoFile /\ s.mounted = fs.mounted
  BY Begins, NoFileFacts
<1>6. s.mounted \/ loose = {}
  BY <1>3, <1>5, Zenon DEF Mountable
<1>7. \A k \in Name : {n, k} \notin twins
  BY <1>3, Untwinned
<1> HIDE DEF s
<1>8. OpenedOr(s, m, n, fil, loose, twins)
  BY <1>3, <1>4, <1>5, <1>6, <1>7, OpenCallFacts
<1>9. call.op = "open"
  OBVIOUS
<1> HIDE DEF m, call
<1>10. loose' = loose /\ twins' = twins /\ call.op # "rename"
  BY <1>2, <1>9, DonePlain
<1>11. CASE m.res # "FR_OK"
  <2>1. m.fp = s.fp /\ Vol(m, fil, loose, twins)
    BY <1>8, <1>11, Zenon DEF OpenedOr
  <2>2. m.fp = NoFile /\ Vol(m, fil, loose', twins')
    BY <2>1, <1>5, <1>10
  <2> QED BY <1>2, <1>3, <1>10, <2>2, ClosedDone
<1>12. CASE m.res = "FR_OK"
  <2> DEFINE X == {}
             u == With(fil, n, m.fp)
  <2>1. m.fp \in OpenFile /\ m.fp.fptr = 0 /\ \E r : InOrder(m, u, loose, twins, X, r)
    BY <1>8, <1>12, Zenon DEF OpenedOr
  <2> HIDE DEF X
  <2>2. PICK r : InOrder(m, u, loose, twins, X, r)
    BY <2>1
  <2>3. Vol(m, u, loose, twins)
    BY <2>2, InOrderVol
  <2>4. Vol(m, [fil EXCEPT ![n] = m.fp], loose', twins')
    BY <2>3, <1>10, Zenon DEF With
  <2>5. m \in Machines
    BY <2>3, VolMachine
  <2>6. m.fp \in File /\ m.fp.fptr <= m.fp.fsize
    BY <2>1, OpenFacts DEF File
  <2> QED BY <1>2, <1>10, <2>4, <2>5, <2>6, DoneKeeps
<1> QED BY <1>11, <1>12

-------------------------------------------------------------------------------
(* Every call of the module keeps Coherent *)

LEMMA ReadStep ==
    ASSUME Coherent, NEW n \in Name, NEW k \in Sizes, Read(n, k)
    PROVE  Coherent'
<1>1. PICK z \in Media :
          \E m \in {f_read(Machine(fs, disk, fil[n], z), k)} : Done(n, z, m, [op |-> "read", size |-> k, data |-> m.data])
  BY Zenon DEF Read
<1> DEFINE s == Machine(fs, disk, fil[n], z)
           m == f_read(s, k)
           call == [op |-> "read", size |-> k, data |-> m.data]
<1>2. Done(n, z, m, call)
  BY <1>1, Zenon
<1>3. Usable(n)
  BY Zenon DEF Read
<1>4. s.fp = fil[n] /\ \E q : Kept(s, s, n, fil, loose, twins, q)
  BY <1>3, HandIn
<1> HIDE DEF s
<1>5. PICK q : Kept(s, s, n, fil, loose, twins, q)
  BY <1>4
<1>0. k \in Nat
  BY VolumeAssumption
<1>6. \E r : Kept(s, m, n, fil, loose, twins, r)
  BY <1>5, <1>0, ReadFacts
<1>7. call.op = "read"
  OBVIOUS
<1> HIDE DEF m, call
<1>8. loose' = loose /\ twins' = twins /\ call.op # "rename"
  BY <1>2, <1>7, DonePlain
<1>9. PICK r : Kept(s, m, n, fil, loose, twins, r)
  BY <1>6
<1>10. Kept(s, m, n, fil, loose', twins', r)
  BY <1>8, <1>9
<1> QED BY <1>2, <1>8, <1>10, KeptDone

LEMMA WriteStep ==
    ASSUME Coherent, NEW n \in Name, NEW k \in Sizes, Write(n, k)
    PROVE  Coherent'
<1> DEFINE d == [i \in 1 .. k |-> 10 * (calls + 1) + fil[n].fptr + i]
<1>1. PICK z \in Media :
          \E m \in {f_write(Machine(fs, disk, fil[n], z), d)} : Done(n, z, m, [op |-> "write", data |-> d])
  BY Zenon DEF Write
<1> DEFINE s == Machine(fs, disk, fil[n], z)
           m == f_write(s, d)
           call == [op |-> "write", data |-> d]
<1>2. Done(n, z, m, call)
  BY <1>1, Zenon
<1>3. Usable(n)
  BY Zenon DEF Write
<1>4. s.fp = fil[n] /\ \E q : Kept(s, s, n, fil, loose, twins, q)
  BY <1>3, HandIn
<1> HIDE DEF s
<1>5. PICK q : Kept(s, s, n, fil, loose, twins, q)
  BY <1>4
<1>0. k \in Nat
  BY VolumeAssumption
<1>01. d \in Seq(Nat)
  <2>1. calls \in Nat /\ fil[n] \in File /\ fil[n].open
    BY <1>3 DEF Coherent, Usable
  <2>2. fil[n].fptr \in Nat
    BY <2>1, OpenFacts, NoFileFacts DEF File
  <2>3. \A i \in 1 .. k : 10 * (calls + 1) + fil[n].fptr + i \in Nat
    BY <1>0, <2>1, <2>2
  <2> QED BY <1>0, <2>3
<1> HIDE DEF d
<1>6. \E r : Kept(s, m, n, fil, loose, twins, r)
  BY <1>5, <1>01, WriteFacts
<1>7. call.op = "write"
  OBVIOUS
<1> HIDE DEF m, call
<1>8. loose' = loose /\ twins' = twins /\ call.op # "rename"
  BY <1>2, <1>7, DonePlain
<1>9. PICK r : Kept(s, m, n, fil, loose, twins, r)
  BY <1>6
<1>10. Kept(s, m, n, fil, loose', twins', r)
  BY <1>8, <1>9
<1> QED BY <1>2, <1>8, <1>10, KeptDone

LEMMA SeekStep ==
    ASSUME Coherent, NEW n \in Name, NEW ofs \in Offsets, Seek(n, ofs)
    PROVE  Coherent'
<1>1. PICK z \in Media :
          \E m \in {f_lseek(Machine(fs, disk, fil[n], z), ofs)} : Done(n, z, m, [op |-> "seek", size |-> ofs])
  BY Zenon DEF Seek, Resize
<1> DEFINE s == Machine(fs, disk, fil[n], z)
           m == f_lseek(s, ofs)
           call == [op |-> "seek", size |-> ofs]
<1>2. Done(n, z, m, call)
  BY <1>1, Zenon
<1>3. Usable(n)
  BY Zenon DEF Seek
<1>4. s.fp = fil[n] /\ \E q : Kept(s, s, n, fil, loose, twins, q)
  BY <1>3, HandIn
<1> HIDE DEF s
<1>5. PICK q : Kept(s, s, n, fil, loose, twins, q)
  BY <1>4
<1>0. ofs \in Nat
  BY VolumeAssumption
<1>6. \E r : Kept(s, m, n, fil, loose, twins, r)
  BY <1>5, <1>0, LseekFacts
<1>7. call.op = "seek"
  OBVIOUS
<1> HIDE DEF m, call
<1>8. loose' = loose /\ twins' = twins /\ call.op # "rename"
  BY <1>2, <1>7, DonePlain
<1>9. PICK r : Kept(s, m, n, fil, loose, twins, r)
  BY <1>6
<1>10. Kept(s, m, n, fil, loose', twins', r)
  BY <1>8, <1>9
<1> QED BY <1>2, <1>8, <1>10, KeptDone

LEMMA TruncateStep ==
    ASSUME Coherent, NEW n \in Name, Truncate(n)
    PROVE  Coherent'
<1>1. PICK z \in Media :
          \E m \in {f_truncate(Machine(fs, disk, fil[n], z))} : Done(n, z, m, [op |-> "truncate"])
  BY Zenon DEF Truncate, Resize
<1> DEFINE s == Machine(fs, disk, fil[n], z)
           m == f_truncate(s)
           call == [op |-> "truncate"]
           L == loose'
           T == twins'
<1>2. Done(n, z, m, call)
  BY <1>1, Zenon
<1>3. Usable(n)
  BY Zenon DEF Truncate
<1>4. s.fp = fil[n] /\ \E q : Kept(s, s, n, fil, loose, twins, q)
  BY <1>3, HandIn
<1> HIDE DEF s
<1>5. PICK q : Kept(s, s, n, fil, loose, twins, q)
  BY <1>4
<1> DEFINE cuts == call.op = "truncate" /\ m.fp.fsize # fil[n].fsize
           pair == IF call.op = "rename" /\ ~WholeMove(m) THEN {n, call.to} ELSE {}
           flushes == call.op \in {"sync", "close"} /\ fil[n].written
           settles == m.res = "FR_OK" /\ (flushes \/ call.op = "unlink")
<1>6. /\ loose' = IF cuts THEN loose \union {n} ELSE IF settles THEN loose \ {n} ELSE loose \union pair
      /\ twins' = IF pair = {} THEN twins ELSE twins \union {pair}
  BY <1>2, Zenon DEF Done
<1>7. Truncated(s, m, n, fil, loose, twins)
  BY <1>5, TruncateFacts
<1>8. pair = {} /\ ~settles /\ call.op # "rename" /\ (cuts <=> m.fp.fsize # s.fp.fsize)
  BY <1>4, Zenon
<1> HIDE DEF m, call, cuts, pair, flushes, settles
<1>9. twins' = twins /\ loose' = IF cuts THEN loose \union {n} ELSE loose
  BY <1>6, <1>8
<1>10. \E r : Kept(s, m, n, fil, loose', twins', r)
  <2>1. CASE m.fp.fsize = s.fp.fsize
    <3>1. loose' = loose
      BY <1>8, <1>9, <2>1
    <3>2. \E r : Kept(s, m, n, fil, loose, twins, r)
      BY <1>7, <2>1, Zenon DEF Truncated
    <3> QED BY <1>9, <3>1, <3>2, Zenon
  <2>2. CASE m.fp.fsize # s.fp.fsize
    <3>1. loose' = loose \union {n}
      BY <1>8, <1>9, <2>2
    <3>2. \E r : Kept(s, m, n, fil, loose \union {n}, twins, r)
      BY <1>7, <2>2, Zenon DEF Truncated
    <3> QED BY <1>9, <3>1, <3>2, Zenon
  <2> QED BY <2>1, <2>2
<1>11. PICK r : Kept(s, m, n, fil, loose', twins', r)
  BY <1>10
<1> QED BY <1>2, <1>8, <1>11, KeptDone

LEMMA SyncStep ==
    ASSUME Coherent, NEW n \in Name, Sync(n)
    PROVE  Coherent'
<1>1. PICK z \in Media :
          \E m \in {f_sync(Machine(fs, disk, fil[n], z))} : Done(n, z, m, [op |-> "sync"])
  BY Zenon DEF Sync, Flush
<1> DEFINE s == Machine(fs, disk, fil[n], z)
           m == f_sync(s)
           call == [op |-> "sync"]
           L == loose'
           T == twins'
<1>2. Done(n, z, m, call)
  BY <1>1, Zenon
<1>3. Usable(n)
  BY Zenon DEF Sync
<1>4. s.fp = fil[n] /\ \E q : Kept(s, s, n, fil, loose, twins, q)
  BY <1>3, HandIn
<1> HIDE DEF s
<1>5. PICK q : Kept(s, s, n, fil, loose, twins, q)
  BY <1>4
<1> DEFINE cuts == call.op = "truncate" /\ m.fp.fsize # fil[n].fsize
           pair == IF call.op = "rename" /\ ~WholeMove(m) THEN {n, call.to} ELSE {}
           flushes == call.op \in {"sync", "close"} /\ fil[n].written
           settles == m.res = "FR_OK" /\ (flushes \/ call.op = "unlink")
<1>6. /\ loose' = IF cuts THEN loose \union {n} ELSE IF settles THEN loose \ {n} ELSE loose \union pair
      /\ twins' = IF pair = {} THEN twins ELSE twins \union {pair}
  BY <1>2, Zenon DEF Done
<1>7. /\ Kept(s, m, n, fil, loose, twins, q)
      /\ m.res = "FR_OK" /\ s.fp.written => Kept(s, m, n, fil, loose \ {n}, twins, q)
  BY <1>5, SyncFacts
<1>8. pair = {} /\ ~cuts /\ call.op # "rename" /\ (settles <=> m.res = "FR_OK" /\ s.fp.written)
  BY <1>4, Zenon
<1> HIDE DEF m, call, cuts, pair, flushes, settles
<1>9. twins' = twins /\ loose' = IF settles THEN loose \ {n} ELSE loose
  BY <1>6, <1>8
<1>10. Kept(s, m, n, fil, loose', twins', q)
  <2>1. CASE settles
    <3>1. loose' = loose \ {n}
      BY <1>9, <2>1
    <3> QED BY <1>7, <1>8, <1>9, <2>1, <3>1, Zenon
  <2>2. CASE ~settles
    <3>1. loose' = loose
      BY <1>9, <2>2
    <3> QED BY <1>7, <1>9, <3>1, Zenon
  <2> QED BY <2>1, <2>2
<1> QED BY <1>2, <1>8, <1>10, KeptDone

LEMMA CloseStep ==
    ASSUME Coherent, NEW n \in Name, Close(n)
    PROVE  Coherent'
<1>1. PICK z \in Media :
          \E m \in {f_close(Machine(fs, disk, fil[n], z))} : Done(n, z, m, [op |-> "close"])
  BY Zenon DEF Close, Flush
<1> DEFINE s == Machine(fs, disk, fil[n], z)
           m == f_close(s)
           call == [op |-> "close"]
           L == loose'
           T == twins'
<1>2. Done(n, z, m, call)
  BY <1>1, Zenon
<1>3. Usable(n)
  BY Zenon DEF Close
<1>4. s.fp = fil[n] /\ \E q : Kept(s, s, n, fil, loose, twins, q)
  BY <1>3, HandIn
<1> HIDE DEF s
<1>5. PICK q : Kept(s, s, n, fil, loose, twins, q)
  BY <1>4
<1> DEFINE cuts == call.op = "truncate" /\ m.fp.fsize # fil[n].fsize
           pair == IF call.op = "rename" /\ ~WholeMove(m) THEN {n, call.to} ELSE {}
           flushes == call.op \in {"sync", "close"} /\ fil[n].written
           settles == m.res = "FR_OK" /\ (flushes \/ call.op = "unlink")
<1>6. /\ loose' = IF cuts THEN loose \union {n} ELSE IF settles THEN loose \ {n} ELSE loose \union pair
      /\ twins' = IF pair = {} THEN twins ELSE twins \union {pair}
  BY <1>2, Zenon DEF Done
<1>7. ClosedOr(s, m, n, fil, loose, twins)
  BY <1>5, CloseFacts
<1>8. pair = {} /\ ~cuts /\ call.op # "rename" /\ (settles <=> m.res = "FR_OK" /\ s.fp.written)
  BY <1>4, Zenon
<1> HIDE DEF m, call, cuts, pair, flushes, settles
<1>9. twins' = twins /\ loose' = IF settles THEN loose \ {n} ELSE loose
  BY <1>6, <1>8
<1>10. CASE m.res # "FR_OK"
  <2>1. \E r : Kept(s, m, n, fil, loose, twins, r)
    BY <1>7, <1>10, Zenon DEF ClosedOr
  <2>2. PICK r : Kept(s, m, n, fil, loose, twins, r)
    BY <2>1
  <2>3. loose' = loose
    BY <1>8, <1>9, <1>10
  <2>4. Kept(s, m, n, fil, loose', twins', r)
    BY <1>9, <2>2, <2>3
  <2> QED BY <1>2, <1>8, <2>4, KeptDone
<1>11. CASE m.res = "FR_OK"
  <2> DEFINE X == {}
             u == [fil EXCEPT ![n] = NoFile]
             M == IF s.fp.written THEN loose \ {n} ELSE loose
  <2>1. m.fp = NoFile /\ \E r : InOrder(m, u, M, twins, X, r)
    BY <1>7, <1>11, Zenon DEF ClosedOr
  <2>2. loose' = M
    BY <1>8, <1>9, <1>11
  <2> HIDE DEF X, u, M
  <2>3. PICK r : InOrder(m, u, M, twins, X, r)
    BY <2>1
  <2>4. Vol(m, u, M, twins)
    BY <2>3, InOrderVol
  <2>5. m \in Machines
    BY <2>4, VolMachine
  <2>6. u = [fil EXCEPT ![n] = m.fp]
    BY <2>1 DEF u
  <2>7. Vol(m, [fil EXCEPT ![n] = m.fp], loose', twins')
    BY <2>4, <2>2, <2>6, <1>9
  <2>8. m.fp \in File /\ ~m.fp.open
    BY <2>1, NoFileFacts
  <2> QED BY <1>2, <1>8, <2>5, <2>7, <2>8, DoneKeeps
<1> QED BY <1>10, <1>11

LEMMA GetFreeStep ==
    ASSUME Coherent, GetFree
    PROVE  Coherent'
<1>1. PICK z \in Media :
          \E m \in {f_getfree(Machine(fs, disk, NoFile, z))} :
             \E n \in Name : ~fil[n].open /\ Done(n, z, m, [op |-> "getfree", count |-> m.val])
  BY Zenon DEF GetFree
<1> DEFINE s == Machine(fs, disk, NoFile, z)
           m == f_getfree(s)
           call == [op |-> "getfree", count |-> m.val]
<1>2. \E n \in Name : ~fil[n].open /\ Done(n, z, m, call)
  BY <1>1, Zenon
<1>3. PICK n \in Name : ~fil[n].open /\ Done(n, z, m, call)
  BY <1>2, Zenon
<1>4. Mountable
  BY Zenon DEF GetFree
<1>5. Vol(s, fil, loose, twins) /\ s.fp = NoFile /\ s.mounted = fs.mounted
  BY Begins, NoFileFacts
<1>6. s.mounted \/ loose = {}
  BY <1>4, <1>5, Zenon DEF Mountable
<1> HIDE DEF s
<1>7. m.fp = NoFile /\ Vol(m, fil, loose, twins)
  BY <1>5, <1>6, GetFreeFacts
<1>8. call.op = "getfree"
  OBVIOUS
<1> HIDE DEF m, call
<1>9. loose' = loose /\ twins' = twins /\ call.op # "rename"
  BY <1>3, <1>8, DonePlain
<1>10. Vol(m, fil, loose', twins')
  BY <1>7, <1>9
<1> QED BY <1>3, <1>7, <1>9, <1>10, ClosedDone

LEMMA UnlinkStep ==
    ASSUME Coherent, NEW n \in Name, Unlink(n)
    PROVE  Coherent'
<1>1. PICK z \in Media :
          \E m \in {f_unlink(Machine(fs, disk, NoFile, z), n)} : Done(n, z, m, [op |-> "unlink"])
  BY Zenon DEF Unlink
<1> DEFINE s == Machine(fs, disk, NoFile, z)
           m == f_unlink(s, n)
           call == [op |-> "unlink"]
<1>2. Done(n, z, m, call)
  BY <1>1, Zenon
<1>3. Mountable /\ ~fil[n].open /\ n \notin dropped
  BY Zenon DEF Unlink, Shut
<1>4. Vol(s, fil, loose, twins) /\ s.fp = NoFile /\ s.mounted = fs.mounted
  BY Begins, NoFileFacts
<1>5. s.mounted \/ loose = {}
  BY <1>3, <1>4, Zenon DEF Mountable
<1> HIDE DEF s
<1> DEFINE cuts == call.op = "truncate" /\ m.fp.fsize # fil[n].fsize
           pair == IF call.op = "rename" /\ ~WholeMove(m) THEN {n, call.to} ELSE {}
           flushes == call.op \in {"sync", "close"} /\ fil[n].written
           settles == m.res = "FR_OK" /\ (flushes \/ call.op = "unlink")
<1>6. /\ loose' = IF cuts THEN loose \union {n} ELSE IF settles THEN loose \ {n} ELSE loose \union pair
      /\ twins' = IF pair = {} THEN twins ELSE twins \union {pair}
  BY <1>2, Zenon DEF Done
<1>7. \A k \in Name : {n, k} \notin twins
  BY <1>3, Untwinned
<1>8. Unlinked(s, m, n, fil, loose, twins)
  BY <1>3, <1>4, <1>5, <1>7, UnlinkFacts
<1>9. pair = {} /\ ~cuts /\ call.op # "rename" /\ (settles <=> m.res = "FR_OK")
  BY Zenon
<1> HIDE DEF m, call, cuts, pair, flushes, settles
<1>10. twins' = twins /\ loose' = IF settles THEN loose \ {n} ELSE loose
  BY <1>6, <1>9
<1>11. Vol(m, fil, loose', twins') /\ m.fp = NoFile
  <2>1. m.fp = NoFile
    BY <1>4, <1>8, Zenon DEF Unlinked
  <2>2. CASE settles
    <3>1. loose' = loose \ {n}
      BY <1>10, <2>2
    <3>2. Vol(m, fil, loose \ {n}, twins)
      BY <1>8, <1>9, <2>2, Zenon DEF Unlinked
    <3> QED BY <1>10, <2>1, <3>1, <3>2, Zenon
  <2>3. CASE ~settles
    <3>1. loose' = loose
      BY <1>10, <2>3
    <3>2. Vol(m, fil, loose, twins)
      BY <1>8, <1>9, <2>3, Zenon DEF Unlinked
    <3> QED BY <1>10, <2>1, <3>1, <3>2, Zenon
  <2> QED BY <2>2, <2>3
<1> QED BY <1>2, <1>3, <1>9, <1>11, ClosedDone

LEMMA RenameStep ==
    ASSUME Coherent, NEW n \in Name, NEW k \in Name, Rename(n, k)
    PROVE  Coherent'
<1>1. PICK z \in Media :
          \E m \in {f_rename(Machine(fs, disk, NoFile, z), n, k)} : Done(n, z, m, [op |-> "rename", to |-> k])
  BY Zenon DEF Rename
<1> DEFINE s == Machine(fs, disk, NoFile, z)
           m == f_rename(s, n, k)
           call == [op |-> "rename", to |-> k]
<1>2. Done(n, z, m, call)
  BY <1>1, Zenon
<1>3. Mountable /\ ~fil[n].open /\ n \notin dropped /\ n # k /\ ~fil[k].open /\ k \notin dropped
  BY Zenon DEF Rename, Shut
<1>4. Vol(s, fil, loose, twins) /\ s.fp = NoFile /\ s.mounted = fs.mounted
  BY Begins, NoFileFacts
<1>5. s.mounted \/ loose = {}
  BY <1>3, <1>4, Zenon DEF Mountable
<1> HIDE DEF s
<1> DEFINE cuts == call.op = "truncate" /\ m.fp.fsize # fil[n].fsize
           pair == IF call.op = "rename" /\ ~WholeMove(m) THEN {n, call.to} ELSE {}
           flushes == call.op \in {"sync", "close"} /\ fil[n].written
           settles == m.res = "FR_OK" /\ (flushes \/ call.op = "unlink")
<1>6. /\ loose' = IF cuts THEN loose \union {n} ELSE IF settles THEN loose \ {n} ELSE loose \union pair
      /\ twins' = IF pair = {} THEN twins ELSE twins \union {pair}
  BY <1>2, Zenon DEF Done
<1>7. \A j \in Name : {n, j} \notin twins /\ {k, j} \notin twins
  <2>1. (\A j \in Name : {n, j} \notin twins) /\ \A j \in Name : {k, j} \notin twins
    BY <1>3, Untwinned
  <2> QED BY <2>1
<1>8. Renamed(s, m, n, k, fil, loose, twins)
  BY <1>3, <1>4, <1>5, <1>7, RenameFacts
<1>9. /\ call.op = "rename" /\ call.to = k /\ ~cuts /\ ~settles
      /\ pair = IF ~WholeMove(m) THEN {n, k} ELSE {}
  <2>1. /\ call.op = "rename" /\ call.to = k
    OBVIOUS
  <2>2. ~cuts
    BY Zenon
  <2>3. ~settles
    BY Zenon
  <2>4. pair = IF ~WholeMove(m) THEN {n, k} ELSE {}
    BY <2>1, Zenon
  <2> QED BY <2>1, <2>2, <2>3, <2>4
<1> HIDE DEF m, call, cuts, pair, flushes, settles
<1>10. Vol(m, fil, loose', twins') /\ m.fp = NoFile
  <2>1. m.fp = NoFile
    BY <1>4, <1>8, Zenon DEF Renamed
  <2>2. CASE WholeMove(m)
    <3>1. pair = {}
      BY <1>9, <2>2
    <3>2. loose' = loose /\ twins' = twins
      BY <1>6, <1>9, <3>1
    <3>3. Vol(m, fil, loose, twins)
      BY <1>8, <2>2, Zenon DEF Renamed
    <3> QED BY <2>1, <3>2, <3>3, Zenon
  <2>3. CASE ~WholeMove(m)
    <3>1. pair = {n, k} /\ pair # {}
      BY <1>9, <2>3
    <3>2. loose' = loose \union {n, k} /\ twins' = twins \union {{n, k}}
      BY <1>6, <1>9, <3>1
    <3>3. Vol(m, fil, loose \union {n, k}, twins \union {{n, k}})
      BY <1>8, <2>3, Zenon DEF Renamed
    <3> QED BY <2>1, <3>2, <3>3, Zenon
  <2> QED BY <2>2, <2>3
<1> QED BY <1>2, <1>3, <1>9, <1>10, ClosedDone

\* The invariant is inductive.
LEMMA CoherentStep == Coherent /\ [Next]_vars => Coherent'
<1> SUFFICES ASSUME Coherent, [Next]_vars PROVE Coherent'
  OBVIOUS
<1>1. CASE Next
  <2>1. ASSUME NEW n \in Name, NEW mode \in Modes, Open(n, mode) PROVE Coherent'
    BY <2>1, OpenStep
  <2>2. ASSUME NEW n \in Name, NEW k \in Sizes, Read(n, k) PROVE Coherent'
    BY <2>2, ReadStep
  <2>3. ASSUME NEW n \in Name, NEW k \in Sizes, Write(n, k) PROVE Coherent'
    BY <2>3, WriteStep
  <2>4. ASSUME NEW n \in Name, NEW ofs \in Offsets, Seek(n, ofs) PROVE Coherent'
    BY <2>4, SeekStep
  <2>5. ASSUME NEW n \in Name, Truncate(n) PROVE Coherent'
    BY <2>5, TruncateStep
  <2>6. ASSUME NEW n \in Name, Sync(n) PROVE Coherent'
    BY <2>6, SyncStep
  <2>7. ASSUME NEW n \in Name, Close(n) PROVE Coherent'
    BY <2>7, CloseStep
  <2>8. ASSUME NEW n \in Name, Unlink(n) PROVE Coherent'
    BY <2>8, UnlinkStep
  <2>9. ASSUME NEW n \in Name, NEW k \in Name, Rename(n, k) PROVE Coherent'
    BY <2>9, RenameStep
  <2>10. ASSUME GetFree PROVE Coherent'
    BY <2>10, GetFreeStep
  <2> QED BY <1>1, <2>1, <2>2, <2>3, <2>4, <2>5, <2>6, <2>7, <2>8, <2>9, <2>10, Zenon DEF Next
<1>2. CASE UNCHANGED vars
  BY <1>2 DEF vars, Coherent
<1> QED BY <1>1, <1>2

-------------------------------------------------------------------------------
(* The formatted medium and the first mount *)

\* Division rounded up.
LEMMA DivUp ==
    ASSUME NEW s \in Nat, NEW B \in Nat \ {0}
    PROVE  LET n == (s + B - 1) \div B IN n \in Nat /\ s <= n * B /\ (n = 0 => s = 0) /\ (n > 0 => (n - 1) * B < s)
<1> DEFINE n == (s + B - 1) \div B
           r == (s + B - 1) % B
<1>1. s + B - 1 \in Nat
  OBVIOUS
<1>2. s + B - 1 = B * n + r /\ r \in 0 .. B - 1 /\ n \in Nat
  BY <1>1, SMTT(30)
<1> HIDE DEF n, r
<1>3. s <= n * B
  BY <1>2
<1>4. n = 0 => s = 0
  BY <1>3
<1>5. n > 0 => (n - 1) * B < s
  BY <1>2
<1> QED BY <1>2, <1>3, <1>4, <1>5 DEF n

\* The clusters needed for a size.
LEMMA NeededFacts ==
    ASSUME NEW s \in Nat
    PROVE  /\ Needed(s) \in Nat /\ s <= Needed(s) * Bytes /\ (Needed(s) = 0 => s = 0)
           /\ \A k \in Nat : s <= k * Bytes => Needed(s) <= k
<1> DEFINE n == Needed(s)
           B == Bytes
<1>1. B \in Nat \ {0}
  BY BytesNat
<1>2. n = (s + B - 1) \div B
  BY DEF Needed, Bytes
<1> HIDE DEF B, n
<1>3. n \in Nat /\ s <= n * B /\ (n = 0 => s = 0) /\ (n > 0 => (n - 1) * B < s)
  BY <1>1, <1>2, DivUp
<1>4. ASSUME NEW k \in Nat, s <= k * B PROVE n <= k
  <2> SUFFICES ASSUME n > k PROVE FALSE
    BY <1>3
  <2> DEFINE j == n - 1 - k
  <2>1. j \in Nat /\ n - 1 = k + j
    BY <1>3
  <2> HIDE DEF j
  <2>2. (k + j) * B < s
    BY <1>3, <2>1
  <2>3. (k + j) * B = k * B + j * B /\ j * B \in Nat /\ k * B \in Nat
    BY <1>1, <2>1
  <2> QED BY <1>4, <2>2, <2>3
<1> QED BY <1>3, <1>4 DEF n, B

\* A number from its quotient and remainder.
LEMMA Split ==
    ASSUME NEW c \in Nat, NEW P \in Nat \ {0}
    PROVE  (c \div P) * P + (c % P) = c /\ c \div P \in Nat /\ c % P \in 0 .. P - 1
<1>1. c \div P \in Nat /\ c % P \in 0 .. P - 1 /\ c = P * (c \div P) + (c % P)
  BY DivParts
<1> DEFINE d == c \div P
           r == c % P
<1>2. d \in Nat /\ r \in 0 .. P - 1 /\ c = P * d + r
  BY <1>1
<1> HIDE DEF d, r
<1>3. d * P + r = c
  BY <1>2
<1> QED BY <1>2, <1>3, Zenon DEF d, r

\* The table and the directory of the volume that holds First
LEMMA FormattedFat ==
    \A c \in Cluster : Fat(Formatted)[c] = IF c = Needed(FirstSize) + 1 THEN EndOfChain
                                           ELSE IF c \in 2 .. Needed(FirstSize) THEN c + 1 ELSE 0
<1> SUFFICES ASSUME NEW c \in Cluster
             PROVE  Fat(Formatted)[c] = IF c = Needed(FirstSize) + 1 THEN EndOfChain
                                        ELSE IF c \in 2 .. Needed(FirstSize) THEN c + 1 ELSE 0
  OBVIOUS
<1> DEFINE x == FatSect(c)
           i == c % PerFat
           n == Needed(FirstSize)
<1>1. c \in Nat /\ c >= 2 /\ c \in 0 .. n_fatent - 1
  BY FatFsAssumption DEF Cluster, n_fatent
<1>2. x \in fatbase .. dirbase - 1 /\ i \in 0 .. PerFat - 1 /\ x \in Sector
  BY <1>1, LayoutFacts, SectorFacts
<1>3. (x - fatbase) * PerFat + i = c
  <2>1. x - fatbase = c \div PerFat
    BY <1>1, Split, FatFsAssumption DEF FatSect, fatbase
  <2> QED BY <1>1, <2>1, Split, FatFsAssumption
<1>4. n \in Nat
  BY NeededFacts, VolumeAssumption
<1>5. Fat(Formatted)[c] = Formatted[x][i]
  BY DEF Fat
<1> HIDE DEF x, i, n
<1>6. x # 0 /\ x < dirbase
  BY <1>2, LayoutFacts
<1>7. Formatted[x] = [j \in 0 .. PerFat - 1 |->
                       LET d == (x - fatbase) * PerFat + j IN
                       IF d \in {0, 1} \/ d = n + 1 THEN EndOfChain ELSE IF d \in 2 .. n THEN d + 1 ELSE 0]
  BY <1>2, <1>6, Zenon DEF Formatted, n
<1>8. Formatted[x][i] = IF c \in {0, 1} \/ c = n + 1 THEN EndOfChain ELSE IF c \in 2 .. n THEN c + 1 ELSE 0
  BY <1>2, <1>3, <1>7, Zenon
<1> QED BY <1>1, <1>5, <1>8 DEF n

\* The first medium's directory, FAT and sectors.
LEMMA FormattedDir ==
    \A i \in 0 .. NRootDir - 1 : Dir(Formatted)[i] =
        IF i = 0 THEN [name |-> First, end |-> FALSE, size |-> FirstSize, clust |-> IF Needed(FirstSize) = 0 THEN 0 ELSE 2]
        ELSE Blank(TRUE)
<1> DEFINE e == [name |-> First, end |-> FALSE, size |-> FirstSize, clust |-> IF Needed(FirstSize) = 0 THEN 0 ELSE 2]
<1> SUFFICES ASSUME NEW i \in 0 .. NRootDir - 1
             PROVE  Dir(Formatted)[i] = IF i = 0 THEN e ELSE Blank(TRUE)
  OBVIOUS
<1> DEFINE x == DirSect(i)
           j == i % PerDir
<1>1. x \in dirbase .. database - 1 /\ j \in 0 .. PerDir - 1 /\ x \in Sector /\ i \in Nat
  <2>1. x \in dirbase .. database - 1 /\ j \in 0 .. PerDir - 1
    BY LayoutFacts
  <2>2. x \in Sector
    BY <2>1, LayoutFacts, SectorFacts
  <2> QED BY <2>1, <2>2
<1>2. x = dirbase /\ j = 0 <=> i = 0
  <2>1. (i \div PerDir) * PerDir + (i % PerDir) = i /\ i \div PerDir \in Nat
    BY <1>1, Split, FatFsAssumption
  <2>2. x = dirbase + (i \div PerDir)
    BY DEF DirSect
  <2>3. i = 0 => i \div PerDir = 0 /\ i % PerDir = 0
    BY FatFsAssumption
  <2>4. x = dirbase <=> i \div PerDir = 0
    BY <2>1, <2>2, LayoutFacts
  <2> QED BY <2>1, <2>3, <2>4, FatFsAssumption
<1>3. Dir(Formatted)[i] = Formatted[x][j]
  BY DEF Dir, Slot
<1> HIDE DEF x, j
<1>4. x # 0 /\ ~(x < dirbase) /\ x < database
  BY <1>1, LayoutFacts
<1>5. Formatted[x] = [k \in 0 .. PerDir - 1 |-> IF x = dirbase /\ k = 0 THEN e ELSE Blank(TRUE)]
  BY <1>1, <1>4, Zenon DEF Formatted, e
<1> HIDE DEF e
<1>6. Formatted[x][j] = IF x = dirbase /\ j = 0 THEN e ELSE Blank(TRUE)
  BY <1>1, <1>5, Zenon
<1> QED BY <1>2, <1>3, <1>6, Zenon

LEMMA FormattedType == Formatted \in Medium
<1> DEFINE n == Needed(FirstSize)
           e == [name |-> First, end |-> FALSE, size |-> FirstSize, clust |-> IF n = 0 THEN 0 ELSE 2]
           b == Blank(TRUE)
<1>1. n \in Nat /\ FirstSize \in Nat /\ n <= NClust
  BY NeededFacts, VolumeAssumption
<1>2. e \in DirEntry /\ b \in DirEntry
  <2>1. 0 \in {0} \union Cluster /\ 2 \in {0} \union Cluster
    BY FatFsAssumption DEF Cluster, n_fatent
  <2>2. First \in Name \union {NoName} /\ NoName \in Name \union {NoName}
    BY VolumeAssumption, Zenon
  <2>3. FirstSize \in Nat /\ 0 \in Nat /\ TRUE \in BOOLEAN /\ FALSE \in BOOLEAN
    BY <1>1
  <2>4. (IF n = 0 THEN 0 ELSE 2) \in {0} \union Cluster
    BY <2>1
  <2>5. b \in DirEntry
    BY <2>1, <2>2, <2>3, Zenon DEF DirEntry, Blank
  <2> HIDE DEF n
  <2>6. e \in DirEntry
    BY <2>2, <2>3, <2>4, Zenon DEF DirEntry
  <2> QED BY <2>5, <2>6
<1> HIDE DEF n
<1>3. ASSUME NEW x \in Sector PROVE Formatted[x] \in SectorOf(x)
  <2>0. x \in Nat /\ dirbase \in Nat /\ database \in Nat /\ 0 < dirbase /\ dirbase < database /\ fatbase = 1
    BY SectorFacts, LayoutFacts
  <2>1. CASE x = 0
    <3>1. Formatted[x] = [i \in 0 .. SS - 1 |-> 0]
      BY <2>1, Zenon DEF Formatted
    <3>2. [i \in 0 .. SS - 1 |-> 0] \in DataSector
      BY DEF DataSector
    <3> QED BY <2>1, <3>1, <3>2 DEF SectorOf
  <2>2. CASE x # 0 /\ x < dirbase
    <3> DEFINE y(d) == IF d \in {0, 1} \/ d = n + 1 THEN EndOfChain ELSE IF d \in 2 .. n THEN d + 1 ELSE 0
               f == [i \in 0 .. PerFat - 1 |-> y((x - fatbase) * PerFat + i)]
    <3>1. Formatted[x] = f
      BY <2>2, Zenon DEF Formatted, n
    <3>2. \A d \in Int : y(d) \in 0 .. n_fatent
      BY <1>1, FatFsAssumption DEF EndOfChain, n_fatent
    <3> HIDE DEF y
    <3>3. \A i \in 0 .. PerFat - 1 : (x - fatbase) * PerFat + i \in Int
      <4>1. PerFat \in Nat /\ x - fatbase \in Int
        BY <2>0, FatFsAssumption
      <4> QED BY <4>1
    <3>4. f \in FatSector
      BY <3>2, <3>3 DEF FatSector
    <3> HIDE DEF f
    <3>5. SectorOf(x) = FatSector
      BY <2>0, <2>2 DEF SectorOf
    <3> QED BY <3>1, <3>4, <3>5
  <2>3. CASE x # 0 /\ ~(x < dirbase) /\ x < database
    <3> DEFINE f == [i \in 0 .. PerDir - 1 |-> IF x = dirbase /\ i = 0 THEN e ELSE b]
    <3>1. Formatted[x] = f
      BY <2>3, Zenon DEF Formatted, n
    <3> HIDE DEF e, b
    <3>2. f \in DirSector
      BY <1>2 DEF DirSector
    <3> HIDE DEF f
    <3>3. SectorOf(x) = DirSector
      BY <2>0, <2>3 DEF SectorOf
    <3> QED BY <3>1, <3>2, <3>3
  <2>4. CASE x # 0 /\ ~(x < dirbase) /\ ~(x < database)
    <3> DEFINE unit(u) == IF u \in 1 .. FirstSize THEN u ELSE 0
               f == [i \in 0 .. SS - 1 |-> unit((x - database) * SS + i + 1)]
    <3>1. Formatted[x] = f
      BY <2>4, Zenon DEF Formatted
    <3>2. \A u \in Int : unit(u) \in Nat
      BY <1>1
    <3> HIDE DEF unit
    <3>3. \A i \in 0 .. SS - 1 : (x - database) * SS + i + 1 \in Int
      <4>1. SS \in Nat /\ x - database \in Int
        BY <2>0, FatFsAssumption
      <4> QED BY <4>1
    <3>4. f \in DataSector
      BY <3>2, <3>3 DEF DataSector
    <3> HIDE DEF f
    <3>5. SectorOf(x) = DataSector
      BY <2>0, <2>4 DEF SectorOf
    <3> QED BY <3>1, <3>4, <3>5
  <2> QED BY <2>1, <2>2, <2>3, <2>4
<1>4. \A x \in Sector : SectorOf(x) \subseteq AnySector
  BY Zenon DEF SectorOf, AnySector
<1>5. \A x \in Sector : Formatted[x] \in AnySector
  BY <1>3, <1>4
<1>6. Formatted = [x \in Sector |-> Formatted[x]]
  BY Zenon DEF Formatted
<1>7. Formatted \in [Sector -> AnySector]
  BY <1>5, <1>6
<1> QED BY <1>3, <1>7, Zenon DEF Medium

LEMMA FormattedOK == DirOK(Dir(Formatted))
<1> DEFINE D == Dir(Formatted)
           e == [name |-> First, end |-> FALSE, size |-> FirstSize, clust |-> IF Needed(FirstSize) = 0 THEN 0 ELSE 2]
           b == Blank(TRUE)
<1>1. \A i \in 0 .. NRootDir - 1 : D[i] = IF i = 0 THEN e ELSE b
  BY FormattedDir
<1>2. ~e.end /\ e.name = First /\ b.end /\ b.name = NoName /\ First # NoName
  BY VolumeAssumption, FatFsAssumption, Zenon DEF Blank
<1> HIDE DEF D, e, b
<1>3. \A i, j \in 0 .. NRootDir - 1 : D[i].end /\ i <= j => D[j].end /\ D[j].name = NoName
  <2> SUFFICES ASSUME NEW i \in 0 .. NRootDir - 1, NEW j \in 0 .. NRootDir - 1, D[i].end, i <= j
               PROVE  D[j].end /\ D[j].name = NoName
    OBVIOUS
  <2>1. i # 0
    BY <1>1, <1>2
  <2>2. j # 0
    BY <2>1, FatFsAssumption
  <2>3. D[j] = b
    BY <1>1, <2>2
  <2> QED BY <1>2, <2>3
<1>4. \A i, j \in 0 .. NRootDir - 1 : D[i].name = D[j].name /\ D[i].name # NoName => i = j
  <2> SUFFICES ASSUME NEW i \in 0 .. NRootDir - 1, NEW j \in 0 .. NRootDir - 1, D[i].name = D[j].name, D[i].name # NoName
               PROVE  i = j
    OBVIOUS
  <2>1. i = 0
    BY <1>1, <1>2
  <2>2. j = 0
    BY <1>1, <1>2
  <2> QED BY <2>1, <2>2
<1> QED BY <1>3, <1>4, Zenon DEF DirOK, D

LEMMA FormattedFine == Fine(Formatted, {})
<1> DEFINE F == Fat(Formatted)
           D == Dir(Formatted)
           n == Needed(FirstSize)
           own == [c \in Cluster |-> IF c <= n + 1 THEN First ELSE NoName]
           idx == [c \in Cluster |-> c - 2]
           len == [k \in Name |-> IF k = First THEN n ELSE 0]
           al == [k \in Name |-> k]
           q == [own |-> own, idx |-> idx, len |-> len, al |-> al]
           e == [name |-> First, end |-> FALSE, size |-> FirstSize, clust |-> IF n = 0 THEN 0 ELSE 2]
<1>1. /\ n \in Nat /\ n <= NClust /\ FirstSize <= n * Bytes /\ (n = 0 => FirstSize = 0)
      /\ First \in Name /\ First # NoName /\ NoName \notin Name
  <2>1. First \in Name /\ NoName \notin Name
    BY VolumeAssumption, FatFsAssumption, Zenon
  <2>2. FirstSize \in Nat /\ n <= NClust
    BY VolumeAssumption
  <2> QED BY <2>1, <2>2, NeededFacts
<1>2. \A c \in Cluster : F[c] = IF c = n + 1 THEN EndOfChain ELSE IF c \in 2 .. n THEN c + 1 ELSE 0
  BY FormattedFat
<1>3. \A i \in 0 .. NRootDir - 1 : D[i] = IF i = 0 THEN e ELSE Blank(TRUE)
  BY FormattedDir
<1>4. D \in Folder /\ DirOK(D)
  <2>1. D \in Folder
    BY FormattedType, DirSectorType
  <2> QED BY <2>1, FormattedOK
<1> HIDE DEF F, D, n
<1>5. Cluster = 2 .. NClust + 1 /\ NClust \in Nat \ {0}
  BY FatFsAssumption DEF Cluster, n_fatent
<1>6. q \in Certificate
  <2>1. own \in [Cluster -> Name \union {NoName}]
    BY <1>1
  <2>2. idx \in [Cluster -> Nat]
    BY <1>5
  <2>3. len \in [Name -> Nat]
    BY <1>1
  <2>4. al \in [Name -> Name]
    OBVIOUS
  <2> HIDE DEF own, idx, len, al
  <2> QED BY <2>1, <2>2, <2>3, <2>4, Zenon DEF Certificate
<1>7. /\ q.own = own /\ q.idx = idx /\ q.len = len /\ q.al = al
  BY Zenon
<1>8. /\ \A c \in Cluster : own[c] = (IF c <= n + 1 THEN First ELSE NoName) /\ idx[c] = c - 2
      /\ \A k \in Name : len[k] = (IF k = First THEN n ELSE 0) /\ al[k] = k
  OBVIOUS
<1> HIDE DEF own, idx, len, al, q
<1>9. Chained(F, q)
  <2>1. ASSUME NEW c \in Cluster, own[c] # NoName
        PROVE  /\ idx[c] < len[own[c]]
               /\ idx[c] + 1 = len[own[c]] => F[c] = EndOfChain
               /\ idx[c] + 1 # len[own[c]] => F[c] \in Cluster /\ own[F[c]] = own[c] /\ idx[F[c]] = idx[c] + 1
    <3>1. own[c] = First /\ c <= n + 1 /\ idx[c] = c - 2 /\ len[own[c]] = n /\ c \in Int /\ c >= 2
      BY <2>1, <1>1, <1>5, <1>8
    <3>2. idx[c] < len[own[c]]
      BY <3>1, <1>1
    <3>3. CASE c = n + 1
      <4>1. F[c] = EndOfChain /\ idx[c] + 1 = len[own[c]]
        BY <1>1, <1>2, <3>1, <3>3
      <4> QED BY <3>2, <4>1
    <3>4. CASE c # n + 1
      <4>1. c \in 2 .. n /\ c + 1 \in Cluster /\ c + 1 <= n + 1
        BY <1>1, <1>5, <3>1, <3>4
      <4>2. F[c] = c + 1
        BY <1>2, <3>4, <4>1
      <4>3. own[c + 1] = First /\ idx[c + 1] = c + 1 - 2
        BY <1>8, <4>1
      <4>4. idx[c] + 1 # len[own[c]]
        BY <3>1, <3>4, <1>1
      <4>5. idx[F[c]] = idx[c] + 1
        BY <3>1, <4>2, <4>3
      <4> QED BY <3>1, <3>2, <4>1, <4>2, <4>3, <4>4, <4>5
    <3> QED BY <3>3, <3>4
  <2>2. \A c, d \in Cluster : own[c] = own[d] /\ own[c] # NoName /\ idx[c] = idx[d] => c = d
    BY <1>5, <1>8
  <2> QED BY <1>7, <2>1, <2>2, Zenon DEF Chained
<1>10. \A k \in Name : RootedAt(q, k, Entry(D, k).clust, Entry(D, k).size)
  <2> SUFFICES ASSUME NEW k \in Name PROVE RootedAt(q, k, Entry(D, k).clust, Entry(D, k).size)
    OBVIOUS
  <2>0. e.clust = (IF n = 0 THEN 0 ELSE 2) /\ e.size = FirstSize /\ e.name = First
    OBVIOUS
  <2> HIDE DEF e
  <2>1. CASE k = First
    <3>1. 0 \in 0 .. NRootDir - 1
      BY FatFsAssumption
    <3>2. D[0] = e
      BY <1>3, <3>1
    <3>3. \A i \in 0 .. NRootDir - 1 : D[i].name = k => i = 0
      <4>1. D[0].name = k /\ k # NoName
        BY <2>0, <2>1, <3>2, <1>1
      <4> QED BY <1>4, <3>1, <4>1 DEF DirOK
    <3>4. Entry(D, k) = e
      BY <2>0, <2>1, <3>1, <3>2, <3>3, Zenon DEF Entry
    <3>5. CASE n = 0
      <4>1. e.clust = 0 /\ e.size = 0
        BY <3>5, <2>0, <1>1
      <4> QED BY <3>4, <4>1 DEF RootedAt
    <3>6. CASE n # 0
      <4>1. e.clust = 2 /\ 2 \in Cluster /\ 2 <= n + 1
        BY <3>6, <2>0, <1>1, <1>5
      <4>2. own[2] = First /\ idx[2] = 0 /\ al[k] = First /\ len[First] = n
        BY <4>1, <1>8, <2>1, <1>1
      <4>3. e.size <= len[al[k]] * Bytes
        BY <4>2, <2>0, <1>1
      <4>4. RootedAt(q, k, e.clust, e.size)
        BY <4>1, <4>2, <4>3, <1>7, Zenon DEF RootedAt
      <4> QED BY <3>4, <4>4
    <3> QED BY <3>5, <3>6
  <2>2. CASE k # First
    <3>1. \A i \in 0 .. NRootDir - 1 : D[i].name # k
      <4> SUFFICES ASSUME NEW i \in 0 .. NRootDir - 1 PROVE D[i].name # k
        OBVIOUS
      <4>1. CASE i = 0
        BY <4>1, <1>3, <2>0, <2>2
      <4>2. CASE i # 0
        <5>1. D[i] = Blank(TRUE)
          BY <4>2, <1>3
        <5>2. D[i].name = NoName
          BY <5>1 DEF Blank
        <5> QED BY <5>2, <1>1
      <4> QED BY <4>1, <4>2
    <3>2. Entry(D, k) = Blank(FALSE)
      BY <3>1, Zenon DEF Entry
    <3>3. Entry(D, k).clust = 0 /\ Entry(D, k).size = 0
      BY <3>2 DEF Blank
    <3> QED BY <3>3 DEF RootedAt
  <2> QED BY <2>1, <2>2
<1>11. \A k, j \in Name : q.al[k] = q.al[j] => k = j
  BY <1>7, <1>8
<1> QED BY <1>4, <1>6, <1>9, <1>10, <1>11, Zenon DEF Fine, F, D

\* A volume in order, with no names loose, starts Coherent.
LEMMA StartFrom ==
    ASSUME NEW m, NEW X, X = {}, Vol(m, fil, X, X),
           \A n \in Name : fil[n].open /\ fil[n].err = "FR_OK" => fil[n].fptr <= fil[n].fsize,
           disk = m.disk, fs = FileSystem(m), content = View(disk, fs, fil, {}),
           loose = {}, dropped = {}, twins = {}, calls = 0
    PROVE  Coherent
<1> DEFINE v == FileSystem(m)
           w == Machine(v, m.disk, NoFile, Healthy)
<1>1. m \in Machines /\ fil \in [Name -> File]
  BY VolMachine
<1>2. m.disk \in Medium
  BY <1>1, Zenon DEF Machines
<1>3. v \in Object /\ v.win = m.win /\ v.winsect = m.winsect /\ v.wflag = m.wflag /\ v.mounted = m.mounted
  BY <1>1, ObjectOf
<1> HIDE DEF v
<1>4. MachineOf(w, v, m.disk, NoFile)
  BY <1>2, <1>3, MachineType, HealthyFacts, NoFileFacts
<1> HIDE DEF w
<1>5. /\ w \in Machines /\ w.disk = m.disk /\ w.win = m.win /\ w.winsect = m.winsect
      /\ w.wflag = m.wflag /\ w.mounted = m.mounted
  BY <1>3, <1>4, Zenon DEF MachineOf
<1>6. Vol(w, fil, X, X)
  BY <1>5, SameVol
<1>7. fs = v /\ w = Machine(fs, disk, NoFile, Healthy)
  BY Zenon DEF v, w
<1>8. Vol(Machine(fs, disk, NoFile, Healthy), fil, loose, twins)
  BY <1>6, <1>7, Zenon
<1>9. content = View(disk, fs, fil, dropped)
  BY Zenon
<1>10. \A t \in twins : \E n, k \in dropped : n \in Name /\ k \in Name /\ t = {n, k}
  OBVIOUS
<1>11. disk \in Medium /\ fs \in Object /\ calls \in Nat
  BY <1>2, <1>3, <1>7
<1> QED BY <1>1, <1>8, <1>9, <1>10, <1>11, Zenon DEF Coherent

\* No file is open.
Nothing == [n \in Name |-> NoFile]

\* The medium before f_mount.
LEMMA ColdFacts ==
    ASSUME NEW X, X = {}
    PROVE  Vol(Cold, Nothing, X, X) /\ Cold \in Machines /\ ~Cold.mounted /\ Cold.fp = NoFile
<1>1. MachineOf(Cold, Unmounted, Formatted, NoFile)
  BY UnmountedFacts, HealthyFacts, NoFileFacts, FormattedType, MachineType DEF Cold
<1>2. /\ Cold \in Machines /\ Cold.winsect = Unknown /\ ~Cold.wflag /\ ~Cold.mounted
      /\ Cold.disk = Formatted /\ Cold.fp = NoFile
  BY <1>1, UnmountedFacts, Zenon DEF MachineOf
<1>3. Sound(Cold)
  <2>1. Cold.winsect \in 0 .. database - 1 \union {Unknown}
    BY <1>2
  <2> QED BY <1>2, <2>1, Zenon DEF Sound, Windowed
<1>4. Nothing \in [Name -> File] /\ \A n \in Name : ~Nothing[n].open
  BY NoFileFacts DEF Nothing
<1>5. Fine(Cold.disk, X)
  BY <1>2, FormattedFine
<1>6. Twinned(X, X)
  BY DEF Twinned
<1> QED BY <1>2, <1>3, <1>4, <1>5, <1>6, Zenon DEF Vol

\* A file is opened on a volume where it is closed: u is what the files are then
LEMMA OpenMore ==
    ASSUME NEW m, NEW o, NEW X, X = {}, Vol(m, o, X, X), m.fp = NoFile,
           \A k \in Name : o[k].open /\ o[k].err = "FR_OK" => o[k].fptr <= o[k].fsize,
           NEW n \in Name, o[n] = NoFile, NEW mode \in SUBSET Mode
    PROVE  LET w == f_open(m, n, mode)
               u == With(o, n, w.fp) IN
           /\ Vol(w, u, X, X) /\ w \in Machines /\ w.fp \in File
           /\ \A k \in Name : u[k].open /\ u[k].err = "FR_OK" => u[k].fptr <= u[k].fsize
<1> DEFINE w == f_open(m, n, mode)
           u == With(o, n, w.fp)
<1>1. OpenedOr(m, w, n, o, X, X)
  <2>1. \A k \in Name : {n, k} \notin X
    OBVIOUS
  <2>2. ~o[n].open
    BY NoFileFacts
  <2> QED BY <2>1, <2>2, OpenCallFacts
<1>2. o \in [Name -> File]
  BY VolMachine
<1> HIDE DEF w
<1>3. CASE w.res # "FR_OK"
  <2>1. w.fp = NoFile /\ Vol(w, o, X, X)
    BY <1>1, <1>3, Zenon DEF OpenedOr
  <2>2. u = o
    BY <1>2, <2>1 DEF With
  <2> QED BY <2>1, <2>2, VolMachine, NoFileFacts DEF w
<1>4. CASE w.res = "FR_OK"
  <2> DEFINE Y == {}
  <2>1. w.fp \in OpenFile /\ w.fp.fptr = 0 /\ \E r : InOrder(w, u, X, X, Y, r)
    BY <1>1, <1>4, Zenon DEF OpenedOr
  <2>2. u \in [Name -> File] /\ \A k \in Name : u[k] = IF k = n THEN w.fp ELSE o[k]
    BY <1>2, <2>1, OpenFacts DEF With
  <2> HIDE DEF Y, u
  <2>3. PICK r : InOrder(w, u, X, X, Y, r)
    BY <2>1
  <2>4. Vol(w, u, X, X)
    BY <2>3, InOrderVol
  <2>5. w.fp \in File /\ w.fp.fptr <= w.fp.fsize
    BY <2>1, OpenFacts
  <2>6. \A k \in Name : u[k].open /\ u[k].err = "FR_OK" => u[k].fptr <= u[k].fsize
    BY <2>2, <2>5
  <2>7. w \in Machines
    BY <2>4, VolMachine
  <2> QED BY <2>4, <2>5, <2>6, <2>7 DEF u, w
<1> QED BY <1>3, <1>4

\* The initial states are Coherent.
LEMMA CoherentInit == Init => Coherent
<1> SUFFICES ASSUME Init PROVE Coherent
  OBVIOUS
<1> DEFINE w == Warm(Cold)
           X == {}
<1>1. First \in Name /\ Second \in Name /\ Second # First
  BY VolumeAssumption, Zenon DEF Second
<1>2. PICK m \in {Cold, Warmer(w)} :
               /\ disk = m.disk
               /\ fs = FileSystem(m)
               /\ fil = [n \in Name |-> IF ~m.mounted THEN NoFile ELSE IF n = First THEN w.fp
                                        ELSE IF n = Second THEN m.fp ELSE NoFile]
  BY Zenon DEF Init
<1>3. content = View(disk, fs, fil, {}) /\ loose = {} /\ dropped = {} /\ twins = {} /\ calls = 0
  BY Zenon DEF Init
<1>4. {"READ", "WRITE"} \in SUBSET Mode /\ {"READ", "WRITE", "CREATE_NEW"} \in SUBSET Mode
  BY DEF Mode
<1>5. Nothing \in [Name -> File] /\ \A n \in Name : Nothing[n] = NoFile
  BY NoFileFacts DEF Nothing
<1>6. X = {}
  OBVIOUS
<1> HIDE DEF X
<1>7. Vol(Cold, Nothing, X, X) /\ Cold \in Machines /\ ~Cold.mounted /\ Cold.fp = NoFile
  BY <1>6, ColdFacts
<1>8. \A n \in Name : Nothing[n].open /\ Nothing[n].err = "FR_OK" => Nothing[n].fptr <= Nothing[n].fsize
  BY <1>5, NoFileFacts
<1> DEFINE a == With(Nothing, First, w.fp)
<1>9. Vol(w, a, X, X) /\ w \in Machines /\ w.fp \in File
      /\ \A k \in Name : a[k].open /\ a[k].err = "FR_OK" => a[k].fptr <= a[k].fsize
  <2>1. w = f_open(Cold, First, {"READ", "WRITE"})
    BY Zenon DEF Warm
  <2> HIDE DEF w
  <2> DEFINE mode == {"READ", "WRITE"}
  <2> HIDE DEF mode
  <2>2. mode \in SUBSET Mode /\ w = f_open(Cold, First, mode) /\ Nothing[First] = NoFile
    BY <1>1, <1>4, <1>5, <2>1 DEF mode
  <2>3. Vol(f_open(Cold, First, mode), With(Nothing, First, f_open(Cold, First, mode).fp), X, X)
        /\ f_open(Cold, First, mode) \in Machines /\ f_open(Cold, First, mode).fp \in File
        /\ \A k \in Name : With(Nothing, First, f_open(Cold, First, mode).fp)[k].open
                           /\ With(Nothing, First, f_open(Cold, First, mode).fp)[k].err = "FR_OK"
             => With(Nothing, First, f_open(Cold, First, mode).fp)[k].fptr <= With(Nothing, First, f_open(Cold, First, mode).fp)[k].fsize
    BY <1>1, <1>6, <1>7, <1>8, <2>2, OpenMore
  <2> QED BY <2>2, <2>3, Zenon
<1>10. a \in [Name -> File] /\ \A n \in Name : a[n] = IF n = First THEN w.fp ELSE NoFile
  <2> HIDE DEF w
  <2> QED BY <1>1, <1>5, <1>9 DEF With
<1> DEFINE s == [w EXCEPT !.fp = NoFile]
           z == Warmer(w)
           b == With(a, Second, z.fp)
<1>11. Vol(z, b, X, X) /\ z \in Machines /\ z.fp \in File
      /\ \A k \in Name : b[k].open /\ b[k].err = "FR_OK" => b[k].fptr <= b[k].fsize
  <2> HIDE DEF w, a
  <2>0. NoFile \in File
    BY NoFileFacts
  <2>1. /\ s \in Machines /\ s.disk = w.disk /\ s.win = w.win /\ s.winsect = w.winsect /\ s.wflag = w.wflag
        /\ s.mounted = w.mounted /\ s.fp = NoFile
    BY <1>9, <2>0 DEF Machines
  <2>2. z = f_open(s, Second, {"READ", "WRITE", "CREATE_NEW"})
    BY Zenon DEF Warmer
  <2> HIDE DEF s, z
  <2>3. Vol(s, a, X, X)
    BY <1>9, <2>1, SameVol
  <2> DEFINE mode == {"READ", "WRITE", "CREATE_NEW"}
  <2> HIDE DEF mode
  <2>4. mode \in SUBSET Mode /\ z = f_open(s, Second, mode) /\ a[Second] = NoFile
    BY <1>1, <1>4, <1>10, <2>2 DEF mode
  <2>5. Vol(f_open(s, Second, mode), With(a, Second, f_open(s, Second, mode).fp), X, X)
        /\ f_open(s, Second, mode) \in Machines /\ f_open(s, Second, mode).fp \in File
        /\ \A k \in Name : With(a, Second, f_open(s, Second, mode).fp)[k].open
                           /\ With(a, Second, f_open(s, Second, mode).fp)[k].err = "FR_OK"
             => With(a, Second, f_open(s, Second, mode).fp)[k].fptr <= With(a, Second, f_open(s, Second, mode).fp)[k].fsize
    BY <1>1, <1>6, <1>9, <2>1, <2>3, <2>4, OpenMore
  <2> QED BY <2>4, <2>5, Zenon
<1>12. b \in [Name -> File]
       /\ \A n \in Name : b[n] = IF n = Second THEN z.fp ELSE IF n = First THEN w.fp ELSE NoFile
  <2> HIDE DEF w, z, a
  <2> QED BY <1>1, <1>10, <1>11 DEF With
<1> HIDE DEF w, s, z, a, b
<1>13. CASE ~m.mounted
  <2>1. fil = Nothing
    BY <1>2, <1>13 DEF Nothing
  <2>2. Vol(m, Nothing, X, X)
    <3>1. CASE m = Cold
      BY <3>1, <1>7
    <3>2. CASE m = z
      <4>1. \A n \in Name : ~b[n].open
        BY <3>2, <1>11, <1>13, Zenon DEF Vol
      <4>2. b = Nothing
        BY <4>1, <1>12, ClosedFile DEF Nothing
      <4> QED BY <3>2, <1>11, <4>2
    <3> QED BY <1>2, <3>1, <3>2 DEF z
  <2>3. Vol(m, fil, X, X)
    BY <2>1, <2>2
  <2>4. \A n \in Name : fil[n].open /\ fil[n].err = "FR_OK" => fil[n].fptr <= fil[n].fsize
    BY <2>1, <1>8
  <2> QED BY <1>2, <1>3, <1>6, <2>3, <2>4, StartFrom
<1>14. CASE m.mounted
  <2>1. m = z
    BY <1>2, <1>7, <1>14 DEF z
  <2>2. fil = b
    BY <1>1, <1>2, <1>12, <1>14, <2>1
  <2>3. Vol(m, fil, X, X)
    BY <1>11, <2>1, <2>2
  <2>4. \A n \in Name : fil[n].open /\ fil[n].err = "FR_OK" => fil[n].fptr <= fil[n].fsize
    BY <1>11, <2>2
  <2> QED BY <1>2, <1>3, <1>6, <2>3, <2>4, StartFrom
<1> QED BY <1>13, <1>14

-------------------------------------------------------------------------------
(* ChainOf, which the properties use, follows the certificate *)

\* The next cluster of a chain that starts at c, after those of s
Link(F, c, s) == IF s = <<>> THEN c ELSE F[s[Len(s)]]

\* One round of ChainOf.
Follows(F, c, s) == IF Link(F, c, s) \in Cluster THEN Append(s, Link(F, c, s)) ELSE s
\* s is the chain of a up to k clusters
Traced(q, a, s, k) ==
    /\ s \in Seq(Cluster)
    /\ \A i \in 1 .. Len(s) : q.own[s[i]] = a /\ q.idx[s[i]] = i - 1
    /\ Len(s) = k \/ (Len(s) < k /\ Len(s) = q.len[a])

\* It stays on the chain of the certificate.
LEMMA FollowTraced ==
    ASSUME NEW F \in Table, NEW q \in Certificate, Chained(F, q), NEW a \in Name, NEW c \in Cluster,
           q.own[c] = a, q.idx[c] = 0, NEW k \in Nat \ {0}, NEW s, Traced(q, a, s, k - 1)
    PROVE  Traced(q, a, Follows(F, c, s), k)
<1> DEFINE d == Link(F, c, s)
<1>1. /\ s \in Seq(Cluster)
      /\ \A i \in 1 .. Len(s) : q.own[s[i]] = a /\ q.idx[s[i]] = i - 1
      /\ Len(s) = k - 1 \/ (Len(s) < k - 1 /\ Len(s) = q.len[a])
  BY Zenon DEF Traced
<1>2. a # NoName /\ q.len[a] \in Nat /\ \A e \in Cluster : q.idx[e] \in Nat
  <2>1. NoName \notin Name /\ q.len \in [Name -> Nat] /\ q.idx \in [Cluster -> Nat]
    BY FatFsAssumption, Zenon DEF Certificate
  <2> QED BY <2>1
<1>3. \A e \in Cluster : q.own[e] = a =>
          /\ q.idx[e] < q.len[a]
          /\ q.idx[e] + 1 = q.len[a] => F[e] = EndOfChain
          /\ q.idx[e] + 1 # q.len[a] => F[e] \in Cluster /\ q.own[F[e]] = a /\ q.idx[F[e]] = q.idx[e] + 1
  BY <1>2, Zenon DEF Chained
<1>4. EndOfChain \notin Cluster
  BY FatFsAssumption DEF EndOfChain, Cluster, n_fatent
<1>5. (Len(s) = k - 1 /\ d \in Cluster /\ q.own[d] = a /\ q.idx[d] = Len(s)) \/ (d \notin Cluster /\ Len(s) = q.len[a])
  <2>1. CASE s = <<>>
    <3>1. d = c
      BY <2>1, Zenon DEF Link
    <3>2. Len(s) = 0 /\ q.len[a] # 0
      BY <2>1, <1>2, <1>3
    <3> QED BY <3>1, <3>2, <1>1
  <2>2. CASE s # <<>>
    <3> DEFINE e == s[Len(s)]
    <3>1. d = F[e]
      BY <2>2, Zenon DEF Link
    <3>2. Len(s) \in 1 .. Len(s) /\ Len(s) \in Nat /\ e \in Cluster
      BY <2>2, <1>1
    <3>3. q.own[e] = a /\ q.idx[e] = Len(s) - 1
      BY <1>1, <3>2
    <3> HIDE DEF e, d
    <3>4. CASE Len(s) = q.len[a]
      <4>1. F[e] = EndOfChain
        BY <1>2, <1>3, <3>2, <3>3, <3>4
      <4> QED BY <1>4, <3>1, <3>4, <4>1
    <3>5. CASE Len(s) # q.len[a]
      <4>1. F[e] \in Cluster /\ q.own[F[e]] = a /\ q.idx[F[e]] = q.idx[e] + 1
        BY <1>2, <1>3, <3>2, <3>3, <3>5
      <4>2. Len(s) = k - 1
        BY <1>1, <3>5
      <4> QED BY <3>1, <3>2, <3>3, <4>1, <4>2
    <3> QED BY <3>4, <3>5
  <2> QED BY <2>1, <2>2
<1>6. CASE Len(s) = k - 1 /\ d \in Cluster /\ q.own[d] = a /\ q.idx[d] = Len(s)
  <2> DEFINE t == Append(s, d)
  <2>1. Follows(F, c, s) = t
    BY <1>6, Zenon DEF Follows
  <2> HIDE DEF d
  <2>2. t \in Seq(Cluster) /\ Len(t) = Len(s) + 1 /\ Len(s) \in Nat
        /\ \A i \in 1 .. Len(t) : t[i] = IF i = Len(s) + 1 THEN d ELSE s[i]
    BY <1>1, <1>6
  <2> HIDE DEF t
  <2>3. \A i \in 1 .. Len(t) : q.own[t[i]] = a /\ q.idx[t[i]] = i - 1
    <3> SUFFICES ASSUME NEW i \in 1 .. Len(t) PROVE q.own[t[i]] = a /\ q.idx[t[i]] = i - 1
      OBVIOUS
    <3>1. CASE i = Len(s) + 1
      BY <3>1, <2>2, <1>6
    <3>2. CASE i # Len(s) + 1
      <4>1. i \in 1 .. Len(s) /\ t[i] = s[i]
        BY <3>2, <2>2
      <4> QED BY <4>1, <1>1
    <3> QED BY <3>1, <3>2
  <2>4. Len(t) = k
    BY <2>2, <1>6
  <2> QED BY <2>1, <2>2, <2>3, <2>4, Zenon DEF Traced
<1>7. CASE d \notin Cluster /\ Len(s) = q.len[a]
  <2>1. Follows(F, c, s) = s
    BY <1>7, Zenon DEF Follows
  <2>2. Len(s) < k /\ Len(s) = q.len[a]
    BY <1>1, <1>7
  <2> QED BY <1>1, <2>1, <2>2, Zenon DEF Traced
<1> QED BY <1>5, <1>6, <1>7

\* So does all of ChainOf.
LEMMA ChainTraced ==
    ASSUME NEW F \in Table, NEW q \in Certificate, Chained(F, q), NEW x \in Name, NEW c \in Cluster,
           q.own[c] = x, q.idx[c] = 0, NEW n \in Nat
    PROVE  Traced(q, x, ChainOf(F, c, n), n)
<1> DEFINE h == <<>>
           S == [k \in 0 .. n |-> {s \in Seq(Cluster) : Traced(q, x, s, k)}]
<1>1. n \in Nat
  OBVIOUS
<1>2. \A k \in 0 .. n : S[k] = {s \in Seq(Cluster) : Traced(q, x, s, k)}
  OBVIOUS
<1>3. h \in Seq(Cluster) /\ Len(h) = 0
  OBVIOUS
<1> HIDE DEF S, h
<1>4. Traced(q, x, h, 0)
  BY <1>3 DEF Traced
<1>5. h \in S[0]
  <2>1. 0 \in 0 .. n
    BY <1>1
  <2> QED BY <1>2, <1>3, <1>4, <2>1, Zenon
<1>6. \A k \in 1 .. n : \A w \in S[k - 1] : Follows(F, c, w) \in S[k]
  <2> SUFFICES ASSUME NEW k \in 1 .. n, NEW w \in S[k - 1] PROVE Follows(F, c, w) \in S[k]
    OBVIOUS
  <2>1. k - 1 \in 0 .. n /\ k \in 0 .. n /\ k \in Nat \ {0}
    OBVIOUS
  <2>2. Traced(q, x, w, k - 1)
    BY <1>2, <2>1
  <2>3. Traced(q, x, Follows(F, c, w), k)
    BY <2>1, <2>2, FollowTraced
  <2>4. Follows(F, c, w) \in Seq(Cluster)
    BY <2>3, Zenon DEF Traced
  <2> QED BY <1>2, <2>1, <2>3, <2>4
<1>7. \A k \in 0 .. n : S[k] \subseteq Seq(Cluster)
  BY <1>2
<1> DEFINE g == [p \in Seq(Cluster) \X (1 .. n) |-> Follows(F, c, p[1])]
<1>8. \A k \in 1 .. n : \A w \in Seq(Cluster) : g[<<w, k>>] = Follows(F, c, w)
  OBVIOUS
<1> HIDE DEF g
<1>9. \E r : RunOf(n, S, h, g, r)
  <2>1. Steady(n, S, g)
    <3>1. \A k \in 1 .. n : \A w \in S[k - 1] : w \in Seq(Cluster)
      BY <1>1, <1>7
    <3> QED BY <3>1, <1>6, <1>8, Zenon DEF Steady
  <2> QED BY <1>1, <1>5, <2>1, RunExists
<1> DEFINE R == CHOOSE R : R = [k \in 0 .. n |-> IF k = 0 THEN h ELSE Follows(F, c, R[k - 1])]
<1>10. R = [k \in 0 .. n |-> IF k = 0 THEN h ELSE Follows(F, c, R[k - 1])]
  <2>1. PICK r : RunOf(n, S, h, g, r)
    BY <1>9, Zenon
  <2>2. \A k \in 0 .. n : k # 0 => g[<<r[k - 1], k>>] = Follows(F, c, r[k - 1])
    <3> TAKE k \in 0 .. n
    <3>1. k # 0 => k \in 1 .. n /\ k - 1 \in 0 .. n
      BY <1>1
    <3> QED BY <2>1, <3>1, <1>7, <1>8, Zenon DEF RunOf
  <2>3. r = [k \in 0 .. n |-> IF k = 0 THEN h ELSE Follows(F, c, r[k - 1])]
    <3> DEFINE a == [k \in 0 .. n |-> IF k = 0 THEN h ELSE g[<<r[k - 1], k>>]]
               b == [k \in 0 .. n |-> IF k = 0 THEN h ELSE Follows(F, c, r[k - 1])]
    <3>1. \A k \in 0 .. n : a[k] = b[k]
      BY <2>2
    <3>2. a = b
      BY <3>1
    <3>3. r = a
      BY <2>1, Zenon DEF RunOf
    <3> QED BY <3>2, <3>3, Zenon
  <2> QED BY <2>3, Zenon
<1>11. ChainOf(F, c, n) = R[n]
  BY Zenon DEF ChainOf, Loop, R, Follows, Link, h
<1> HIDE DEF R
<1>12. \A k \in 0 .. n : R[k] \in S[k]
  <2>1. R[0] = h /\ \A k \in 1 .. n : R[k] = Follows(F, c, R[k - 1])
    BY <1>1, <1>10
  <2>2. R[0] \in S[0]
    BY <2>1, <1>5
  <2>3. \A k \in 1 .. n : R[k - 1] \in S[k - 1] => R[k] \in S[k]
    BY <2>1, <1>6, Zenon
  <2> QED BY <1>1, <2>2, <2>3, RunInduct
<1>13. ChainOf(F, c, n) \in S[n]
  <2>1. n \in 0 .. n
    BY <1>1
  <2> QED BY <1>11, <1>12, <2>1, Zenon
<1>14. n \in 0 .. n
  OBVIOUS
<1> QED BY <1>2, <1>13, <1>14

\* A file without a first cluster has no chain.
LEMMA ChainNone ==
    ASSUME NEW F, NEW c, c \notin Cluster, NEW n \in Nat
    PROVE  ChainOf(F, c, n) = <<>>
<1> DEFINE h == <<>>
           S == [k \in 0 .. n |-> {h}]
<1>1. n \in Nat
  OBVIOUS
<1>2. \A k \in 0 .. n : S[k] = {h}
  OBVIOUS
<1>3. h \in Seq(Cluster)
  OBVIOUS
<1>4. Follows(F, c, h) = h
  BY Zenon DEF Follows, Link
<1> HIDE DEF S, h
<1>5. h \in S[0]
  BY <1>1, <1>2
<1>6. \A k \in 1 .. n : \A w \in S[k - 1] : Follows(F, c, w) \in S[k]
  <2> SUFFICES ASSUME NEW k \in 1 .. n, NEW w \in S[k - 1] PROVE Follows(F, c, w) \in S[k]
    OBVIOUS
  <2>1. k - 1 \in 0 .. n /\ k \in 0 .. n
    OBVIOUS
  <2> QED BY <1>2, <1>4, <2>1
<1>7. \A k \in 0 .. n : S[k] \subseteq Seq(Cluster)
  BY <1>2, <1>3
<1> DEFINE g == [p \in Seq(Cluster) \X (1 .. n) |-> Follows(F, c, p[1])]
<1>8. \A k \in 1 .. n : \A w \in Seq(Cluster) : g[<<w, k>>] = Follows(F, c, w)
  OBVIOUS
<1> HIDE DEF g
<1>9. \E r : RunOf(n, S, h, g, r)
  <2>1. Steady(n, S, g)
    <3>1. \A k \in 1 .. n : \A w \in S[k - 1] : w \in Seq(Cluster)
      BY <1>1, <1>7
    <3> QED BY <3>1, <1>6, <1>8, Zenon DEF Steady
  <2> QED BY <1>1, <1>5, <2>1, RunExists
<1> DEFINE R == CHOOSE R : R = [k \in 0 .. n |-> IF k = 0 THEN h ELSE Follows(F, c, R[k - 1])]
<1>10. R = [k \in 0 .. n |-> IF k = 0 THEN h ELSE Follows(F, c, R[k - 1])]
  <2>1. PICK r : RunOf(n, S, h, g, r)
    BY <1>9, Zenon
  <2>2. \A k \in 0 .. n : k # 0 => g[<<r[k - 1], k>>] = Follows(F, c, r[k - 1])
    <3> TAKE k \in 0 .. n
    <3>1. k # 0 => k \in 1 .. n /\ k - 1 \in 0 .. n
      BY <1>1
    <3> QED BY <2>1, <3>1, <1>7, <1>8, Zenon DEF RunOf
  <2>3. r = [k \in 0 .. n |-> IF k = 0 THEN h ELSE Follows(F, c, r[k - 1])]
    <3> DEFINE a == [k \in 0 .. n |-> IF k = 0 THEN h ELSE g[<<r[k - 1], k>>]]
               b == [k \in 0 .. n |-> IF k = 0 THEN h ELSE Follows(F, c, r[k - 1])]
    <3>1. \A k \in 0 .. n : a[k] = b[k]
      BY <2>2
    <3>2. a = b
      BY <3>1
    <3>3. r = a
      BY <2>1, Zenon DEF RunOf
    <3> QED BY <3>2, <3>3, Zenon
  <2> QED BY <2>3, Zenon
<1>11. ChainOf(F, c, n) = R[n]
  BY Zenon DEF ChainOf, Loop, R, Follows, Link, h
<1> HIDE DEF R
<1>12. \A k \in 0 .. n : R[k] \in S[k]
  <2>1. R[0] = h /\ \A k \in 1 .. n : R[k] = Follows(F, c, R[k - 1])
    BY <1>1, <1>10
  <2>2. R[0] \in S[0]
    BY <2>1, <1>5
  <2>3. \A k \in 1 .. n : R[k - 1] \in S[k - 1] => R[k] \in S[k]
    BY <2>1, <1>6, Zenon
  <2> QED BY <1>1, <2>2, <2>3, RunInduct
<1>13. ChainOf(F, c, n) \in S[n]
  <2>1. n \in 0 .. n
    BY <1>1
  <2> QED BY <1>11, <1>12, <2>1, Zenon
<1>14. n \in 0 .. n
  OBVIOUS
<1> QED BY <1>2, <1>13, <1>14 DEF h

\* The volume as a call would find it.
ThisVolume == Machine(fs, disk, NoFile, Healthy)

\* Its parts.
LEMMA ThisFacts ==
    ASSUME Coherent
    PROVE  /\ ThisVolume \in Machines /\ ThisVolume.disk = disk /\ ThisVolume.win = fs.win
           /\ ThisVolume.winsect = fs.winsect /\ ThisVolume.wflag = fs.wflag /\ ThisVolume.mounted = fs.mounted
           /\ Vol(ThisVolume, fil, loose, twins) /\ Sound(ThisVolume)
<1>1. disk \in Medium /\ fs \in Object /\ Vol(ThisVolume, fil, loose, twins)
  BY Zenon DEF Coherent, ThisVolume
<1>2. MachineOf(ThisVolume, fs, disk, NoFile)
  BY <1>1, MachineType, HealthyFacts, NoFileFacts DEF ThisVolume
<1>3. Sound(ThisVolume)
  <2>1. CASE ThisVolume.mounted
    <3> DEFINE X == {}
    <3>1. \E q : InOrder(ThisVolume, fil, loose, twins, X, q)
      BY <1>1, <2>1, Zenon DEF Vol
    <3> QED BY <3>1, Zenon DEF InOrder
  <2>2. CASE ~ThisVolume.mounted
    BY <1>1, <2>2, Zenon DEF Vol
  <2> QED BY <2>1, <2>2
<1> QED BY <1>1, <1>2, <1>3, Zenon DEF MachineOf

\* Dirty buffers belong to the data region.
LEMMA BuffersHigh ==
    ASSUME Coherent
    PROVE  /\ fil \in [Name -> File]
           /\ \A n \in Name : fil[n].open /\ fil[n].dirty => fil[n].dsect >= database
<1> DEFINE m == ThisVolume
<1>1. Vol(m, fil, loose, twins)
  BY ThisFacts
<1> HIDE DEF m
<1>2. CASE m.mounted
  <2> DEFINE X == {}
  <2>1. \E q : InOrder(m, fil, loose, twins, X, q)
    BY <1>1, <1>2, Zenon DEF Vol
  <2> HIDE DEF X
  <2>2. PICK q : InOrder(m, fil, loose, twins, X, q)
    BY <2>1
  <2> DEFINE F == Fat(Seen(m))
             D == Dir(Seen(m))
  <2>3. Holds(F, D, fil, loose, twins, X, q)
    BY <2>2, InOrderFacts
  <2> HIDE DEF F, D
  <2>4. Filed(D, fil, loose) /\ fil \in [Name -> File]
    BY <2>3, HoldsParts
  <2>5. \A n \in Name : fil[n].open /\ fil[n].dirty => fil[n].dsect >= database
    BY <2>4, Zenon DEF Filed, FiledAt, BufOK
  <2> QED BY <2>4, <2>5
<1>3. CASE ~m.mounted
  BY <1>1, <1>3, Zenon DEF Vol
<1> QED BY <1>2, <1>3

\* Below the data area the calls see what the window of the volume and the medium hold
LEMMA CachedLow ==
    ASSUME Coherent, NEW x \in 0 .. database - 1
    PROVE  Cached(disk, fs, fil, dropped)[x] = Seen(ThisVolume)[x]
<1> DEFINE m == ThisVolume
           holders == {n \in Name : fil[n].open /\ fil[n].dirty /\ fil[n].dsect = x /\ n \notin dropped}
<1>1. x \in Sector
  BY SectorFacts
<1>2. holders = {}
  <2> SUFFICES ASSUME NEW n \in holders PROVE FALSE
    OBVIOUS
  <2>1. fil[n].dsect >= database /\ fil[n].dsect = x
    BY BuffersHigh
  <2> QED BY <2>1, LayoutFacts
<1>3. Cached(disk, fs, fil, dropped)[x] = IF fs.wflag /\ fs.winsect = x THEN fs.win
                                          ELSE IF holders # {} THEN fil[CHOOSE n \in holders : TRUE].buf
                                          ELSE disk[x]
  BY <1>1, Zenon DEF Cached
<1> HIDE DEF holders
<1>4. Cached(disk, fs, fil, dropped)[x] = IF fs.wflag /\ fs.winsect = x THEN fs.win ELSE disk[x]
  BY <1>2, <1>3, Zenon
<1>5. Seen(m)[x] = IF m.wflag /\ m.winsect = x THEN m.win ELSE m.disk[x]
  BY <1>1, Zenon DEF Seen
<1> QED BY <1>4, <1>5, ThisFacts, Zenon

\* Flushing them changes data sectors only.
LEMMA CachedData ==
    ASSUME Coherent, NEW x \in Sector, x >= database
    PROVE  Cached(disk, fs, fil, dropped)[x] \in DataSector
<1> DEFINE m == ThisVolume
           holders == {n \in Name : fil[n].open /\ fil[n].dirty /\ fil[n].dsect = x /\ n \notin dropped}
<1>1. ~(fs.wflag /\ fs.winsect = x)
  <2>1. Windowed(m)
    BY ThisFacts, Zenon DEF Sound
  <2>2. fs.wflag => fs.winsect \in fatbase .. database - 1
    BY <2>1, ThisFacts, Zenon DEF Windowed
  <2>3. ASSUME fs.winsect \in fatbase .. database - 1 PROVE fs.winsect # x
    BY <2>3, LayoutFacts, SectorFacts
  <2> QED BY <2>2, <2>3, Zenon
<1>2. Cached(disk, fs, fil, dropped)[x] = IF fs.wflag /\ fs.winsect = x THEN fs.win
                                          ELSE IF holders # {} THEN fil[CHOOSE n \in holders : TRUE].buf
                                          ELSE disk[x]
  BY Zenon DEF Cached
<1>3. holders # {} => fil[CHOOSE n \in holders : TRUE].buf \in DataSector
  <2> SUFFICES ASSUME holders # {} PROVE fil[CHOOSE n \in holders : TRUE].buf \in DataSector
    OBVIOUS
  <2> DEFINE k == CHOOSE n \in holders : TRUE
  <2>1. k \in holders
    BY Zenon
  <2> HIDE DEF k
  <2>2. k \in Name /\ fil[k].open /\ fil[k] \in File
    BY <2>1, BuffersHigh
  <2>3. fil[k].buf \in DataSector
    BY <2>2, OpenFacts, NoFileFacts DEF File
  <2> QED BY <2>3 DEF k
<1>4. disk[x] \in DataSector
  <2>1. m \in Machines /\ m.disk = disk
    BY ThisFacts
  <2> QED BY <2>1, MachineFacts
<1> HIDE DEF holders
<1> QED BY <1>1, <1>2, <1>3, <1>4, Zenon

\* FAT and directory are as seen.
LEMMA CachedTables ==
    ASSUME Coherent
    PROVE  /\ Fat(Cached(disk, fs, fil, dropped)) = Fat(Seen(ThisVolume))
           /\ \A i \in 0 .. NRootDir - 1 : Slot(Cached(disk, fs, fil, dropped), i) = Dir(Seen(ThisVolume))[i]
<1> DEFINE C == Cached(disk, fs, fil, dropped)
           G == Seen(ThisVolume)
<1>1. \A x \in 0 .. database - 1 : C[x] = G[x]
  BY CachedLow
<1> HIDE DEF C, G
<1>2. \A c \in Cluster : FatSect(c) \in 0 .. database - 1
  <2>1. \A c \in Cluster : c \in 0 .. n_fatent - 1
    BY DEF Cluster
  <2>2. \A c \in 0 .. n_fatent - 1 : FatSect(c) \in fatbase .. dirbase - 1
    BY LayoutFacts
  <2>3. \A y \in fatbase .. dirbase - 1 : y \in 0 .. database - 1
    BY LayoutFacts
  <2> QED BY <2>1, <2>2, <2>3
<1>3. \A i \in 0 .. NRootDir - 1 : DirSect(i) \in 0 .. database - 1
  BY LayoutFacts
<1>4. Fat(C) = Fat(G)
  <2>1. \A c \in Cluster : C[FatSect(c)][c % PerFat] = G[FatSect(c)][c % PerFat]
    BY <1>1, <1>2, Zenon
  <2> QED BY <2>1, Zenon DEF Fat
<1>5. \A i \in 0 .. NRootDir - 1 : Slot(C, i) = Dir(G)[i]
  BY <1>1, <1>3, Zenon DEF Slot, Dir
<1> QED BY <1>4, <1>5 DEF C, G

\* A search finds the entry of the name, or there is none
LEMMA SlotFound ==
    ASSUME NEW C, NEW D \in Folder, DirOK(D), \A i \in 0 .. NRootDir - 1 : Slot(C, i) = D[i], NEW n \in Name
    PROVE  LET i == SlotOf(C, n) IN
           \/ i = -1 /\ Entry(D, n) = Blank(FALSE)
           \/ i \in 0 .. NRootDir - 1 /\ i # -1 /\ Entry(D, n) = D[i]
<1> DEFINE N == 0 .. NRootDir - 1
           seen == {i \in N : \A j \in 0 .. i : ~Slot(C, j).end}
           hits == {i \in seen : Slot(C, i).name = n}
<1>1. n # NoName /\ \A i \in N : \A j \in 0 .. i : j \in N
  BY FatFsAssumption
<1>2. \A i \in N : D[i].name = n => \A j \in 0 .. i : ~D[j].end
  <2> SUFFICES ASSUME NEW i \in N, D[i].name = n, NEW j \in 0 .. i, D[j].end PROVE FALSE
    OBVIOUS
  <2>1. j \in N /\ j <= i
    BY FatFsAssumption
  <2>2. D[i].name = NoName
    BY <2>1 DEF DirOK
  <2> QED BY <1>1, <2>2
<1> HIDE DEF N
<1>3. \A i : i \in hits <=> i \in N /\ D[i].name = n
  <2>1. \A i \in N : Slot(C, i) = D[i]
    BY Zenon DEF N
  <2>2. \A i \in N : D[i].name = n => \A j \in 0 .. i : ~Slot(C, j).end
    BY <1>1, <1>2, <2>1, Zenon
  <2> QED BY <2>1, <2>2, Zenon
<1>4. SlotOf(C, n) = IF hits = {} THEN -1 ELSE CHOOSE i \in hits : \A j \in hits : i <= j
  BY Zenon DEF SlotOf, N
<1> HIDE DEF seen, hits
<1>5. \A i, j \in hits : i = j
  BY <1>1, <1>3 DEF DirOK, N
<1>6. CASE hits = {}
  <2>1. \A i \in N : D[i].name # n
    BY <1>3, <1>6
  <2> QED BY <1>4, <1>6, <2>1, EntryType DEF N
<1>7. CASE hits # {}
  <2>1. PICK i \in hits : TRUE
    BY <1>7
  <2>2. hits \subseteq Int
    BY <1>3 DEF N
  <2>3. i \in hits /\ \A j \in hits : i <= j
    BY <2>1, <2>2, <1>5
  <2> DEFINE k == CHOOSE a \in hits : \A j \in hits : a <= j
  <2>4. k \in hits
    BY <2>3, Zenon
  <2> HIDE DEF k
  <2>5. SlotOf(C, n) = k
    BY <1>4, <1>7 DEF k
  <2>6. k \in N /\ D[k].name = n
    BY <1>3, <2>4
  <2>7. Entry(D, n) = D[k]
    BY <2>6, EntryType DEF N
  <2>8. k # -1
    BY <2>6 DEF N
  <2> QED BY <2>5, <2>6, <2>7, <2>8, Zenon DEF N
<1> QED BY <1>6, <1>7

-------------------------------------------------------------------------------
(* TypeOK and ChainsDisjoint follow from Coherent *)

\* The chain of a file and what it holds

\* The chain of a name is the certificate's, long enough, without a cluster twice.
LEMMA ChainFacts ==
    ASSUME NEW F \in Table, NEW q \in Certificate, Chained(F, q), NEW n \in Name,
           NEW root, NEW size \in Nat, RootedAt(q, n, root, size), NEW k \in Nat
    PROVE  LET s == ChainOf(F, root, k) IN
           /\ s \in Seq(Cluster) /\ \A i \in 1 .. Len(s) : q.own[s[i]] = q.al[n] /\ q.idx[s[i]] = i - 1
           /\ k = Needed(size) => Len(s) >= Needed(size)
<1> DEFINE s == ChainOf(F, root, k)
<1>1. Needed(size) \in Nat /\ (\A j \in Nat : size <= j * Bytes => Needed(size) <= j)
  BY NeededFacts
<1>2. CASE root = 0 /\ size = 0
  <2>1. root \notin Cluster
    BY <1>2 DEF Cluster
  <2>2. s = <<>>
    BY <2>1, ChainNone
  <2> HIDE DEF s
  <2>3. Needed(size) <= 0
    <3>1. 0 \in Nat /\ size <= 0 * Bytes
      BY <1>2, BytesNat
    <3> QED BY <1>1, <3>1
  <2> QED BY <1>1, <2>2, <2>3 DEF s
<1>3. CASE root \in Cluster /\ q.own[root] = q.al[n] /\ q.idx[root] = 0 /\ size <= q.len[q.al[n]] * Bytes
  <2> DEFINE a == q.al[n]
  <2>1. a \in Name /\ q.len[a] \in Nat
    BY DEF Certificate
  <2>2. Traced(q, a, s, k)
    BY <1>3, <2>1, ChainTraced
  <2>3. /\ s \in Seq(Cluster) /\ \A i \in 1 .. Len(s) : q.own[s[i]] = a /\ q.idx[s[i]] = i - 1
        /\ Len(s) = k \/ (Len(s) < k /\ Len(s) = q.len[a])
    BY <2>2, Zenon DEF Traced
  <2>4. Needed(size) <= q.len[a]
    BY <1>1, <1>3, <2>1
  <2> HIDE DEF s, a
  <2>5. k = Needed(size) => Len(s) >= Needed(size)
    BY <1>1, <2>1, <2>3, <2>4
  <2> QED BY <2>3, <2>5 DEF s, a
<1> QED BY <1>2, <1>3, Zenon DEF RootedAt

\* Every file has the clusters its size needs
LEMMA NotBroken ==
    ASSUME NEW C, Fat(C) \in Table, \A x \in Sector : x >= database => C[x] \in DataSector,
           NEW q \in Certificate, Chained(Fat(C), q), NEW n \in Name,
           NEW root, NEW size \in Nat, RootedAt(q, n, root, size)
    PROVE  Contents(C, root, size) # Broken
<1> DEFINE k == Needed(size)
           s == ChainOf(Fat(C), root, k)
           t == Units(C, s, size)
<1>1. k \in Nat /\ (k = 0 => size = 0)
  BY NeededFacts
<1>2. s \in Seq(Cluster) /\ Len(s) >= k
  <2> DEFINE F == Fat(C)
  <2>1. F \in Table /\ Chained(F, q)
    OBVIOUS
  <2> HIDE DEF k, F
  <2>2. LET s1 == ChainOf(F, root, k) IN
        /\ s1 \in Seq(Cluster) /\ \A i \in 1 .. Len(s1) : q.own[s1[i]] = q.al[n] /\ q.idx[s1[i]] = i - 1
        /\ k = Needed(size) => Len(s1) >= Needed(size)
    BY <1>1, <2>1, ChainFacts
  <2>3. k = Needed(size)
    BY DEF k
  <2>4. s \in Seq(Cluster) /\ (k = Needed(size) => Len(s) >= Needed(size))
    BY <2>2, Zenon DEF F
  <2> HIDE DEF s
  <2> QED BY <2>3, <2>4
<1>3. Contents(C, root, size) = IF Len(s) < k THEN Broken ELSE t
  BY Zenon DEF Contents
<1> HIDE DEF k, s
<1>4. ~(Len(s) < k)
  BY <1>1, <1>2
<1>5. t # Broken
  <2> SUFFICES ASSUME t = Broken PROVE FALSE
    OBVIOUS
  <2> DEFINE g(u) == C[clust2sect(s[(((u - 1) \div SS) \div CSize) + 1]) + (((u - 1) \div SS) % CSize)][(u - 1) % SS]
  <2>1. t = [u \in 1 .. size |-> g(u)]
    BY Zenon DEF Units
  <2>2. DOMAIN Broken = 1 .. 1 /\ Broken[1] = -2
    BY DEF Broken
  <2> HIDE DEF t, g
  <2>3. 1 .. size = 1 .. 1
    BY <2>1, <2>2
  <2>4. size = 1
    BY <2>3
  <2>5. g(1) = -2
    BY <2>1, <2>2, <2>4
  <2>6. ((1 - 1) \div SS) = 0 /\ 0 \div CSize = 0 /\ 0 % CSize = 0 /\ (1 - 1) % SS = 0
    BY FatFsAssumption
  <2>7. g(1) = C[clust2sect(s[1]) + 0][0]
    <3>1. g(1) = C[clust2sect(s[(((1 - 1) \div SS) \div CSize) + 1]) + (((1 - 1) \div SS) % CSize)][(1 - 1) % SS]
      BY Zenon DEF g
    <3>2. g(1) = C[clust2sect(s[(0 \div CSize) + 1]) + (0 % CSize)][0]
      BY <3>1, <2>6, Zenon
    <3>3. g(1) = C[clust2sect(s[0 + 1]) + 0][0]
      BY <3>2, <2>6, Zenon
    <3> QED BY <3>3
  <2>8. s[1] \in Cluster
    BY <1>1, <1>2, <2>4
  <2> DEFINE x == clust2sect(s[1]) + 0
  <2>9. x \in Sector /\ x >= database
    <3>1. 0 \in 0 .. CSize - 1
      BY FatFsAssumption
    <3> QED BY <2>8, <3>1, ClusterSector
  <2> HIDE DEF x
  <2>10. C[x] \in DataSector
    BY <2>9
  <2>11. C[x][0] \in Nat
    BY <2>10, FatFsAssumption DEF DataSector
  <2>12. C[x][0] = -2
    BY <2>5, <2>7 DEF x
  <2> QED BY <2>11, <2>12
<1> QED BY <1>3, <1>4, <1>5

\* TypeOK follows.
LEMMA CoherentType == Coherent => TypeOK
<1> SUFFICES ASSUME Coherent PROVE TypeOK
  OBVIOUS
<1> DEFINE m == ThisVolume
<1>1. m \in Machines /\ m.disk = disk /\ m.winsect = fs.winsect /\ m.wflag = fs.wflag /\ Windowed(m)
  BY ThisFacts, Zenon DEF Sound
<1>2. \A x \in Sector : DOMAIN disk[x] \in {0 .. (SS - 1), 0 .. (PerFat - 1), 0 .. (PerDir - 1)}
  <2> SUFFICES ASSUME NEW x \in Sector
               PROVE  DOMAIN disk[x] \in {0 .. (SS - 1), 0 .. (PerFat - 1), 0 .. (PerDir - 1)}
    OBVIOUS
  <2>1. disk[x] \in SectorOf(x)
    BY Zenon DEF Coherent, Medium
  <2>2. disk[x] \in DataSector \/ disk[x] \in FatSector \/ disk[x] \in DirSector
    BY <2>1, Zenon DEF SectorOf
  <2> QED BY <2>2 DEF DataSector, FatSector, DirSector
<1> HIDE DEF m
<1>3. fs.winsect \in Sector \union {Unknown}
  <2>1. fs.winsect \in 0 .. database - 1 \union {Unknown}
    BY <1>1, Zenon DEF Windowed
  <2> QED BY <2>1, SectorFacts
<1>4. fs.wflag => fs.winsect \in fatbase .. (database - 1)
  BY <1>1, Zenon DEF Windowed
<1>5. ASSUME NEW n \in Name, fil[n].open
      PROVE  /\ fil[n].err = "FR_OK" => fil[n].fptr <= fil[n].fsize
             /\ fil[n].dirty => fil[n].dsect \in database .. (database + NClust * CSize - 1)
  <2>1. fil[n].err = "FR_OK" => fil[n].fptr <= fil[n].fsize
    BY <1>5, Zenon DEF Coherent
  <2>2. fil[n] \in File
    BY BuffersHigh
  <2>3. fil[n].dsect \in Sector
    BY <1>5, <2>2, OpenFacts, NoFileFacts DEF File
  <2>4. fil[n].dirty => fil[n].dsect >= database
    BY <1>5, BuffersHigh
  <2> DEFINE d == fil[n].dsect
  <2> HIDE DEF d
  <2>5. d \in 0 .. (database + NClust * CSize - 1)
    BY <2>3 DEF d, Sector
  <2>6. d >= database => d \in database .. (database + NClust * CSize - 1)
    BY <2>5, LayoutFacts
  <2> QED BY <2>1, <2>4, <2>6, Zenon DEF d
<1> QED BY <1>2, <1>3, <1>4, <1>5, Zenon DEF TypeOK

\* On a mounted volume: the start and the size of each file are those the proof follows
LEMMA FileStart ==
    ASSUME Coherent, NEW n \in Name, Dir(Seen(ThisVolume)) \in Folder, DirOK(Dir(Seen(ThisVolume)))
    PROVE  LET C == Cached(disk, fs, fil, dropped)
               D == Dir(Seen(ThisVolume))
               i == SlotOf(C, n) IN
           /\ Root(D, fil)[n] = IF fil[n].open THEN fil[n].sclust ELSE IF i = -1 THEN 0 ELSE Slot(C, i).clust
           /\ ~fil[n].open /\ i # -1 => Size(D, fil)[n] = Slot(C, i).size
           /\ fil[n].open => Size(D, fil)[n] = fil[n].fsize
<1> DEFINE C == Cached(disk, fs, fil, dropped)
           D == Dir(Seen(ThisVolume))
           i == SlotOf(C, n)
<1>1. \A j \in 0 .. NRootDir - 1 : Slot(C, j) = D[j]
  BY CachedTables
<1>2. D \in Folder /\ DirOK(D) /\ fil \in [Name -> File]
  BY BuffersHigh
<1> HIDE DEF C, D
<1>3. \/ i = -1 /\ Entry(D, n) = Blank(FALSE)
      \/ i \in 0 .. NRootDir - 1 /\ i # -1 /\ Entry(D, n) = D[i]
  BY <1>1, <1>2, SlotFound
<1> HIDE DEF i
<1>4. \/ i = -1 /\ Entry(D, n).clust = 0
      \/ i # -1 /\ Entry(D, n) = Slot(C, i)
  BY <1>1, <1>3 DEF Blank
<1>5. /\ ~fil[n].open => Root(D, fil)[n] = Entry(D, n).clust /\ Size(D, fil)[n] = Entry(D, n).size
      /\ fil[n].open => Root(D, fil)[n] = fil[n].sclust /\ Size(D, fil)[n] = fil[n].fsize
  BY <1>2, RootType
<1>6. Root(D, fil)[n] = IF fil[n].open THEN fil[n].sclust ELSE IF i = -1 THEN 0 ELSE Slot(C, i).clust
  BY <1>4, <1>5, Zenon
<1>7. ~fil[n].open /\ i # -1 => Size(D, fil)[n] = Slot(C, i).size
  BY <1>4, <1>5, Zenon
<1> QED BY <1>5, <1>6, <1>7 DEF C, D, i

\* ChainsDisjoint follows: the clusters of two chains have two owners.
LEMMA CoherentDisjoint == Coherent => ChainsDisjoint
<1> SUFFICES ASSUME Coherent PROVE ChainsDisjoint
  OBVIOUS
<1> DEFINE chain == Chains
           C == Cached(disk, fs, fil, dropped)
           F == Fat(Seen(ThisVolume))
           D == Dir(Seen(ThisVolume))
           R == Root(D, fil)
           Z == Size(D, fil)
           X == {}
           N == NClust + 1
<1>1. TypeOK
  BY CoherentType
<1>2. ASSUME fs.mounted
      PROVE  /\ \A n \in Name : IsInjective(chain[n])
             /\ \A n, k \in Name : n # k /\ {n, k} \notin twins => Range(chain[n]) \cap Range(chain[k]) = {}
             /\ \A n \in Name : content[n] # Broken
  <2>1. \E q : InOrder(ThisVolume, fil, loose, twins, X, q)
    BY <1>2, ThisFacts, Zenon DEF Vol
  <2>2. Fat(C) = F
    BY CachedTables
  <2>3. \A x \in Sector : x >= database => C[x] \in DataSector
    BY CachedData
  <2> HIDE DEF X
  <2>4. PICK q : InOrder(ThisVolume, fil, loose, twins, X, q)
    BY <2>1
  <2>5. Holds(F, D, fil, loose, twins, X, q)
    BY <2>4, InOrderFacts
  <2> HIDE DEF F
  <2>6. /\ F \in Table /\ D \in Folder /\ fil \in [Name -> File] /\ q \in Certificate
        /\ DirOK(D) /\ Chained(F, q) /\ Apart(q, R, twins)
        /\ \A k \in Name : RootedAt(q, k, R[k], Z[k])
    <3> HIDE DEF D
    <3> QED BY <2>5, HoldsParts DEF R, Z
  <2>7. \A n \in Name : R[n] = IF fil[n].open THEN fil[n].sclust
                               ELSE IF SlotOf(C, n) = -1 THEN 0 ELSE Slot(C, SlotOf(C, n)).clust
    BY <2>6, FileStart
  <2>8. \A n \in Name : /\ ~fil[n].open /\ SlotOf(C, n) # -1 => Z[n] = Slot(C, SlotOf(C, n)).size
                        /\ fil[n].open => Z[n] = fil[n].fsize
    BY <2>6, FileStart
  <2>9. \A n \in Name : Z[n] \in Nat
    <3> HIDE DEF D
    <3>1. Z \in [Name -> Nat]
      BY <2>6, RootType
    <3> QED BY <3>1
  <2>10. N \in Nat
    BY FatFsAssumption
  <2>11. \A n \in Name : chain[n] = ChainOf(Fat(C), R[n], N)
    BY <2>7, Zenon DEF Chains
  <2> HIDE DEF C, D, R, Z, chain, N
  <2>12. \A n \in Name : chain[n] \in Seq(Cluster)
            /\ \A i \in 1 .. Len(chain[n]) : q.own[chain[n][i]] = q.al[n] /\ q.idx[chain[n][i]] = i - 1
    <3> TAKE n \in Name
    <3>1. chain[n] = ChainOf(F, R[n], N)
      BY <2>2, <2>11
    <3>2. LET s == ChainOf(F, R[n], N) IN
          /\ s \in Seq(Cluster) /\ \A i \in 1 .. Len(s) : q.own[s[i]] = q.al[n] /\ q.idx[s[i]] = i - 1
          /\ N = Needed(Z[n]) => Len(s) >= Needed(Z[n])
      BY <2>6, <2>9, <2>10, ChainFacts
    <3> QED BY <3>1, <3>2, Zenon
  <2>13. \A n \in Name : IsInjective(chain[n])
    <3> TAKE n \in Name
    <3> DEFINE s == chain[n]
    <3>1. s \in Seq(Cluster) /\ \A i \in 1 .. Len(s) : q.idx[s[i]] = i - 1
      BY <2>12
    <3> HIDE DEF s
    <3>2. DOMAIN s = 1 .. Len(s) /\ Len(s) \in Nat
      BY <3>1
    <3>3. \A i, j \in 1 .. Len(s) : s[i] = s[j] => i = j
      BY <3>1, <3>2
    <3> QED BY <3>2, <3>3, Zenon DEF IsInjective, s
  <2>14. \A n, k \in Name : n # k /\ {n, k} \notin twins => Range(chain[n]) \cap Range(chain[k]) = {}
    <3> SUFFICES ASSUME NEW n \in Name, NEW k \in Name, n # k, {n, k} \notin twins
                 PROVE  Range(chain[n]) \cap Range(chain[k]) = {}
      OBVIOUS
    <3>1. q.al[n] # q.al[k]
      BY <2>6, Zenon DEF Apart
    <3>2. \A j \in Name : \A c \in Range(chain[j]) : q.own[c] = q.al[j]
      <4> SUFFICES ASSUME NEW j \in Name, NEW c \in Range(chain[j]) PROVE q.own[c] = q.al[j]
        OBVIOUS
      <4>1. chain[j] \in Seq(Cluster) /\ \A i \in 1 .. Len(chain[j]) : q.own[chain[j][i]] = q.al[j]
        BY <2>12
      <4>2. PICK i \in DOMAIN chain[j] : c = chain[j][i]
        BY Zenon DEF Range
      <4>3. i \in 1 .. Len(chain[j])
        BY <4>1, <4>2
      <4> QED BY <4>1, <4>2, <4>3
    <3> QED BY <3>1, <3>2
  <2>15. \A n \in Name : content[n] # Broken
    <3> TAKE n \in Name
    <3>1. Contents(C, R[n], Z[n]) # Broken
      <4>1. Fat(C) \in Table /\ Chained(Fat(C), q)
        BY <2>2, <2>6
      <4> QED BY <4>1, <2>3, <2>6, <2>9, NotBroken
    <3>2. content[n] = IF fil[n].open THEN Contents(C, fil[n].sclust, fil[n].fsize) ELSE OnMedium(C, n)
      <4>1. content = View(disk, fs, fil, dropped)
        BY Zenon DEF Coherent
      <4> QED BY <4>1, Zenon DEF View, C
    <3>3. OnMedium(C, n) = IF SlotOf(C, n) = -1 THEN Absent
                           ELSE Contents(C, Slot(C, SlotOf(C, n)).clust, Slot(C, SlotOf(C, n)).size)
      BY Zenon DEF OnMedium
    <3>4. Absent # Broken
      BY DEF Absent, Broken
    <3>5. CASE fil[n].open
      BY <3>5, <3>1, <3>2, <2>7, <2>8, Zenon
    <3>6. CASE ~fil[n].open /\ SlotOf(C, n) = -1
      BY <3>6, <3>2, <3>3, <3>4, Zenon
    <3>7. CASE ~fil[n].open /\ SlotOf(C, n) # -1
      BY <3>7, <3>1, <3>2, <3>3, <2>7, <2>8, Zenon
    <3> QED BY <3>5, <3>6, <3>7
  <2> QED BY <2>13, <2>14, <2>15
<1> HIDE DEF chain
<1>3. chain = Chains
  BY DEF chain
<1> QED BY <1>1, <1>2, <1>3, Zenon DEF ChainsDisjoint

\* FATFS object, FILs and medium keep their types under every call, every failing or
\* lost disk access and every power cut of Volume: no call of ff.c leaves a cluster
\* number outside the FAT or a buffered sector of the wrong kind.
THEOREM VolumeTypeCorrect == Spec => []TypeOK
<1>1. Init => Coherent
  BY CoherentInit
<1>2. Coherent /\ [Next]_vars => Coherent'
  BY CoherentStep
<1>3. Coherent => TypeOK
  BY CoherentType
<1> QED BY <1>1, <1>2, <1>3, PTL DEF Spec

\* No two files ever share a cluster: whatever f_open, f_write, f_lseek, f_truncate,
\* f_unlink and f_rename do to the FAT, and wherever an error or a power cut stops them,
\* the chains of two names are disjoint, but for the two names of a rename that was
\* broken off (ff.c:3706-3729). For every number of clusters, names and file sizes.
THEOREM ChainsStayDisjoint == Spec => []ChainsDisjoint
<1>1. Init => Coherent
  BY CoherentInit
<1>2. Coherent /\ [Next]_vars => Coherent'
  BY CoherentStep
<1>3. Coherent => ChainsDisjoint
  BY CoherentDisjoint
<1> QED BY <1>1, <1>2, <1>3, PTL DEF Spec
===============================================================================
