---- MODULE FatFs ----
\* The file system of the SD card and the USB stick, src/cortex_m3_nxp/fatfs/src/ff.c, as its
\* configuration ffconf.h builds it: a FAT16 volume with a static root directory, short names,
\* one private sector buffer per file and one sector window per volume.
\*
\* A call of the interface runs under the mutex of the volume, so it is one step; every access
\* to the medium inside it may fail, or be the one at which the power goes. The machine m that
\* the operators hand on is the medium, the file system object, the file object of the call
\* and the registers res and val for what a C function returns.
EXTENDS Integers, Sequences, FiniteSets

CONSTANTS Name,        \* file names
          NoName,      \* what stands in a directory entry no file uses
          NClust,      \* number of clusters
          CSize,       \* sectors of a cluster
          SS,          \* units of a sector
          PerFat,      \* FAT entries of a sector
          PerDir,      \* directory entries of a sector
          NRootDir     \* directory entries of the volume

\* A volume that find_volume mounts has a cluster, a root directory and whole sectors of it
ASSUME FatFsAssumption ==
    /\ NoName \notin Name
    /\ NClust \in Nat \ {0} /\ CSize \in Nat \ {0} /\ SS \in Nat \ {0}
    /\ PerFat \in Nat \ {0} /\ PerDir \in Nat \ {0}
    /\ NRootDir \in Nat \ {0} /\ NRootDir % PerDir = 0

n_fatent == NClust + 2
Cluster == 2..(n_fatent - 1)
EndOfChain == n_fatent
DiskErr == n_fatent + 1          \* what get_fat and create_chain answer for 0xFFFFFFFF
Unknown == -1                    \* 0xFFFFFFFF in free_clust, last_clust and winsect

fatbase == 1                     \* sector 0 is the boot sector
dirbase == fatbase + ((n_fatent + PerFat - 1) \div PerFat)
database == dirbase + (NRootDir \div PerDir)
Sector == 0..(database + NClust * CSize - 1)
FatSect(c) == fatbase + (c \div PerFat)
DirSect(i) == dirbase + (i \div PerDir)
clust2sect(c) == IF c \in Cluster THEN (c - 2) * CSize + database ELSE 0

Blank(atEnd) == [name |-> NoName, end |-> atEnd, size |-> 0, clust |-> 0]

NoFile == [open |-> FALSE]

\* What Body makes of m in n rounds. A loop of the code whose rounds are at most n is n rounds of
\* a Body that leaves m alone once the loop has ended.
Loop(m, n, Body(_, _)) ==
    LET run[k \in 0..n] == IF k = 0 THEN m ELSE Body(run[k - 1], k) IN run[n]

----
\* The medium

Return(m, r) == [m EXCEPT !.res = r]
Value(m, x) == [m EXCEPT !.val = x]

\* The rest of a function, which an error of what came before cuts short
IfOk(m, Then(_)) == IF m.res = "FR_OK" THEN Then(m) ELSE m

\* One access to the medium. m.fuse counts the accesses up to the one that goes wrong; at a
\* power cut no later access of the call reaches the medium either.
Access(m) ==
    LET hit == m.fuse = 1 IN
    [m EXCEPT !.fuse = IF @ = 0 THEN 0 ELSE @ - 1,
              !.off = @ \/ (hit /\ m.fault = "power"),
              !.res = IF hit \/ m.off THEN "FR_DISK_ERR" ELSE "FR_OK"]

Lands(m) == ~m.off /\ (m.fuse # 1 \/ m.fault = "late")

disk_write(m, sect, cs) ==
    IF ~Lands(m) THEN Access(m)
    ELSE [Access(m) EXCEPT !.disk =
             [x \in Sector |-> IF x - sect + 1 \in 1..Len(cs) THEN cs[x - sect + 1] ELSE @[x]]]

\* What disk_read reads is m.disk[sect], for the caller to take
disk_read(m) == Access(m)

----
\* The sector window

sync_window(m) ==
    IF ~m.wflag THEN Return(m, "FR_OK")
    ELSE IfOk(disk_write(m, m.winsect, <<m.win>>), LAMBDA w : [w EXCEPT !.wflag = FALSE])

Fetched(r, sect) ==
    IF r.res = "FR_OK" THEN [r EXCEPT !.win = r.disk[sect], !.winsect = sect]
    ELSE [r EXCEPT !.win = <<>>, !.winsect = Unknown]

move_window(m, sect) ==
    IF sect = m.winsect THEN Return(m, "FR_OK")
    ELSE IfOk(sync_window(m), LAMBDA w : Fetched(disk_read(w), sect))

sync_fs_lazy(m) == Access(m)

sync_fs(m) == IfOk(sync_window(m), Access)

----
\* The allocation table

LinkOf(w, c) == Value(w, IF w.res = "FR_OK" THEN w.win[c % PerFat] ELSE DiskErr)
get_fat(m, c) ==
    IF c \notin Cluster THEN Value(m, 1) ELSE LinkOf(move_window(m, FatSect(c)), c)

put_fat_unmarked(m, c, x) ==
    IfOk(move_window(m, FatSect(c)), LAMBDA w : [w EXCEPT !.win[c % PerFat] = x])

put_fat(m, c, x) ==
    IF c \notin Cluster THEN Return(m, "FR_INT_ERR")
    ELSE IfOk(move_window(m, FatSect(c)),
              LAMBDA w : [w EXCEPT !.win[c % PerFat] = x, !.wflag = TRUE])

Freed(m) == [m EXCEPT !.free_clust = IF @ = Unknown THEN @ ELSE @ + 1]
Taken_uncounted(m) == m
Taken(m) == [m EXCEPT !.free_clust = IF @ = Unknown THEN @ ELSE @ - 1]

\* A round of remove_chain on the cluster in val, which is none when the chain has ended
FreeNext(m) ==
    LET c == m.val
        Free(g) == IF g.val = 0 THEN [g EXCEPT !.res = "FR_OK", !.val = EndOfChain]
                   ELSE IF g.val = 1 THEN Return(g, "FR_INT_ERR")
                   ELSE IF g.val = DiskErr THEN g
                   ELSE IfOk(put_fat(g, c, 0), LAMBDA p : Value(Freed(p), g.val)) IN
    IF m.res # "FR_OK" \/ c \notin Cluster THEN m ELSE Free(get_fat(m, c))

\* Every round but the last frees a cluster
RemoveFrom(m, c) ==
    Loop([m EXCEPT !.res = "FR_OK", !.val = c], NClust + 1, LAMBDA w, k : FreeNext(w))

remove_chain(m, c) ==
    IF c \notin Cluster THEN Return(m, "FR_INT_ERR") ELSE RemoveFrom(m, c)

\* The k-th cluster after scl, going round; a round of the search looks at one of them, and val
\* is 0 until one is free or cannot be read
Candidate(scl, k) == ((scl - 2 + k) % NClust) + 2
Probe(m, ncl) ==
    LET Judge(g) == IF g.val = 0 THEN Value(g, ncl)
                    ELSE IF g.val \in {1, DiskErr} THEN g ELSE Value(g, 0) IN
    IF m.val # 0 THEN m ELSE Judge(get_fat(m, ncl))

\* The first free cluster after scl: 0 when there is none
FindFree(m, scl) == Loop(Value(m, 0), NClust, LAMBDA w, k : Probe(w, Candidate(scl, k)))

\* Mark the free cluster ncl and, in an existing chain, link it behind c
Linked(m, c, ncl) ==
    IfOk(put_fat(m, ncl, EndOfChain), LAMBDA p : IF c = 0 THEN p ELSE put_fat(p, c, ncl))
Grown(m, ncl) ==
    IF m.res = "FR_OK" THEN [Taken(m) EXCEPT !.last_clust = ncl, !.val = ncl]
    ELSE Value(m, IF m.res = "FR_DISK_ERR" THEN DiskErr ELSE 1)

Stretch(m, c, scl) ==
    LET Grow(f) == IF f.val \notin Cluster THEN f ELSE Grown(Linked(f, c, f.val), f.val) IN
    Grow(FindFree(m, scl))

create_chain(m, c) ==
    LET Follow(g) == IF g.val < 2 THEN Value(g, 1)
                     ELSE IF g.val = EndOfChain THEN Stretch(g, c, c) ELSE g IN
    IF c = 0 THEN Stretch(m, 0, IF m.last_clust \in 1..(n_fatent - 1) THEN m.last_clust ELSE 1)
    ELSE Follow(get_fat(m, c))

----
\* The root directory

EntryAt(m, i) == m.win[i % PerDir]

\* A round of the search for an entry by its name, NoName for a free one; val is -1 until it is found
ScanEntry(m, i, name) ==
    LET Look(w) == IF EntryAt(w, i).name = name THEN Value(w, i)
                   ELSE IF EntryAt(w, i).end THEN Return(w, "FR_NO_FILE") ELSE w IN
    IF m.res # "FR_OK" \/ m.val # -1 THEN m ELSE IfOk(move_window(m, DirSect(i)), Look)

\* The answer is none when every entry has been looked at in vain
ScanDir(m, name, none) ==
    LET End(w) == IF w.res = "FR_OK" /\ w.val = -1 THEN Return(w, none) ELSE w IN
    End(Loop([m EXCEPT !.res = "FR_OK", !.val = -1], NRootDir, LAMBDA w, k : ScanEntry(w, k - 1, name)))

dir_find(m, name) == ScanDir(m, name, "FR_NO_FILE")
dir_alloc(m) == ScanDir(m, NoName, "FR_DENIED")

SetEntry(m, i, e) == [m EXCEPT !.win[i % PerDir] = e, !.wflag = TRUE]

dir_register(m, name) ==
    IfOk(dir_alloc(m), LAMBDA a : SetEntry(a, a.val, [Blank(FALSE) EXCEPT !.name = name]))

dir_remove(m, i) == IfOk(move_window(m, DirSect(i)), LAMBDA w : SetEntry(w, i, Blank(FALSE)))

----
\* File objects: flags, position, size, first and current cluster, and the sector buffer buf,
\* which holds dsect and is dirty when not yet written back

Abort(m, r) == [m EXCEPT !.fp.err = r, !.res = r]
OrAbort(m, Then(_)) == IF m.res = "FR_OK" THEN Then(m) ELSE Abort(m, "FR_DISK_ERR")
OffsetInCluster(p) == (p.fptr \div SS) % CSize
CurSect(p) == clust2sect(p.clust) + OffsetInCluster(p)

WriteBack(m) ==
    IF ~m.fp.dirty THEN Return(m, "FR_OK")
    ELSE IfOk(disk_write(m, m.fp.dsect, <<m.fp.buf>>), LAMBDA w : [w EXCEPT !.fp.dirty = FALSE])

\* Bring sect into the buffer, after a write-back of what it holds
LoadBuffer(m, sect) ==
    LET Fill(r) == [r EXCEPT !.fp.buf = r.disk[sect], !.fp.dsect = sect] IN
    IfOk(WriteBack(m), LAMBDA w : IfOk(disk_read(w), Fill))

\* Units at the position, out of the buffer and into it
Rest(m, n) == LET room == SS - (m.fp.fptr % SS) IN IF n < room THEN n ELSE room
Pick(m, n) == [m EXCEPT !.data = @ \o [i \in 1..n |-> m.fp.buf[(m.fp.fptr % SS) + i - 1]],
                        !.fp.fptr = @ + n]
Put(m, d) == [m EXCEPT !.fp.buf = [i \in 0..(SS - 1) |->
                            LET k == i - (m.fp.fptr % SS) + 1 IN
                            IF k \in 1..Len(d) THEN d[k] ELSE @[i]],
                       !.fp.dirty = TRUE, !.fp.fptr = @ + Len(d)]

\* Whole sectors that go past the buffer, up to the end of the cluster
Whole_unclipped(m, n) == n \div SS
Whole(m, n) == LET left == CSize - OffsetInCluster(m.fp)
                   cc == n \div SS IN IF cc < left THEN cc ELSE left

\* The cluster that holds the position: the current one, or at the start of a cluster the one
\* that Follow finds
AtCluster(m, Follow(_)) ==
    IF OffsetInCluster(m.fp) # 0 THEN Value(m, m.fp.clust) ELSE Follow(m)

\* f_read: the loop over the units still wanted; m.data collects what the caller gets
FollowRead(m) ==
    IF m.fp.fptr = 0 THEN Value(m, m.fp.sclust) ELSE get_fat(m, m.fp.clust)

\* cc sectors from sect on as the caller gets them: the buffer stands for the sector it holds dirty
ReadWhole(m, sect, cc) ==
    LET source(x) == IF m.fp.dirty /\ m.fp.dsect = x THEN m.fp.buf ELSE m.disk[x] IN
    [m EXCEPT !.fp.fptr = @ + SS * cc,
              !.data = @ \o [i \in 1..(SS * cc) |->
                                source(sect + ((i - 1) \div SS))[(i - 1) % SS]]]

\* A round of the loop: what is left of a sector, whole sectors, or the start of one
ReadRound(m, end) ==
    LET btr == end - m.fp.fptr
        Direct(f, cc) == OrAbort(Access(f), LAMBDA a : ReadWhole(a, CurSect(f.fp), cc))
        Buffered(f, sect) ==
            OrAbort(IF f.fp.dsect = sect THEN Return(f, "FR_OK") ELSE LoadBuffer(f, sect),
                    LAMBDA l : Pick(l, btr))
        AtSector(f) == IF btr >= SS THEN Direct(f, Whole(f, btr)) ELSE Buffered(f, CurSect(f.fp))
        Enter(c) == IF c.val = DiskErr THEN Abort(c, "FR_DISK_ERR")
                    ELSE IF c.val \notin Cluster THEN Abort(c, "FR_INT_ERR")
                    ELSE AtSector([c EXCEPT !.fp.clust = c.val]) IN
    IF m.res # "FR_OK" \/ btr = 0 THEN m
    ELSE IF m.fp.fptr % SS # 0 THEN Pick(m, Rest(m, btr))
    ELSE Enter(AtCluster(m, FollowRead))

\* Every round reads a unit or more
ReadLoop(m, btr) ==
    Loop(Return(m, "FR_OK"), btr, LAMBDA w, k : ReadRound(w, m.fp.fptr + btr))

\* f_write: the loop over the units d still to be written; a full disk ends it without error
FollowWrite(m) ==
    IF m.fp.fptr # 0 THEN create_chain(m, m.fp.clust)
    ELSE IF m.fp.sclust = 0 THEN create_chain(m, 0) ELSE Value(m, m.fp.sclust)

\* Whole sectors that were written past the buffer are put into it if it holds one of them
WroteWhole(m, sect, sectors) ==
    LET covered == m.fp.dsect - sect + 1 IN
    [m EXCEPT !.fp.fptr = @ + SS * Len(sectors),
              !.fp.buf = IF covered \in 1..Len(sectors) THEN sectors[covered] ELSE @]

\* A round of the loop, for the data that belongs to start and the positions after it; val is 0
\* once the disk is full
WriteRound(m, data, start) ==
    LET d == SubSeq(data, m.fp.fptr - start + 1, Len(data))
        Sectors(cc) == [k \in 1..cc |-> [i \in 0..(SS - 1) |-> d[(k - 1) * SS + i + 1]]]
        Direct(f, cc) == OrAbort(disk_write(f, CurSect(f.fp), Sectors(cc)),
                                 LAMBDA a : WroteWhole(a, CurSect(f.fp), Sectors(cc)))
        Buffered(f, sect) ==
            OrAbort(IF f.fp.dsect # sect /\ f.fp.fptr < f.fp.fsize
                    THEN LoadBuffer(f, sect) ELSE Return(f, "FR_OK"),
                    LAMBDA l : Put([l EXCEPT !.fp.dsect = sect], d))
        AtSector(f) == IF Len(d) >= SS THEN Direct(f, Whole(f, Len(d)))
                       ELSE Buffered(f, CurSect(f.fp))
        Enter(c) == IF c.val = 0 THEN Return(c, "FR_OK")
                    ELSE IF c.val = 1 THEN Abort(c, "FR_INT_ERR")
                    ELSE IF c.val = DiskErr THEN Abort(c, "FR_DISK_ERR")
                    ELSE OrAbort(WriteBack([c EXCEPT !.fp.clust = c.val,
                                                     !.fp.sclust = IF @ = 0 THEN c.val ELSE @]),
                                 AtSector) IN
    IF m.res # "FR_OK" \/ d = <<>> \/ m.val = 0 THEN m
    ELSE IF m.fp.fptr % SS # 0 THEN Put(m, SubSeq(d, 1, Rest(m, Len(d))))
    ELSE Enter(AtCluster(m, FollowWrite))

\* Every round writes a unit or more
WriteLoop(m, d) ==
    Loop([m EXCEPT !.res = "FR_OK", !.val = 1], Len(d), LAMBDA w, k : WriteRound(w, d, m.fp.fptr))

\* f_lseek: the loop that follows, or for a writer stretches, the chain up to the cluster of ofs
\* A round follows one link towards end; val is 0 once the disk is full
SeekRound(m, end) ==
    LET writer == "WRITE" \in m.fp.mode
        Go(g) == IF writer /\ g.val = 0 THEN [g EXCEPT !.fp.fptr = @ + CSize * SS, !.res = "FR_OK"]
                 ELSE IF g.val = DiskErr THEN Abort(g, "FR_DISK_ERR")
                 ELSE IF g.val \notin Cluster THEN Abort(g, "FR_INT_ERR")
                 ELSE [g EXCEPT !.fp.clust = g.val, !.fp.fptr = @ + CSize * SS] IN
    IF m.res # "FR_OK" \/ m.val = 0 \/ end - m.fp.fptr <= CSize * SS THEN m
    ELSE Go(IF writer THEN create_chain(m, m.fp.clust) ELSE get_fat(m, m.fp.clust))

SeekLoop(m, ofs) ==
    LET end == m.fp.fptr + ofs
        Reach(w, o) == [w EXCEPT !.fp.fptr = @ + o,
                                 !.val = IF o % SS # 0 THEN clust2sect(w.fp.clust) + (o \div SS) ELSE 0]
        End(w) == IF w.res # "FR_OK" \/ w.val = 0 THEN w ELSE Reach(w, end - w.fp.fptr) IN
    End(Loop(Return(m, "FR_OK"), ofs \div (CSize * SS), LAMBDA w, k : SeekRound(w, end)))

----
\* The interface

find_volume(m) ==
    IF m.mounted THEN Return(m, "FR_OK")
    ELSE IfOk(disk_read([m EXCEPT !.wflag = FALSE, !.winsect = Unknown]),
              LAMBDA b : [b EXCEPT !.win = b.disk[0], !.winsect = 0, !.mounted = TRUE,
                                   !.last_clust = Unknown, !.free_clust = Unknown])

\* Make the entry the window shows that of an empty file, and free what it held
Overwrite(m, i) ==
    LET cl == EntryAt(m, i).clust
        cleared == SetEntry(m, i, [EntryAt(m, i) EXCEPT !.size = 0, !.clust = 0])
        Shown(r) == move_window([r EXCEPT !.last_clust = cl - 1], DirSect(i)) IN
    IF cl = 0 THEN cleared ELSE IfOk(remove_chain(cleared, cl), Shown)

Opened(m, i, mode, created) ==
    [m EXCEPT !.fp = [open |-> TRUE, mode |-> mode, err |-> "FR_OK", slot |-> i,
                      dirty |-> FALSE, written |-> created,
                      fptr |-> 0, fsize |-> EntryAt(m, i).size, sclust |-> EntryAt(m, i).clust,
                      clust |-> 0, dsect |-> 0, buf |-> [x \in 0..(SS - 1) |-> 0]]]

Creates(mode) == mode \cap {"CREATE_ALWAYS", "OPEN_ALWAYS", "CREATE_NEW"} # {}

f_open(m, name, mode) ==
    LET Make(e, over) == IfOk(IF over THEN Overwrite(e, e.val) ELSE e,
                              LAMBDA o : Opened(o, e.val, mode, over))
        Found(d) == IF "CREATE_NEW" \in mode THEN Return(d, "FR_EXIST")
                    ELSE Make(d, "CREATE_ALWAYS" \in mode)
        Open(d) == IF ~Creates(mode) THEN IfOk(d, LAMBDA e : Opened(e, e.val, mode, FALSE))
                   ELSE IF d.res = "FR_NO_FILE"
                   THEN IfOk(dir_register(d, name), LAMBDA e : Make(e, TRUE))
                   ELSE IfOk(d, Found) IN
    IfOk(find_volume(m), LAMBDA v : Open(dir_find(v, name)))

f_read(m, btr) ==
    LET remain == m.fp.fsize - m.fp.fptr IN
    IF m.fp.err # "FR_OK" THEN Return(m, m.fp.err)
    ELSE IF "READ" \notin m.fp.mode THEN Return(m, "FR_DENIED")
    ELSE ReadLoop(m, IF btr > remain THEN remain ELSE btr)

f_write(m, d) ==
    IF m.fp.err # "FR_OK" THEN Return(m, m.fp.err)
    ELSE IF "WRITE" \notin m.fp.mode THEN Return(m, "FR_DENIED")
    ELSE IfOk(WriteLoop(m, d),
              LAMBDA w : [w EXCEPT !.fp.fsize = IF w.fp.fptr > @ THEN w.fp.fptr ELSE @,
                                   !.fp.written = TRUE])

f_sync(m) ==
    LET i == m.fp.slot
        Enter(w) == [SetEntry(w, i, [EntryAt(w, i) EXCEPT !.size = m.fp.fsize, !.clust = m.fp.sclust])
                        EXCEPT !.fp.written = FALSE] IN
    IF ~m.fp.written THEN Return(m, "FR_OK")
    ELSE IfOk(WriteBack(m),
              LAMBDA f : IfOk(move_window(f, DirSect(i)), LAMBDA w : sync_fs(Enter(w))))

f_close(m) == IfOk(f_sync(m), LAMBDA s : [s EXCEPT !.fp = NoFile])

\* From the current cluster forward, or from the first one, which is made if there is none
StartOfSeek(m, ofs) ==
    LET bcs == CSize * SS
        p == m.fp
        forward == p.fptr > 0 /\ (ofs - 1) \div bcs >= (p.fptr - 1) \div bcs
        Made(new) == IF new.val \in {1, DiskErr} THEN [new EXCEPT !.fp.fptr = 0]
                     ELSE [new EXCEPT !.fp.fptr = 0, !.fp.sclust = new.val, !.fp.clust = new.val] IN
    IF forward THEN [m EXCEPT !.fp.fptr = ((p.fptr - 1) \div bcs) * bcs, !.val = p.clust]
    ELSE IF p.sclust # 0 THEN [m EXCEPT !.fp.fptr = 0, !.fp.clust = p.sclust, !.val = p.sclust]
    ELSE Made(create_chain(m, 0))

f_lseek(m, wanted) ==
    LET ofs == IF wanted > m.fp.fsize /\ "WRITE" \notin m.fp.mode THEN m.fp.fsize ELSE wanted
        Go(s) == IF s.val = 1 THEN Abort(s, "FR_INT_ERR")
                 ELSE IF s.val = DiskErr THEN Abort(s, "FR_DISK_ERR")
                 ELSE IF s.val = 0 THEN Return(s, "FR_OK")
                 ELSE SeekLoop(s, ofs - s.fp.fptr)
        Enlarge(l) == IF l.fp.fptr > l.fp.fsize
                     THEN [l EXCEPT !.fp.fsize = l.fp.fptr, !.fp.written = TRUE] ELSE l
        Load(k) == OrAbort(IF k.fp.fptr % SS # 0 /\ k.val # k.fp.dsect
                           THEN LoadBuffer(k, k.val) ELSE k, Enlarge) IN
    IF m.fp.err # "FR_OK" THEN Return(m, m.fp.err)
    ELSE IfOk(IF ofs = 0 THEN [m EXCEPT !.fp.fptr = 0, !.val = 0, !.res = "FR_OK"]
              ELSE Go(StartOfSeek(m, ofs)), Load)

f_truncate(m) ==
    LET p == m.fp
        cut == [m EXCEPT !.fp.fsize = p.fptr, !.fp.written = TRUE]
        Shorten(g) == IF g.val = DiskErr THEN Return(g, "FR_DISK_ERR")
                   ELSE IF g.val = 1 THEN Return(g, "FR_INT_ERR")
                   ELSE IF g.val >= n_fatent THEN Return(g, "FR_OK")
                   ELSE IfOk(put_fat(g, p.clust, EndOfChain), LAMBDA e : remove_chain(e, g.val))
        Chain == IF p.fptr = 0 THEN [remove_chain(cut, p.sclust) EXCEPT !.fp.sclust = 0]
                 ELSE Shorten(get_fat(cut, p.clust))
        End(t) == IF t.res # "FR_OK" THEN Abort(t, t.res) ELSE t IN
    IF p.err # "FR_OK" THEN Return(m, p.err)
    ELSE IF "WRITE" \notin p.mode THEN Return(m, "FR_DENIED")
    ELSE IF p.fsize <= p.fptr THEN Return(m, "FR_OK")
    ELSE End(IfOk(Chain, WriteBack))

\* The scan counts the zero entries sector by sector in free_clust; what an error leaves of the
\* count is kept as the count
CountEntry(m, c) ==
    LET Look(w) == IF w.win[c % PerFat] = 0 THEN [w EXCEPT !.free_clust = @ + 1] ELSE w IN
    IF m.res # "FR_OK" THEN m ELSE IfOk(move_window(m, FatSect(c)), Look)

ScanFree(m) ==
    LET End(w) == Value(w, w.free_clust) IN
    End(Loop([m EXCEPT !.free_clust = 0, !.res = "FR_OK"], n_fatent, LAMBDA w, k : CountEntry(w, k - 1)))

f_getfree(m) ==
    IfOk(find_volume(m), LAMBDA v : IF v.free_clust \in 0..NClust THEN Value(v, v.free_clust)
                                    ELSE ScanFree(v))

f_unlink(m, name) ==
    LET Free(r, dclst) == IF dclst = 0 THEN r ELSE remove_chain(r, dclst)
        Erase(d) == IfOk(dir_remove(d, d.val),
                          LAMBDA r : IfOk(Free(r, EntryAt(d, d.val).clust), sync_fs)) IN
    IfOk(find_volume(m), LAMBDA v : IfOk(dir_find(v, name), Erase))

f_rename(m, old, new) ==
    LET Copied(r, o) == SetEntry(r, r.val, [EntryAt(o, o.val) EXCEPT !.name = new])
        Move(n, o) == IF n.res = "FR_OK" THEN Return(n, "FR_EXIST")
                      ELSE IF n.res # "FR_NO_FILE" THEN n
                      ELSE IfOk(dir_register(n, new),
                                LAMBDA r : IfOk(dir_remove(Copied(r, o), o.val), sync_fs)) IN
    IfOk(find_volume(m),
         LAMBDA v : IfOk(dir_find(v, old), LAMBDA o : Move(dir_find(o, new), o)))

----
\* What a reader of the volume gets, from the medium alone or through what the RAM holds back

\* At most n clusters from c on, by the allocation table fat
ChainOf(fat, c, n) ==
    LET Next(s) == IF s = <<>> THEN c ELSE fat[s[Len(s)]]
        Follow(s, k) == IF Next(s) \in Cluster THEN Append(s, Next(s)) ELSE s IN
    Loop(<<>>, n, Follow)

Units(sector, chain, size) ==
    [u \in 1..size |->
        LET s == (u - 1) \div SS IN
        sector[clust2sect(chain[(s \div CSize) + 1]) + (s % CSize)][(u - 1) % SS]]

Needed(size) == (size + (CSize * SS) - 1) \div (CSize * SS)
Fat(sector) == [c \in Cluster |-> sector[FatSect(c)][c % PerFat]]
Slot(sector, i) == sector[DirSect(i)][i % PerDir]
\* The slot that a search for name finds, -1 if none
SlotOf(sector, name) ==
    LET seen == {i \in 0..(NRootDir - 1) : \A j \in 0..i : ~Slot(sector, j).end}
        hits == {i \in seen : Slot(sector, i).name = name} IN
    IF hits = {} THEN -1 ELSE CHOOSE i \in hits : \A j \in hits : i <= j

Absent == <<-1>>
Broken == <<-2>>
Contents(sector, sclust, size) ==
    LET chain == ChainOf(Fat(sector), sclust, Needed(size)) IN
    IF Len(chain) < Needed(size) THEN Broken ELSE Units(sector, chain, size)
OnMedium(sector, name) ==
    LET i == SlotOf(sector, name) IN
    IF i = -1 THEN Absent ELSE Contents(sector, Slot(sector, i).clust, Slot(sector, i).size)
====
