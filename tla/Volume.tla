---- MODULE Volume ----
\* One volume with its open files: the calls of FatFs as actions, each with a fault of the
\* medium at any of its accesses. A file is opened by one object at a time and is not removed
\* or renamed while it is open, as the documentation of FatFs asks when _FS_LOCK is 0.
EXTENDS FatFs, Functions, TLC

CONSTANTS First, FirstSize,     \* the file the volume holds at first, and its size
          Modes,                \* modes of f_open that are used
          Sizes, Offsets,       \* lengths of f_read and f_write, targets of f_lseek
          Fault,                \* kinds of fault: error, late (done but reported as failed), power
          MaxAccess,            \* accesses of a call at which a fault may come
          MaxCalls, MaxFaults   \* bounds on a run: a fault counts as a call

\* The file the volume holds at first fits on it
ASSUME VolumeAssumption ==
    /\ First \in Name /\ \E n \in Name : n # First
    /\ FirstSize \in Nat /\ Needed(FirstSize) <= NClust
    /\ Modes \subseteq SUBSET {"READ", "WRITE", "CREATE_NEW", "CREATE_ALWAYS", "OPEN_ALWAYS"}
    /\ Sizes \subseteq Nat /\ Offsets \subseteq Nat
    /\ Fault \subseteq {"error", "late", "power"}
    /\ MaxAccess \in Nat /\ MaxCalls \in Nat /\ MaxFaults \in Nat

VARIABLES disk,      \* the medium
          fs,        \* the file system object
          fil,       \* the file object of each name
          last,      \* the last call and its answer
          content,   \* what the calls see of each file: View of the three above
          durable,   \* what the medium must hold of a file since f_sync or f_close said so
          loose,     \* files whose entry on the medium f_truncate or f_rename left behind: it may be the old one
          dropped,   \* files that an f_truncate or f_rename which failed has left half done
          twins,     \* the two names of each f_rename that failed: both may lead to one file
          calls, faults

vars == <<disk, fs, fil, last, content, durable, loose, dropped, twins, calls, faults>>

\* The volume as the calls see it: sectors that the window v of the volume or the buffer of a
\* file of o holds back stand for those of the medium. The files of cut are no longer
\* used and hold back nothing.
Cached(medium, v, o, cut) == [x \in Sector |->
    LET holders == {n \in Name : /\ o[n].open /\ o[n].dirty /\ o[n].dsect = x
                                 /\ n \notin cut} IN
    IF v.wflag /\ v.winsect = x THEN v.win
    ELSE IF holders # {} THEN o[CHOOSE n \in holders : TRUE].buf
    ELSE medium[x]]

View(medium, v, o, cut) ==
    LET c == Cached(medium, v, o, cut) IN
    [n \in Name |-> IF o[n].open THEN Contents(c, o[n].sclust, o[n].fsize) ELSE OnMedium(c, n)]

Unmounted == [mounted |-> FALSE, win |-> <<>>, winsect |-> Unknown, wflag |-> FALSE,
              last_clust |-> Unknown, free_clust |-> Unknown]

FirstUnits == [u \in 1..FirstSize |-> u]
Formatted ==
    LET n == Needed(FirstSize)
        unit(u) == IF u \in 1..FirstSize THEN u ELSE 0 IN
    [x \in Sector |->
        IF x = 0 THEN [i \in 0..(SS - 1) |-> 0]
        ELSE IF x < dirbase
        THEN [i \in 0..(PerFat - 1) |->
                 LET c == (x - fatbase) * PerFat + i IN
                 IF c \in {0, 1} \/ c = n + 1 THEN EndOfChain
                 ELSE IF c \in 2..n THEN c + 1 ELSE 0]
        ELSE IF x < database
        THEN [i \in 0..(PerDir - 1) |->
                 IF x = dirbase /\ i = 0
                 THEN [name |-> First, end |-> FALSE, size |-> FirstSize, clust |-> IF n = 0 THEN 0 ELSE 2]
                 ELSE Blank(TRUE)]
        ELSE [i \in 0..(SS - 1) |-> unit((x - database) * SS + i + 1)]]

NotClaimed == <<-3>>

Healthy == [fuse |-> 0, fault |-> "none"]
Machine(v, medium, p, z) ==
    [mounted |-> v.mounted, win |-> v.win, winsect |-> v.winsect, wflag |-> v.wflag,
     last_clust |-> v.last_clust, free_clust |-> v.free_clust,
     fuse |-> z.fuse, fault |-> z.fault, off |-> FALSE,
     disk |-> medium, fp |-> p, res |-> "FR_OK", val |-> 0, data |-> <<>>]

\* The file system object that a call leaves
FileSystem(m) == [mounted |-> m.mounted, win |-> m.win, winsect |-> m.winsect, wflag |-> m.wflag,
                  last_clust |-> m.last_clust, free_clust |-> m.free_clust]

\* The volume is not mounted yet, or the application has opened its first file and made another
Cold == Machine(Unmounted, Formatted, NoFile, Healthy)
Warm(m) == f_open(m, First, {"READ", "WRITE"})
Second == CHOOSE n \in Name : n # First
Warmer(w) == f_open([w EXCEPT !.fp = NoFile], Second, {"READ", "WRITE", "CREATE_NEW"})

Init == /\ \E w \in {Warm(Cold)} : \E m \in {Cold, Warmer(w)} :
               /\ disk = m.disk
               /\ fs = FileSystem(m)
               /\ fil = [n \in Name |-> IF ~m.mounted THEN NoFile ELSE IF n = First THEN w.fp
                                        ELSE IF n = Second THEN m.fp ELSE NoFile]
        /\ last = [op |-> "power", name |-> NoName, res |-> "FR_OK"]
        /\ content = View(disk, fs, fil, {})
        /\ durable = [n \in Name |-> IF n = First THEN FirstUnits
                                     ELSE IF fs.mounted /\ n = Second THEN NotClaimed ELSE Absent]
        /\ loose = {} /\ dropped = {} /\ twins = {} /\ calls = 0 /\ faults = 0

\* The media a call may meet: none when the run has reached its bounds, and no fault in its last call
Media == IF calls + faults >= MaxCalls THEN {}
         ELSE {Healthy} \union (IF faults < MaxFaults /\ calls + faults < MaxCalls - 1
                                THEN [fuse: 1..MaxAccess, fault: Fault] ELSE {})

\* An f_rename that left m has done all or nothing
WholeMove(m) == ~m.mounted \/ m.res \in {"FR_OK", "FR_NO_FILE", "FR_EXIST", "FR_DENIED"}

\* The end of a call on n: m is the machine it left
Done(n, z, m, call) ==
    /\ m.fuse = 0
    /\ disk' = m.disk
    /\ fs' = IF m.off THEN Unmounted ELSE FileSystem(m)
    /\ fil' = IF m.off THEN [k \in Name |-> NoFile] ELSE [fil EXCEPT ![n] = m.fp]
    /\ last' = IF m.off THEN [op |-> "power", name |-> n, res |-> "FR_OK"]
               ELSE call @@ [name |-> n, res |-> m.res]
    /\ LET cuts == call.op = "truncate" /\ m.fp.fsize # fil[n].fsize
           pair == IF call.op = "rename" /\ ~WholeMove(m) THEN {n, call.to} ELSE {}
           flushes == call.op \in {"sync", "close"} /\ fil[n].written
           settles == m.res = "FR_OK" /\ (flushes \/ call.op = "unlink") IN
       /\ loose' = IF cuts THEN loose \union {n} ELSE IF settles THEN loose \ {n} ELSE loose \union pair
       /\ dropped' = IF cuts /\ m.res # "FR_OK" THEN dropped \union {n} ELSE dropped \union pair
       /\ twins' = IF pair = {} THEN twins ELSE twins \union {pair}
    /\ content' = View(disk', fs', fil', dropped')
    /\ calls' = calls + 1
    /\ faults' = IF z = Healthy THEN faults ELSE faults + 1

\* Without f_sync after f_truncate the old entry of the file still leads to clusters that the
\* allocation table calls free, and an f_rename that failed, which the code calls a critical
\* section, may leave two entries for one file: such a volume is not mounted again, and a file
\* whose f_truncate or f_rename failed is not used again
Mountable == fs.mounted \/ loose = {}
Usable(n) == fil[n].open /\ n \notin dropped

Claim(n, c) == durable' = [durable EXCEPT ![n] = c]

Shut(n) == ~fil[n].open /\ n \notin dropped

Open(n, mode) == Mountable /\ Shut(n) /\ \E z \in Media :
    \E m \in {f_open(Machine(fs, disk, NoFile, z), n, mode)} :
        /\ Done(n, z, m, [op |-> "open", create |-> m.fp.open /\ m.fp.written])
        /\ IF "CREATE_ALWAYS" \in mode \/ (Creates(mode) /\ content[n] = Absent)
           THEN Claim(n, NotClaimed) ELSE UNCHANGED durable

Read(n, k) == Usable(n) /\ \E z \in Media :
    \E m \in {f_read(Machine(fs, disk, fil[n], z), k)} :
        /\ Done(n, z, m, [op |-> "read", size |-> k, data |-> m.data])
        /\ UNCHANGED durable

\* A written unit tells its call and its place
Write(n, k) == Usable(n) /\ \E z \in Media :
    LET d == [i \in 1..k |-> 10 * (calls + 1) + fil[n].fptr + i] IN
    \E m \in {f_write(Machine(fs, disk, fil[n], z), d)} :
        /\ Done(n, z, m, [op |-> "write", data |-> d])
        /\ IF m.res = "FR_DENIED" THEN UNCHANGED durable ELSE Claim(n, NotClaimed)

\* f_lseek and f_truncate may change the size
Resize(n, z, m, call) ==
    /\ Done(n, z, m, call)
    /\ IF m.fp.fsize # fil[n].fsize THEN Claim(n, NotClaimed) ELSE UNCHANGED durable

Seek(n, ofs) == Usable(n) /\ \E z \in Media :
    \E m \in {f_lseek(Machine(fs, disk, fil[n], z), ofs)} :
        Resize(n, z, m, [op |-> "seek", size |-> ofs])

Truncate(n) == Usable(n) /\ \E z \in Media :
    \E m \in {f_truncate(Machine(fs, disk, fil[n], z))} : Resize(n, z, m, [op |-> "truncate"])

\* f_sync and f_close write a changed file out
Flush(n, z, m, op) ==
    /\ Done(n, z, m, [op |-> op])
    /\ IF ~fil[n].written THEN UNCHANGED durable
       ELSE Claim(n, IF m.res = "FR_OK" THEN content'[n] ELSE NotClaimed)

Sync(n) == Usable(n) /\ \E z \in Media :
    \E m \in {f_sync(Machine(fs, disk, fil[n], z))} : Flush(n, z, m, "sync")
Close(n) == Usable(n) /\ \E z \in Media :
    \E m \in {f_close(Machine(fs, disk, fil[n], z))} : Flush(n, z, m, "close")

GetFree == Mountable /\ \E z \in Media :
    \E m \in {f_getfree(Machine(fs, disk, NoFile, z))} :
        /\ \E n \in Name : ~fil[n].open /\ Done(n, z, m, [op |-> "getfree", count |-> m.val])
        /\ UNCHANGED durable

Unlink(n) == Mountable /\ Shut(n) /\ \E z \in Media :
    \E m \in {f_unlink(Machine(fs, disk, NoFile, z), n)} :
        /\ Done(n, z, m, [op |-> "unlink"])
        /\ IF m.res = "FR_OK" THEN Claim(n, Absent)
           ELSE IF m.res = "FR_NO_FILE" THEN UNCHANGED durable ELSE Claim(n, NotClaimed)

Rename(n, k) == Mountable /\ n # k /\ Shut(n) /\ Shut(k) /\ \E z \in Media :
    \E m \in {f_rename(Machine(fs, disk, NoFile, z), n, k)} :
        /\ Done(n, z, m, [op |-> "rename", to |-> k])
        /\ durable' = IF m.res = "FR_OK" THEN [durable EXCEPT ![n] = Absent, ![k] = durable[n]]
                      ELSE IF WholeMove(m) THEN durable
                      ELSE [durable EXCEPT ![n] = NotClaimed, ![k] = NotClaimed]

Next == \/ \E n \in Name :
              \/ \E mode \in Modes : Open(n, mode)
              \/ \E k \in Sizes : Read(n, k)
              \/ \E k \in Sizes : Write(n, k)
              \/ \E ofs \in Offsets : Seek(n, ofs)
              \/ Truncate(n) \/ Sync(n) \/ Close(n) \/ Unlink(n)
              \/ \E k \in Name : Rename(n, k)
        \/ GetFree

Spec == Init /\ [][Next]_vars

\* What tells states apart: content is a function of it, and last says only how a state was come by
StateView == <<disk, fs, fil, durable, loose, dropped, twins, calls, faults>>

----
\* The whole chain of each file, as the calls see it
Chains ==
    LET c == Cached(disk, fs, fil, dropped)
        first(n) == IF fil[n].open THEN fil[n].sclust
                    ELSE LET i == SlotOf(c, n) IN IF i = -1 THEN 0 ELSE Slot(c, i).clust IN
    [n \in Name |-> ChainOf(Fat(c), first(n), NClust + 1)]

TypeOK == /\ \A x \in Sector : DOMAIN disk[x] \in {0..(SS - 1), 0..(PerFat - 1), 0..(PerDir - 1)}
          /\ fs.winsect \in Sector \union {Unknown}
          /\ fs.wflag => fs.winsect \in fatbase..(database - 1)
          /\ \A n \in Name : fil[n].open =>
                /\ fil[n].err = "FR_OK" => fil[n].fptr <= fil[n].fsize
                /\ fil[n].dirty => fil[n].dsect \in database..(database + NClust * CSize - 1)

\* No cluster belongs to two files, or twice to one, and every file has the clusters its size
\* needs, whatever f_write, f_lseek, f_truncate, f_unlink and f_open did with the chains and
\* whatever access of the medium failed in the middle of it. The two names of an f_rename that
\* broke off in its critical section (ff.c:3706) may have one chain, and no third one has it.
ChainsDisjoint ==
    /\ TypeOK
    /\ fs.mounted => LET chain == Chains IN
        /\ \A n \in Name : IsInjective(chain[n])
        /\ \A n, k \in Name : n # k /\ {n, k} \notin twins => Range(chain[n]) \cap Range(chain[k]) = {}
        /\ \A n \in Name : content[n] # Broken

\* Without a fault no cluster is lost, and the count that f_getfree keeps is right.
SpaceAccounted ==
    LET fat == Fat(Cached(disk, fs, fil, dropped))
        used == {c \in Cluster : fat[c] # 0}
        chain == Chains IN
    faults = 0 => /\ used = UNION {Range(chain[n]) : n \in Name}
                  /\ fs.free_clust \in {Unknown, NClust - Cardinality(used)}

\* What f_sync or f_close reported as written is on the medium, and stays there whatever is
\* done to other files, whatever access fails and wherever the power goes.
SyncedFilesSurvive == \A n \in Name : durable[n] # NotClaimed => OnMedium(disk, n) = durable[n]

Store == INSTANCE FileStore WITH
            pos <- [n \in Name |-> IF fil[n].open THEN fil[n].fptr ELSE -1],
            givenUp <- {n \in Name : fil[n].open /\ fil[n].err # "FR_OK"},
            reply <- last, NotOpen <- -1
\* The calls behave as those of the abstract file store.
ImplementsStore == [][Store!Next]_(Store!vars)

\* f_close reports success only when the medium holds the file.
CloseFlushes == last.op = "close" /\ last.res = "FR_OK" => OnMedium(disk, last.name) = content[last.name]
====
