---------------------------- MODULE FileSystem ----------------------------
(***************************************************************************)
(* Files on FAT32 through the page cache (src/src/mm/filemap.c,            *)
(* src/src/fs/mpage.c, fs-writeback.c and fat32/fat32_inode.c): reads and  *)
(* writes of ranges, the inode table with its delayed truncation of        *)
(* unlinked files, reclaim of clean mappings when memory is short, and the *)
(* writeback of everything at shutdown, over the allocator of module Fat.  *)
(*                                                                         *)
(* A unit is a sector; a unit of data is abstracted to whether it is the   *)
(* last one written at its place: <<f, u>> is the current unit u of file   *)
(* f, Old anything else that was ever on the disk, Zero a zeroed unit.     *)
(* Calls on an inode hold its i_sem and are one step, but for              *)
(* fat32_inode_get, which drops inode_table.lock while it truncates.       *)
(***************************************************************************)
EXTENDS Fat

CONSTANTS File, Dir, Root,      \* regular files and directories
          Parent,               \* the directory of each file and of each directory but Root
          NINODE,               \* entries of the inode table
          PAGE, CLUSTER,        \* units of a page (PGSIZE) and of a cluster
          Images,               \* disks to start from: which file has which clusters and size
          Kinds,                \* writes that occur: "aligned" (from the start of a page),
                                \* "append" (less than a page at the end) and "inside" (any other)
          Concurrent,           \* whether calls occur while fat32_inode_get truncates
          MaxLen, MaxAhead, MaxLives,  \* bounds: units of a file, read ahead, boots
          None

Name == File \cup Dir
Old == <<None, 0>>
Zero == <<None, 1>>

ASSUME FileSystemAssumption ==
    /\ Parent \in [Name -> Dir \cup {Root}] /\ None \notin Name /\ Root \notin Name
    /\ \A n \in {PAGE, CLUSTER, NINODE, MaxLen, MaxLives} : n \in Nat \ {0}
    /\ PAGE % CLUSTER = 0 \/ CLUSTER % PAGE = 0
    /\ MaxAhead \in Nat /\ Kinds \subseteq {"aligned", "append", "inside"} /\ Concurrent \in BOOLEAN

VARIABLES
    disk,           \* contents of each cluster
    dfat, dents,    \* on disk: the FAT, and the entry of each file in its directory
    free0,          \* on disk: Free_Count of the FSINFO sector
    sb,             \* the super block, see Fat
    ents, ddirty,   \* the entries as the page cache of the directories has them, and the
                    \* directories that are on the list of dirty inodes
    inode,          \* inode_table: inode_entry[NINODE]
    get,            \* the fat32_inode_get that is under way
    lives,          \* boots so far; the system is up if running
    running, panic,
    len             \* history: the length of each file, -1 if there is none

disks == <<disk, dfat, dents, free0>>
power == <<lives, running>>
vars == <<disks, sb, ents, ddirty, inode, get, power, panic, len>>

NoEntry == [start |-> 0, size |-> -1]
NoInode == [ref |-> FALSE, name |-> None, nlink |-> 0, start |-> 0, end |-> 0, cnt |-> 0,
            table |-> <<>>, size |-> 0, inparent |-> FALSE, dirty |-> FALSE,
            pages |-> <<>>, tags |-> {}]
NoSb == [fat |-> [c \in Entry |-> FREE_MASK], bits |-> {}, free |-> 0, nxt |-> 0, hint |-> FALSE]
NoGet == [kind |-> "none", f |-> None, slot |-> 0, l |-> 0, cleared |-> FALSE]
Slots == 1..NINODE

\* The disk that an image describes: image[f] = [clusters, size], size -1 for no file
FatOf(image) ==
    [c \in Entry |->
        IF c \in 0..2 THEN EOC
        ELSE LET at == {<<f, i>> \in File \X Entry :
                            i \in DOMAIN image[f].clusters /\ image[f].clusters[i] = c}
             IN  IF at = {} THEN FREE_MASK
                 ELSE LET a == CHOOSE a \in at : TRUE
                      IN  IF a[2] = Len(image[a[1]].clusters) THEN EOC
                          ELSE image[a[1]].clusters[a[2] + 1]]

Init ==
    \E image \in Images :
        LET start(f) == IF image[f].clusters = <<>> THEN 0 ELSE Head(image[f].clusters)
            owner(c, j) == {<<f, u>> \in File \X (0..MaxLen) :
                              /\ u < image[f].size /\ u % CLUSTER = j
                              /\ image[f].clusters[(u \div CLUSTER) + 1] = c}
        IN  /\ disk = [c \in Cluster |-> [j \in 0..CLUSTER - 1 |->
                          IF owner(c, j) = {} THEN Old ELSE CHOOSE o \in owner(c, j) : TRUE]]
            /\ dfat = FatOf(image)
            /\ dents = [n \in Name |-> IF n \in Dir THEN [start |-> 0, size |-> 0]
                                       ELSE [start |-> start(n), size |-> image[n].size]]
            /\ free0 = Cardinality({c \in Cluster : FatOf(image)[c] = FREE_MASK})
            /\ len = [f \in File |-> image[f].size]
            /\ sb = NoSb
            /\ ents = [n \in Name |-> NoEntry] /\ ddirty = {}
            /\ inode = [i \in Slots |-> NoInode] /\ get = NoGet
            /\ lives = 0 /\ running = FALSE /\ panic = "no"

\* fat32_fs_mount, at boot
fat32_fs_mount ==
    /\ ~running /\ lives < MaxLives /\ lives' = lives + 1 /\ running' = TRUE
    /\ sb' = [fat |-> dfat, bits |-> fat32_fat_bitmap_init(dfat), free |-> free0, nxt |-> 0, hint |-> FALSE]
    /\ ents' = dents /\ ddirty' = {}
    /\ inode' = [i \in Slots |-> NoInode]
    /\ UNCHANGED <<disks, get, panic, len>>

-----------------------------------------------------------------------------
(* Pages of an inode; st = [sb, ip, panic] *)

\* What fat32_get_block finds on disk for a unit; the chain may be shorter
DiskUnit(ip, u) ==
    LET l == (u \div CLUSTER) + 1
    IN  IF l <= ip.cnt THEN disk[ip.table[l]][u % CLUSTER] ELSE Zero
DiskPage(ip, p) == [j \in 0..PAGE - 1 |-> DiskUnit(ip, p * PAGE + j)]
ZeroPage == [j \in 0..PAGE - 1 |-> Zero]

\* Clusters needed up to the first and up to the last unit of a page
ToPage(p) == ((p * PAGE) \div CLUSTER) + 1
ThroughPage(p) == (((p + 1) * PAGE - 1) \div CLUSTER) + 1

\* The pages of the range that are not cached are allocated, inserted and, from disk, read
\* in runs; the cursor of a run may append clusters even if alloc is FALSE
mpage_readpages(st, index, cnt, from_disk, alloc) ==
    LET miss == (index..index + cnt - 1) \ DOMAIN st.ip.pages
        runs == {p \in miss : p - 1 \notin miss}
        reach == IF alloc THEN {ThroughPage(p) : p \in miss} ELSE {ToPage(p) : p \in runs}
        st1 == IF from_disk THEN fat32_cursor_to_offset(st, Max(reach)) ELSE st
    IN  [st1 EXCEPT !.ip.pages = [p \in DOMAIN st.ip.pages \cup miss |->
            IF p \in DOMAIN st.ip.pages THEN st.ip.pages[p]
            ELSE IF from_disk THEN DiskPage(st1.ip, p) ELSE ZeroPage]]

\* !(WRITE_FULL_PAGE(rest) || OUT_FILE(offset, isize_offset))
FromDisk(rest, offset, isize_offset) == ~(rest >= PAGE \/ offset > isize_offset)

\* One round of do_generic_file_write, for page p of a write of n units at off to file f
WritePage(st, f, p, off, n) ==
    LET at == IF off > p * PAGE THEN off ELSE p * PAGE
        from_disk == FromDisk(off + n - at, at - p * PAGE, st.ip.size % PAGE)
        st1 == IF p \in DOMAIN st.ip.pages THEN st ELSE mpage_readpages(st, p, 1, from_disk, TRUE)
    IN  IF st.panic # "no" THEN st
        ELSE [st1 EXCEPT !.ip.tags = @ \cup {p},
                         !.ip.pages[p] = [j \in 0..PAGE - 1 |->
                             IF p * PAGE + j \in at..off + n - 1 THEN <<f, p * PAGE + j>> ELSE @[j]]]
do_generic_file_write(st, f, off, n) ==
    LET first == off \div PAGE
        last == (off + n - 1) \div PAGE
    IN  FoldLeft(LAMBDA s, i : WritePage(s, f, first + i - 1, off, n), st, [i \in 1..last - first + 1 |-> i])

\* Units of the file that were current and are overwritten or dropped
Outdated(data, f, us) ==
    [c \in Cluster |-> [j \in 0..CLUSTER - 1 |-> IF data[c][j] \in {<<f, u>> : u \in us} THEN Old ELSE data[c][j]]]

\* Pages to read at a miss, max_sane_readahead: off has been advanced by what is read, and
\* the rest of the file is taken to begin that much later again
CeilPages(n) == (n + PAGE - 1) \div PAGE
max_sane_readahead(nr, ahead, free, tot_nr) ==
    Min({CeilPages(nr) + ahead, free} \cup (IF tot_nr < 0 THEN {} ELSE {CeilPages(tot_nr)}))

\* One round of do_generic_file_read, for page p of a read of n units at off; acc = [st, out]
ReadPage(acc, p, off, n, ahead, free) ==
    LET at == IF off > p * PAGE THEN off ELSE p * PAGE
        cnt == max_sane_readahead(off + n - at, ahead, free, acc.st.ip.size - (at + (at - off)))
    IN  IF acc.out \/ p \in DOMAIN acc.st.ip.pages THEN acc
        ELSE IF cnt = 0 THEN [acc EXCEPT !.out = TRUE]
        ELSE [acc EXCEPT !.st = mpage_readpages(acc.st, p, cnt, TRUE, FALSE)]
do_generic_file_read(st, off, n, ahead, free) ==
    LET first == off \div PAGE
        last == (off + n - 1) \div PAGE
    IN  FoldLeft(LAMBDA acc, i : ReadPage(acc, first + i - 1, off, n, ahead, free),
                 [st |-> st, out |-> FALSE], [i \in 1..last - first + 1 |-> i]).st

\* mpage_writepage: all tagged pages go to disk, whole, and stay tagged; ASSERT(ret > 0)
mpage_writepage(st) ==
    IF st.ip.tags = {} THEN [st EXCEPT !.panic = "mpage_writepage"]
    ELSE fat32_cursor_to_offset(st, ThroughPage(Max(st.ip.tags)))
Flushed(data, ip) ==
    [c \in Cluster |-> [j \in 0..CLUSTER - 1 |->
        LET us == {u \in 0..MaxLen + PAGE : /\ u \div PAGE \in ip.tags /\ u % CLUSTER = j
                                            /\ (u \div CLUSTER) + 1 <= ip.cnt
                                            /\ ip.table[(u \div CLUSTER) + 1] = c}
        IN  IF us = {} THEN data[c][j]
            ELSE LET u == CHOOSE u \in us : TRUE IN ip.pages[u \div PAGE][u % PAGE]]]

\* sync_inode and the removal from the dirty list (fat32_i_mapping_writeback); st has also
\* disk, ents and ddirty.  fat32_inode_update writes the entry of a file that is not deleted
Unmapped(ip) == [ip EXCEPT !.pages = <<>>, !.tags = {}]
fat32_inode_update(st, ip) ==
    [st EXCEPT !.ddirty = @ \cup {Parent[ip.name]},
               !.ents[ip.name] = IF @ = NoEntry THEN @ ELSE [start |-> ip.start, size |-> ip.size]]
fat32_i_mapping_writeback(st) ==
    LET st1 == mpage_writepage(st)
        st2 == [st1 EXCEPT !.disk = Flushed(@, st1.ip), !.ip.dirty = FALSE]
    IN  IF ~st.ip.dirty \/ st.panic # "no" THEN st
        ELSE IF st.ip.inparent THEN fat32_inode_update(st2, st.ip) ELSE st2

-----------------------------------------------------------------------------
(* Calls on files and reclaim *)

\* No call is under way but, if Concurrent, a truncation that has released inode_table.lock
Idle == running /\ panic = "no" /\ (get = NoGet \/ (Concurrent /\ get.l > 0))
Linked(i) == inode[i].ref /\ inode[i].name \in File /\ inode[i].nlink = 1
WriteKind(off, n, size) ==
    IF off % PAGE = 0 THEN "aligned" ELSE IF off = size /\ n < PAGE THEN "append" ELSE "inside"

\* fat32_filewrite, fat32_inode_write: the inode joins the dirty list after the pages
\* are written; a longer file has to be updated in its directory
fat32_inode_write(i, off, n) ==
    LET ip == inode[i]
        st == do_generic_file_write([sb |-> sb, ip |-> ip, panic |-> "no"], ip.name, off, n)
    IN  /\ Idle /\ Linked(i)
        /\ off <= ip.size /\ off + n <= MaxLen /\ WriteKind(off, n, ip.size) \in Kinds
        /\ sb' = st.sb /\ panic' = st.panic
        /\ disk' = Outdated(disk, ip.name, off..off + n - 1)
        /\ inode' = [inode EXCEPT ![i] = [st.ip EXCEPT !.dirty = TRUE,
                                                       !.size = Max({ip.size, off + n}),
                                                       !.inparent = @ \/ off + n > ip.size]]
        /\ len' = [len EXCEPT ![ip.name] = Max({@, off + n})]
        /\ UNCHANGED <<dfat, dents, free0, ents, ddirty, get, power>>

\* An open with O_TRUNC: only the length in memory changes, clusters and pages stay
assist_openat(i) ==
    LET ip == inode[i]
    IN  /\ Idle /\ Linked(i) /\ ip.size > 0
        /\ disk' = Outdated(disk, ip.name, 0..MaxLen)
        /\ inode' = [inode EXCEPT ![i].size = 0,
                                  ![i].pages = [p \in DOMAIN @ |-> [j \in 0..PAGE - 1 |->
                                      IF @[p][j] = <<ip.name, p * PAGE + j>> THEN Old ELSE @[p][j]]]]
        /\ len' = [len EXCEPT ![ip.name] = 0]
        /\ UNCHANGED <<dfat, dents, free0, sb, ents, ddirty, get, power, panic>>

\* fat32_fileread, fat32_inode_read; n is clipped to the file
fat32_inode_read(i, off, n, ahead, free) ==
    LET ip == inode[i]
        st == do_generic_file_read([sb |-> sb, ip |-> ip, panic |-> "no"], off, n, ahead, free)
    IN  /\ Idle /\ Linked(i) /\ off + n <= ip.size
        /\ sb' = st.sb /\ panic' = st.panic /\ inode' = [inode EXCEPT ![i] = st.ip]
        /\ UNCHANGED <<disks, ents, ddirty, get, power, len>>

\* Mutant: mappings of dirty inodes are dropped too.
Reclaimed_Dirty(ip) == IF ip.ref THEN Unmapped(ip) ELSE ip
Reclaimed(ip) == IF ip.ref /\ ~ip.dirty THEN Unmapped(ip) ELSE ip

\* kmalloc has found no memory
alloc_fail ==
    /\ Idle
    /\ inode' = [i \in Slots |-> Reclaimed(inode[i])]
    /\ UNCHANGED <<disks, sb, ents, ddirty, get, power, panic, len>>

-----------------------------------------------------------------------------
(* fat32_inode_get, for an open, a create or an unlink, with the directory locked *)

Reachable(n) == Parent[n] = Root \/ \E i \in Slots : inode[i].ref /\ inode[i].name = Parent[n]

Lookup(kind, n) ==
    /\ running /\ panic = "no" /\ get = NoGet /\ Reachable(n) /\ ents[n] # NoEntry
    /\ kind = "open" \/ (kind = "unlink" /\ n \in File)
    /\ get' = [NoGet EXCEPT !.kind = kind, !.f = n, !.slot = 1]
    /\ UNCHANGED <<disks, sb, ents, ddirty, inode, power, panic, len>>

\* fat32_inode_create up to fat32_inode_get: the first cluster and the entry
fat32_inode_alloc(f) ==
    LET a == fat32_cluster_alloc(sb)
    IN  /\ running /\ panic = "no" /\ get = NoGet /\ Reachable(f) /\ ents[f] = NoEntry
        /\ panic' = a.panic
        /\ IF a.panic # "no" THEN UNCHANGED <<sb, ents, ddirty, get, len>>
           ELSE /\ sb' = Take(sb, a.c)
                /\ ents' = [ents EXCEPT ![f] = [start |-> a.c, size |-> 0]]
                /\ ddirty' = ddirty \cup {Parent[f]}
                /\ get' = [NoGet EXCEPT !.kind = "open", !.f = f, !.slot = 1]
                /\ len' = [len EXCEPT ![f] = 0]
        /\ UNCHANGED <<disks, inode, power>>

\* The scan of the table, up to the next slot where it does something
Scanning == running /\ panic = "no" /\ get # NoGet /\ get.l = 0
Unlinked(i) == inode[i].ref /\ inode[i].nlink = 0
Hit(i) == inode[i].ref /\ inode[i].name = get.f /\ inode[i].nlink # 0
Stops == {i \in get.slot..NINODE : Unlinked(i) \/ Hit(i)}

\* A deleted inode on the way: its i_sem is taken and the lock of the table released
ScanUnlinked ==
    /\ Scanning /\ Stops # {} /\ Unlinked(Min(Stops))
    /\ get' = [get EXCEPT !.slot = Min(Stops), !.l = 1]
    /\ UNCHANGED <<disks, sb, ents, ddirty, inode, power, panic, len>>

\* fat32_inode_trunc, for cluster get.l of the chain: FREE in the FAT and the bit cleared;
\* then FREE once more, without the lock; at the end the count and the slot
Truncating == running /\ panic = "no" /\ get.l > 0
Victim == inode[get.slot]
TruncClear ==
    LET c == Victim.table[get.l]
    IN  /\ Truncating /\ ~get.cleared /\ get.l <= Victim.cnt
        /\ panic' = IF Bit(c) \in sb.bits THEN "no" ELSE "fat32_bitmap_op"
        /\ sb' = [fat32_bitmap_op(sb, c) EXCEPT !.fat[c] = FREE_MASK]
        /\ get' = [get EXCEPT !.cleared = TRUE]
        /\ UNCHANGED <<disks, ents, ddirty, inode, power, len>>
TruncAgain ==
    /\ Truncating /\ get.cleared
    /\ sb' = [sb EXCEPT !.fat[Victim.table[get.l]] = FREE_MASK]
    /\ get' = [get EXCEPT !.l = @ + 1, !.cleared = FALSE]
    /\ UNCHANGED <<disks, ents, ddirty, inode, power, panic, len>>

\* Mutant: the clusters are not counted as free.
TruncEnd_NoCount ==
    /\ Truncating /\ get.l > Victim.cnt
    /\ inode' = [inode EXCEPT ![get.slot] = NoInode]
    /\ get' = [get EXCEPT !.l = 0]
    /\ UNCHANGED <<disks, sb, ents, ddirty, power, panic, len>>
TruncEnd ==
    /\ Truncating /\ get.l > Victim.cnt
    /\ sb' = [sb EXCEPT !.free = @ + Victim.cnt]
    /\ inode' = [inode EXCEPT ![get.slot] = NoInode]
    /\ get' = [get EXCEPT !.l = 0]
    /\ UNCHANGED <<disks, ents, ddirty, power, panic, len>>

\* What the caller of fat32_inode_get does with slot i of the table tab: nothing more for an
\* open; __unlink deletes the entry and fat32_inode_put writes the file back and unmaps it
Finish(tab, i) ==
    LET f == get.f
        st == fat32_i_mapping_writeback(
                  [sb |-> sb, ip |-> tab[i], panic |-> "no", disk |-> disk,
                   ents |-> [ents EXCEPT ![f] = NoEntry], ddirty |-> ddirty \cup {Parent[f]}])
    IN  IF get.kind = "open"
        THEN /\ inode' = tab /\ UNCHANGED <<disk, sb, ents, ddirty, panic, len>>
        ELSE /\ inode' = [tab EXCEPT ![i] = [Unmapped(st.ip) EXCEPT !.nlink = 0]]
             /\ disk' = Outdated(st.disk, f, 0..MaxLen)
             /\ sb' = st.sb /\ ents' = st.ents /\ ddirty' = st.ddirty /\ panic' = st.panic
             /\ len' = [len EXCEPT ![f] = -1]

GetHit ==
    /\ Scanning /\ Stops # {} /\ Hit(Min(Stops))
    /\ Finish(inode, Min(Stops)) /\ get' = NoGet
    /\ UNCHANGED <<dfat, dents, free0, power>>

\* fat32_inode_load_from_disk, at the first fat32_inode_lock
Loaded(n) ==
    LET e == ents[n]
        table == IF e.start = 0 THEN <<>> ELSE fat32_fat_travel(sb.fat, e.start)
    IN  [NoInode EXCEPT !.ref = TRUE, !.name = n, !.nlink = 1, !.size = e.size, !.start = e.start,
                        !.end = IF table = <<>> THEN 0 ELSE Last(table),
                        !.cnt = Len(table), !.table = table]

\* Not in the table: the first slot that is free and clean gets the inode
GetEmpty ==
    LET empty == {i \in Slots : ~inode[i].ref /\ ~inode[i].dirty}
        ip == Loaded(get.f)
    IN  /\ Scanning /\ Stops = {} /\ get' = NoGet
        /\ IF empty = {} \/ (ip.cnt > 0 /\ sb.fat[ip.end] = FREE_MASK)
           THEN /\ panic' = IF empty = {} THEN "no space" ELSE "fat32_fat_cache_get"
                /\ UNCHANGED <<disk, sb, ents, ddirty, inode, len>>
           ELSE Finish([inode EXCEPT ![Min(empty)] = ip], Min(empty))
        /\ UNCHANGED <<dfat, dents, free0, power>>

-----------------------------------------------------------------------------
(* Shutdown *)

\* The entries of a directory go to disk, if it is dirty
WriteDir(st, d) ==
    IF d \notin st.ddirty THEN st
    ELSE [st EXCEPT !.ddirty = @ \ {d},
                    !.dents = [n \in Name |-> IF Parent[n] = d THEN st.ents[n] ELSE @[n]]]
\* One slot of the table
WriteSlot(st, i) ==
    IF ~inode[i].ref THEN st
    ELSE IF inode[i].name \in Dir THEN WriteDir(st, inode[i].name)
    ELSE fat32_i_mapping_writeback([st EXCEPT !.ip = inode[i]])
\* Mutant: the root directory is written first.
WriteAll_RootFirst(st) ==
    FoldLeft(LAMBDA s, i : WriteSlot(s, i), WriteDir(st, Root), [i \in Slots |-> i])
\* The table in its order, then the root directory
WriteAll(st) ==
    WriteDir(FoldLeft(LAMBDA s, i : WriteSlot(s, i), st, [i \in Slots |-> i]), Root)

\* sys_shutdown; the FAT is written last, FSINFO not at all, and memory is lost
shutdown_writeback ==
    LET st == WriteAll([sb |-> sb, ip |-> NoInode, panic |-> "no", disk |-> disk, ents |-> ents,
                        ddirty |-> ddirty, dents |-> dents])
    IN  /\ running /\ panic = "no" /\ get = NoGet
        /\ disk' = st.disk /\ dents' = st.dents /\ panic' = st.panic
        /\ IF st.panic # "no" THEN UNCHANGED <<dfat, ents, ddirty, inode, running>> /\ sb' = st.sb
           ELSE /\ dfat' = fat32_fat_bitmap_writeback(st.sb) /\ running' = FALSE
                /\ sb' = NoSb /\ ents' = [n \in Name |-> NoEntry] /\ ddirty' = {}
                /\ inode' = [i \in Slots |-> NoInode]
        /\ UNCHANGED <<free0, get, lives, len>>

\* A panic stops the machine, and so does the last shutdown
Halted == (panic # "no" \/ (~running /\ lives = MaxLives)) /\ UNCHANGED vars

Next ==
    \/ fat32_fs_mount
    \/ \E i \in Slots, off \in 0..MaxLen, n \in 1..MaxLen :
          \/ fat32_inode_write(i, off, n)
          \/ fat32_inode_read(i, off, n, 0, 1)   \* memory is short
          \/ fat32_inode_read(i, off, n, MaxAhead, MaxLen)
    \/ \E i \in Slots : assist_openat(i)
    \/ alloc_fail
    \/ \E n \in Name, kind \in {"open", "unlink"} : Lookup(kind, n)
    \/ \E f \in File : fat32_inode_alloc(f)
    \/ ScanUnlinked \/ TruncClear \/ TruncAgain \/ TruncEnd \/ GetHit \/ GetEmpty
    \/ shutdown_writeback
    \/ Halted

Spec == Init /\ [][Next]_vars

-----------------------------------------------------------------------------
(* Properties *)

Up == running /\ panic = "no"
Held(i) == inode[i].ref /\ inode[i].name \in File
Absent(f) == ~\E i \in Slots : Linked(i) /\ inode[i].name = f

\* The clusters of a slot that are not yet truncated
Rest(i) ==
    LET l == IF get.l = 0 \/ get.slot # i THEN 1 ELSE get.l + (IF get.cleared THEN 1 ELSE 0)
    IN  SubSeq(inode[i].table, l, inode[i].cnt)
Chain(f) == IF ents[f].start = 0 THEN <<>> ELSE fat32_fat_travel(sb.fat, ents[f].start)

\* The FAT is the union of the chains of the files: the index table of an inode in the table
\* is its chain in the FAT, to the end, a file that is not in the table has its chain from its
\* entry, no cluster is in two chains or twice in one, and a cluster that is in none is free,
\* whatever was created, extended by a read or a write, unlinked or truncated (AppendCluster,
\* fat32_inode_trunc, fat32_fat_travel).
ChainsOwned ==
    Up => LET slots == {i \in Slots : Held(i)}
              files == {f \in File : Absent(f) /\ ents[f] # NoEntry}
              chains == [o \in slots \cup files |-> IF o \in slots THEN Rest(o) ELSE Chain(o)]
              used == {c \in Cluster : sb.fat[c] # FREE_MASK}
          IN  /\ \A o \in DOMAIN chains : IsInjective(chains[o])
              /\ \A o, p \in DOMAIN chains : o # p => ToSet(chains[o]) \cap ToSet(chains[p]) = {}
              /\ used = {2} \cup UNION {ToSet(chains[o]) : o \in DOMAIN chains}
              /\ \A i \in slots : /\ inode[i].cnt = Len(inode[i].table)
                                  /\ Rest(i) # <<>> => /\ Rest(i) = fat32_fat_travel(sb.fat, Head(Rest(i)))
                                                       /\ inode[i].end = Last(Rest(i))

\* Between two calls the bitmap has the bits of the clusters in use, and the count of free
\* clusters is exact but for those of a truncation that is under way (fat32_bitmap_alloc and
\* fat32_cluster_alloc against fat32_inode_trunc).
FreeExact ==
    Up => /\ sb.bits = {Bit(c) : c \in {c \in Entry : sb.fat[c] # FREE_MASK}}
          /\ sb.free + (IF get.l = 0 THEN 0 ELSE get.l - 1 + (IF get.cleared THEN 1 ELSE 0))
                = Cardinality({c \in Cluster : sb.fat[c] = FREE_MASK})

\* A read of a file that is open finds its length and, at every place, the last unit written,
\* be it in the page cache or on disk, after any reclaim of the cache (do_generic_file_write,
\* alloc_fail): an inode whose mapping is dropped has nothing that is not on disk.
ReadsLastWrite ==
    Up => \A i \in Slots : Linked(i) =>
            /\ inode[i].size = len[inode[i].name]
            /\ \A u \in 0..inode[i].size - 1 :
                  <<inode[i].name, u>> = IF u \div PAGE \in DOMAIN inode[i].pages
                                         THEN inode[i].pages[u \div PAGE][u % PAGE]
                                         ELSE DiskUnit(inode[i], u)

\* After a shutdown the disk alone has every file that exists, with its length and its last
\* writes, each on clusters of its own, and no other file (shutdown_writeback, mpage_writepage,
\* sync_inode, fat32_fat_bitmap_writeback).  A length of 0 is not claimed: O_TRUNC does not
\* make an inode dirty, and a file that is not written after it has its old length again.
Durable ==
    ~running =>
        LET chain(f) == IF dents[f].start = 0 THEN <<>> ELSE fat32_fat_travel(dfat, dents[f].start)
        IN  \A f \in File :
              /\ len[f] # 0 => dents[f].size = len[f]
              /\ dents[f] = NoEntry <=> len[f] = -1
              /\ \A u \in 0..len[f] - 1 :
                    /\ (u \div CLUSTER) + 1 <= Len(chain(f))
                    /\ disk[chain(f)[(u \div CLUSTER) + 1]][u % CLUSTER] = <<f, u>>
              /\ \A g \in File \ {f} : len[f] >= 0 /\ len[g] >= 0 =>
                    ToSet(chain(f)) \cap ToSet(chain(g)) = {}

\* The kernel panics only when the disk is full: no assertion of the page cache, the allocator
\* or the inode table fails, and a slot is found for every file, deleted inodes being truncated
\* by the scan that looks for one (fat32_inode_get, fat32_cluster_alloc, fat32_bitmap_op).
PanicsOnlyWhenFull ==
    panic = "no" \/ (panic = "no disk space" /\ \A c \in Cluster : sb.fat[c] # FREE_MASK)

=============================================================================
