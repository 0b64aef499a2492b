-------------------------------- MODULE Fat --------------------------------
(***************************************************************************)
(* The FAT in memory (src/src/fs/fat32/fat32_disk.c and the cluster part   *)
(* of fat32_inode.c): a copy of the table, a bitmap of used clusters with  *)
(* a count and a hint, and the index table of an inode, which caches its   *)
(* chain.  The operators are the functions of the code on the super block  *)
(*   sb = [fat, bits, free, nxt, hint]                                     *)
(* (fat_table, bit_map, free_count, nxt_free, hint_valid) and on the       *)
(* cluster fields of an inode, ip = [start, end, cnt, table, ...].         *)
(***************************************************************************)
EXTENDS Integers, Sequences, FiniteSets, FiniteSetsExt, SequencesExt

CONSTANTS FAT_CLUSTER_MAX,  \* the last cluster; 0 and 1 are reserved, 2 is the root directory
          WORD,             \* bits of a word of the bitmap: 64
          INT_BITS          \* bits of an int, in which SET_BIT, CLEAR_BIT and TEST_BIT shift: 32

ASSUME FatAssumption ==
    /\ FAT_CLUSTER_MAX \in Nat /\ FAT_CLUSTER_MAX > 3
    /\ WORD \in Nat \ {0} /\ INT_BITS \in Nat \ {0}

Cluster == 2..FAT_CLUSTER_MAX
Entry == 0..FAT_CLUSTER_MAX
FREE_MASK == 0
EOC == FAT_CLUSTER_MAX + 1

\* The bit that 1 << pos is for the position of a cluster in its word
Bit(c) == <<c \div WORD, (c % WORD) % INT_BITS>>

\* Each entry in turn sets or clears its bit; the last one for a bit counts
fat32_fat_bitmap_init(fat) ==
    {b \in {Bit(c) : c \in Entry} : fat[Max({c \in Entry : Bit(c) = b})] # FREE_MASK}

\* Every entry goes to disk
fat32_fat_bitmap_writeback(sb) == [c \in Entry |-> sb.fat[c]]

\* The first clear bit from the hint on, 0 if there is none; the outer loop stops at
\* FAT_CLUSTER_MAX when that is the first bit of a word
fat32_bitmap_alloc(bits, hint) ==
    LET scanned == {c \in hint..FAT_CLUSTER_MAX :
                        /\ hint < FAT_CLUSTER_MAX
                        /\ c < FAT_CLUSTER_MAX \/ FAT_CLUSTER_MAX % WORD # 0}
        clear == {c \in scanned : Bit(c) \notin bits}
    IN  IF clear = {} THEN 0 ELSE Min(clear)

\* nxt_free after the search has returned c
NextFree(c) == IF c + 1 >= FAT_CLUSTER_MAX THEN 3 ELSE c + 1

\* Mutant: the cluster is not counted.
Take_NoCount(sb, c) ==
    [sb EXCEPT !.fat[c] = EOC, !.bits = @ \cup {Bit(c)}, !.nxt = NextFree(c), !.hint = TRUE]
\* The cluster found is marked in the bitmap, ends a chain, and the search goes on behind it
Take(sb, c) ==
    [sb EXCEPT !.fat[c] = EOC, !.bits = @ \cup {Bit(c)}, !.free = @ - 1,
               !.nxt = NextFree(c), !.hint = TRUE]

\* A search that fails starts again from the beginning, and again for ever if that fails;
\* the second component is a panic, or "retry for ever"
fat32_cluster_alloc(sb) ==
    LET first == fat32_bitmap_alloc(sb.bits, IF sb.hint THEN sb.nxt ELSE 0)
        c == IF first # 0 THEN first ELSE fat32_bitmap_alloc(sb.bits, NextFree(0))
    IN  [c |-> c,
         panic |-> CASE sb.free = 0 -> "no disk space"
                     [] sb.free # 0 /\ c = 0 -> "retry for ever"
                     [] sb.free # 0 /\ c = 1 -> "fat32_fat_cache_set"
                     [] OTHER -> "no"]

\* The chain from a cluster on: the index table that fat32_inode_load_from_disk fills
fat32_fat_travel(fat, start) ==
    LET walk[n \in Entry] ==
            IF n = 0 THEN <<start>>
            ELSE LET chain == walk[n - 1]
                     next == fat[Last(chain)]
                 IN  IF next \in Cluster THEN Append(chain, next) ELSE chain
    IN  walk[FAT_CLUSTER_MAX]

\* Mutant: the old end of the chain keeps its EOC.
Link_NoSet(sb, end, c) == Take(sb, c)
Link(sb, end, c) == [Take(sb, c) EXCEPT !.fat[end] = c]

\* One more cluster at the end of the chain of an inode; st = [sb, ip, panic].  A file that has
\* no cluster yet has end 0, which fat32_fat_cache_set refuses
AppendCluster(st) ==
    LET a == fat32_cluster_alloc(st.sb)
        why == IF a.panic # "no" \/ st.ip.end \in Cluster THEN a.panic ELSE "fat32_fat_cache_set"
    IN  IF st.panic # "no" THEN st
        ELSE IF why # "no" THEN [st EXCEPT !.panic = why]
        ELSE [st EXCEPT !.sb = Link(st.sb, st.ip.end, a.c),
                        !.ip.end = a.c, !.ip.cnt = @ + 1, !.ip.table = Append(@, a.c)]

\* The loop of fat32_cursor_to_offset: the chain gets at least l clusters
fat32_cursor_to_offset(st, l) ==
    FoldLeft(LAMBDA s, i : AppendCluster(s), st, [i \in 1..(l - st.ip.cnt) |-> i])

\* fat32_bitmap_op(sb, cluster, 0), which asserts that the bit is set
fat32_bitmap_op(sb, c) == [sb EXCEPT !.bits = @ \ {Bit(c)}]

=============================================================================
