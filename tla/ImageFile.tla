----------------------------- MODULE ImageFile -----------------------------
(***************************************************************************)
(* tools/mkkfs: the file system image of the ROMs, written block by block, *)
(* with the layout of k/kfs.h.  A file is a sequence of bytes, here the    *)
(* pairs of the file and the place; the image maps the index of a block to *)
(* what was last written there.  Names, times and checksums are left out.  *)
(***************************************************************************)
EXTENDS Integers, Sequences

CONSTANTS
    DataSize,       \* KFS_BLK_DATA_SZ, 4084
    Direct,         \* KFS_DIRECT_BLK, 10
    Indirect,       \* KFS_INDIRECT_BLK, 16
    PerIndirect,    \* KFS_INDIRECT_BLK_CNT, 16
    Sizes,          \* sizes of the files given
    MaxFiles        \* bound: how many are given

Missing == -1       \* the size of a file that cannot be opened
MaxFileSize == (Direct + Indirect * PerIndirect) * DataSize

VARIABLES
    files,          \* the sizes of the files on the command line
    image,
    n,              \* the file being written, from 1
    read,           \* bytes of it read
    inode, iblock,  \* as built so far in memory
    blk_idx,        \* the next block
    step            \* "open", "direct", "indirect", "super", "done", "failed"

vars == <<files, image, n, read, inode, iblock, blk_idx, step>>

Content(f, size) == [i \in 1..size |-> <<f, i>>]
Put(at, record) == image' = [i \in DOMAIN image \cup {at} |->
                                IF i = at THEN record ELSE image[i]]
NoIblock == [blks |-> <<>>]

Init ==
    /\ files \in UNION {[1..m -> Sizes \cup {Missing}] : m \in 1..MaxFiles}
    /\ image = <<>> /\ n = 1 /\ read = 0 /\ step = "open"
    /\ inode = [idx |-> 0] /\ iblock = NoIblock
    /\ blk_idx = Len(files) + 1

\* The test of the descriptor is for 0: the failure to open shows when a block
\* is read.
Open ==
    /\ step = "open"
    /\ IF files[n] > MaxFileSize
       THEN step' = "failed" /\ UNCHANGED <<inode, read>>
       ELSE /\ step' = "direct" /\ read' = 0
            /\ inode' = [idx |-> n, inumber |-> n, file_sz |-> files[n],
                         next_inode |-> IF n = Len(files) THEN 0 ELSE n + 1,
                         blk_cnt |-> (files[n] + DataSize - 1) \div DataSize,
                         d_blks |-> <<>>, i_blks |-> <<>>]
    /\ UNCHANGED <<files, image, n, iblock, blk_idx>>

ReadFails ==
    /\ step \in {"direct", "indirect"} /\ files[n] = Missing
    /\ step' = "failed"
    /\ UNCHANGED <<files, image, n, read, inode, iblock, blk_idx>>

\* kfs_read_block, and the block written at the next index.
WriteBlock ==
    LET last == IF read + DataSize < files[n] THEN read + DataSize ELSE files[n]
    IN  /\ read < files[n]
        /\ Put(blk_idx, [idx |-> blk_idx, usage |-> last - read,
                         data |-> SubSeq(Content(n, files[n]), read + 1, last)])
        /\ read' = last /\ blk_idx' = blk_idx + 1

DirectBlock ==
    /\ step = "direct" /\ Len(inode.d_blks) < Direct
    /\ WriteBlock
    /\ inode' = [inode EXCEPT !.d_blks = Append(@, blk_idx)]
    /\ UNCHANGED <<files, n, iblock, step>>
ToIndirect ==
    /\ step = "direct" /\ Len(inode.d_blks) = Direct
    /\ step' = "indirect"
    /\ UNCHANGED <<files, image, n, read, inode, iblock, blk_idx>>
IndirectBlock ==
    /\ step = "indirect" /\ Len(inode.i_blks) < Indirect /\ Len(iblock.blks) < PerIndirect
    /\ WriteBlock
    /\ iblock' = [blks |-> Append(iblock.blks, blk_idx)]
    /\ UNCHANGED <<files, n, inode, step>>

Exhausted == files[n] # Missing /\ read = files[n]

\* An index block goes behind the blocks it lists.
BugEndIblock ==
    /\ step = "indirect" /\ iblock.blks # <<>>
    /\ Len(iblock.blks) = PerIndirect \/ Exhausted
    /\ Put(blk_idx, [idx |-> blk_idx, blks |-> iblock.blks])
    /\ inode' = [inode EXCEPT !.i_blks = Append(@, blk_idx)]
    /\ iblock' = NoIblock
    /\ UNCHANGED <<files, n, read, step, blk_idx>>
EndIblock ==
    /\ step = "indirect" /\ iblock.blks # <<>>
    /\ Len(iblock.blks) = PerIndirect \/ Exhausted
    /\ Put(blk_idx, [idx |-> blk_idx, blks |-> iblock.blks])
    /\ inode' = [inode EXCEPT !.i_blks = Append(@, blk_idx)]
    /\ iblock' = NoIblock /\ blk_idx' = blk_idx + 1
    /\ UNCHANGED <<files, n, read, step>>

\* The end of kfs_write_inode: its file is at its end, or has filled the inode.
WriteInode ==
    /\ \/ step = "direct" /\ Exhausted /\ Len(inode.d_blks) < Direct
       \/ /\ step = "indirect" /\ iblock.blks = <<>>
          /\ Exhausted \/ Len(inode.i_blks) = Indirect
    /\ Put(inode.idx, inode)
    /\ IF n = Len(files) THEN step' = "super" /\ UNCHANGED n
       ELSE step' = "open" /\ n' = n + 1
    /\ UNCHANGED <<files, read, inode, iblock, blk_idx>>

WriteSuperblock ==
    /\ step = "super" /\ step' = "done"
    /\ Put(0, [blk_cnt |-> blk_idx, inode_idx |-> 1, inode_cnt |-> Len(files)])
    /\ UNCHANGED <<files, n, read, inode, iblock, blk_idx>>

Next == Open \/ ReadFails \/ DirectBlock \/ ToIndirect \/ IndirectBlock
        \/ EndIblock \/ WriteInode \/ WriteSuperblock

Spec == Init /\ [][Next]_vars

-----------------------------------------------------------------------------
\* What a block of the image is used for: file f's inode <<f, 0, 0>>, its k-th
\* direct block <<f, 0, k>>, its j-th index block <<f, j, 0>>, or the k-th block
\* that one lists, <<f, j, k>>.
Uses(f) ==
    {<<f, 0, k>> : k \in 0..Len(image[f].d_blks)}
    \cup UNION {{<<f, j, k>> : k \in 0..Len(image[image[f].i_blks[j]].blks)} :
                   j \in DOMAIN image[f].i_blks}
At(use) ==
    LET ino == image[use[1]]
        j == use[2]
        k == use[3]
    IN  IF j = 0 THEN IF k = 0 THEN use[1] ELSE ino.d_blks[k]
        ELSE IF k = 0 THEN ino.i_blks[j] ELSE image[ino.i_blks[j]].blks[k]
Holding(uses) == {use \in uses : use[3] # 0}

\* Which block of its file it is, and what that has of it.
Number(use) == IF use[2] = 0 THEN use[3] ELSE Direct + (use[2] - 1) * PerIndirect + use[3]
Part(f, number) ==
    SubSeq(Content(f, files[f]), (number - 1) * DataSize + 1,
           IF number * DataSize < files[f] THEN number * DataSize ELSE files[f])

\* The image has its superblock only when every file is in it, whole, in the
\* order given, each block at the index it bears, of use, and for one thing only.
FoundAgain ==
    0 \in DOMAIN image =>
        LET inodes == 1..image[0].inode_cnt
            uses == UNION {Uses(f) : f \in inodes}
        IN  /\ inodes = DOMAIN files
            /\ DOMAIN image = 0..(image[0].blk_cnt - 1)
            /\ {At(use) : use \in uses} = DOMAIN image \ {0}
            /\ \A use, other \in uses : At(use) = At(other) => use = other
            /\ \A i \in DOMAIN image \ {0} : image[i].idx = i
            /\ \A use \in Holding(uses) : image[At(use)].data = Part(use[1], Number(use))
            /\ \A f \in inodes :
                  /\ {Number(use) : use \in Holding(Uses(f))} = 1..image[f].blk_cnt
                  /\ \E missing \in 0..(DataSize - 1) :
                        image[f].blk_cnt * DataSize = image[f].file_sz + missing
                  /\ image[f].file_sz = files[f]
                  /\ image[f].next_inode = (f + 1) % (image[0].inode_cnt + 1)
=============================================================================
