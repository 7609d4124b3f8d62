----------------------------- MODULE FileSystem -----------------------------
(***************************************************************************)
(* The read-only file system image (file.h) and the functions of file.c    *)
(* that read it.  The image is a constant; Texts is what createfs put into *)
(* it, and ImageAssumption says that the blocks hold it.  A text is a      *)
(* sequence of characters, which are strings; arrays are indexed from 0.   *)
(***************************************************************************)
EXTENDS Integers, Sequences

CONSTANTS
  FILENAME_LEN,   \* characters of a name that are stored and compared
  BLOCK_SIZE,     \* bytes in a data block
  WORD,           \* values of an unsigned word: 2^32
  direntries,     \* the used directory entries
  inode_count, data_count,
  inode,          \* length and data_block_num of each inode
  data_block,     \* the bytes of each data block
  Texts           \* the content of each inode's file

\* Entries of the directory and, in read_data, the greatest inode number.
ENTRIES_NUM == 63

Kinds == {"rtc", "dir", "file"}
NULL == -1
Cut(name) == IF Len(name) <= FILENAME_LEN THEN name
             ELSE SubSeq(name, 1, FILENAME_LEN)
Least(m, n) == IF m <= n THEN m ELSE n

ASSUME SizeAssumption ==
  /\ FILENAME_LEN \in Nat \ {0} /\ BLOCK_SIZE \in Nat \ {0}
  /\ WORD \in Nat \ {0}
  /\ inode_count \in 0 .. ENTRIES_NUM + 1 /\ data_count \in Nat

ASSUME DirectoryAssumption ==
  /\ DOMAIN direntries = 1 .. Len(direntries)
  /\ \A i \in DOMAIN direntries :
       /\ direntries[i].filetype \in Kinds
       /\ direntries[i].inode_num \in 0 .. inode_count - 1
       /\ direntries[i].filename \in Seq(STRING)

ASSUME ImageAssumption ==
  \A n \in 0 .. inode_count - 1 :
    /\ Texts[n] \in Seq(STRING)
    /\ inode[n].length = Len(Texts[n])
    /\ inode[n].length <= data_count * BLOCK_SIZE
    /\ inode[n].length < WORD
    /\ \A p \in 0 .. Len(Texts[n]) - 1 :
         data_block[inode[n].data_block_num[p \div BLOCK_SIZE]]
                   [p % BLOCK_SIZE] = Texts[n][p + 1]

\* The first entry with this name, or none: the searches of sys_open and of
\* sys_execute.
EntriesFor(name) == {i \in 1 .. Len(direntries) :
                       Cut(direntries[i].filename) = Cut(name)}

\* A length passed as int32_t to a function that takes it as uint32_t.
Unsigned(n) == n % WORD

Failed == [code |-> -1, bytes |-> <<>>]
Bytes(b) == [code |-> Len(b), bytes |-> b]

FirstBlock(n, p) == data_block[inode[n].data_block_num[0]][p % BLOCK_SIZE]
ByteAt(n, p) ==
  data_block[inode[n].data_block_num[p \div BLOCK_SIZE]][p % BLOCK_SIZE]

\* read_data for an inode that a directory entry names.
read_data(n, offset, null, length) ==
  IF \/ n > inode_count \/ n > ENTRIES_NUM
     \/ length = 0 \/ null
     \/ offset > inode[n].length
     \/ offset \div BLOCK_SIZE > data_count
    THEN Failed
    ELSE Bytes([i \in 1 .. Least(length, inode[n].length - offset) |->
                  ByteAt(n, offset + i - 1)])
=============================================================================
