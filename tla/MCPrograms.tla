----------------------------- MODULE MCPrograms -----------------------------
(***************************************************************************)
(* An image for TLC: the directory, the clock, a text of four lines in     *)
(* blocks that are not in order, two of whose lines cross the end of a     *)
(* buffer; a text of three bytes, one of a block, an empty one, and the    *)
(* programs.  The name of the first text has FILENAME_LEN characters.      *)
(***************************************************************************)
EXTENDS Programs, TLC

Entry(name, type, n) == [filename |-> name, filetype |-> type, inode_num |-> n]
Directory ==
  <<Entry(<<".">>, "dir", 0), Entry(<<"r">>, "rtc", 0),
    Entry(<<"t", "x">>, "file", 1), Entry(<<"b">>, "file", 2),
    Entry(<<"k">>, "file", 3), Entry(<<"o">>, "file", 4),
    Entry(<<"c">>, "file", 5), Entry(<<"l">>, "file", 6),
    Entry(<<"g">>, "file", 7), Entry(<<"n">>, "file", 8),
    Entry(<<"f">>, "file", 9), Entry(<<"s">>, "file", 10),
    Entry(<<"a">>, "file", 11)>>

TextOf ==
  <<<<"u", "v", "\n", "u", "w", "u", "v", "\n", "\n", "w", "u">>,
    <<"u", "v", "w">>, <<"w", "u">>, <<>>,
    <<"ELF", "cat">>, <<"ELF", "ls">>, <<"ELF", "grep">>,
    <<"ELF", "counter", NUL, "\n">>, <<"ELF", "sigtest">>,
    <<"ELF", "syserr">>, <<"ELF", "any">>>>

\* Block p of inode n is block 6 * n + 5 - p of the image.
ImageTexts == 0 :> <<>> @@ [n \in 1 .. 11 |-> TextOf[n]]
ImageInodes == [n \in 0 .. 11 |->
  [length |-> Len(ImageTexts[n]),
   data_block_num |-> [p \in 0 .. 5 |-> 6 * n + 5 - p]]]
ImageBlocks == [b \in 0 .. 71 |-> [i \in 0 .. 1 |->
  LET at == 2 * (5 - (b % 6)) + i + 1 IN
  IF at <= Len(ImageTexts[b \div 6]) THEN ImageTexts[b \div 6][at] ELSE "-"]]

\* A name of each kind of entry, a long one in full, one that is not there.
OpenNames == {<<".">>, <<"r">>, <<"b">>, <<"q">>}
Fds == -1 .. NUM_FD
ReadSizes == {-1, 0, 1}

CommandLines ==
  {<<>>, <<"e", "x", "i", "t">>,
   <<"c", " ">>, <<"c", " ", "t", "x", "t">>, <<"c", " ", ".">>,
   <<"c", " ", "r">>, <<"c", " ", "q">>, <<"l">>,
   <<"g", " ", "u", "v">>, <<"g", " ", "u">>, <<"n">>, <<"s">>, <<"a">>,
   <<"f", " ", "1">>, <<"t", "x">>, <<"q", " ", "b">>, <<".">>}
Typed == {<<>>, <<"0">>, <<"2">>, <<"9">>, <<"1", "1">>}
Choices == "0" :> 12 @@ "1" :> 1 @@ "2" :> 2
SyserrNames == <<<<"c", "c">>, <<"t">>, <<>>>>
Returns == {2, 256, -1}
Raised == {0, 6}
Instructions == {3, 39}
StrayVectors == {39, 47}
Shells == <<"h">>

\* The image is one that the theorems about the programs are about.
ASSUME ImageIsSearched == SearchedImage
ASSUME ImageTestsSyserr == SyserrImage
=============================================================================
