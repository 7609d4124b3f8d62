------------------------------- MODULE Answers -------------------------------
(***************************************************************************)
(* What the programs should print, as a function of the image alone.       *)
(***************************************************************************)
EXTENDS FileSystem
LOCAL INSTANCE SequencesExt
LOCAL INSTANCE FiniteSetsExt

CONSTANT LongestLine   \* grep promises nothing for longer lines

EndOfLine == "\n"

Named(name) == Min(EntriesFor(name))
ListedName(i) == Cut(direntries[i].filename)

\* The whole file, the names of the directory, nothing of the clock.
CatAnswer(name) ==
  LET e == direntries[Named(name)] IN
  CASE e.filetype = "file" -> Texts[e.inode_num]
    [] e.filetype = "dir" -> FlattenSeq([i \in DOMAIN direntries |->
                                           ListedName(i)])
    [] e.filetype = "rtc" -> <<>>

LsAnswer == FlattenSeq([i \in DOMAIN direntries |->
                          ListedName(i) \o <<EndOfLine>>])

\* The lines of a text: what lies between newlines.
LineStarts(t) == {p \in 1 .. Len(t) : p = 1 \/ t[p - 1] = EndOfLine}
LineAt(t, p) ==
  SubSeq(t, p, Min({q \in p .. Len(t) : t[q] = EndOfLine} \cup {Len(t) + 1}) - 1)
LinesOf(t) == FlattenSeq([p \in DOMAIN t |->
                IF p \in LineStarts(t) THEN <<LineAt(t, p)>> ELSE <<>>])

HasIn(s, l) == \E k \in 0 .. Len(l) - Len(s) : SubSeq(l, k + 1, k + Len(s)) = s

\* grep is for texts: no NUL, and lines that fit its buffer.
IsText(t) ==
  /\ "NUL" \notin {t[p] : p \in 1 .. Len(t)}
  /\ \A p \in LineStarts(t) : Len(LineAt(t, p)) <= LongestLine

\* Every line of every text that contains s, after the name of its file.
Prefix(i) == ListedName(i) \o <<":">>
TextFiles == {i \in DOMAIN direntries :
            direntries[i].filetype = "file"
            /\ IsText(Texts[direntries[i].inode_num])}
LinesWith(s, t) == FlattenSeq([p \in DOMAIN t |->
                     IF p \in LineStarts(t) /\ HasIn(s, LineAt(t, p))
                       THEN <<LineAt(t, p)>> ELSE <<>>])
GrepAnswer(s) ==
  FlattenSeq([i \in DOMAIN direntries |->
    LET found == LinesWith(s, Texts[direntries[i].inode_num])
    IN IF i \in TextFiles THEN [k \in DOMAIN found |-> Prefix(i) \o found[k]]
       ELSE <<>>])

\* Those of the lines that come from texts.
FromTexts(lines) ==
  FlattenSeq([k \in DOMAIN lines |->
    IF \E i \in TextFiles : IsPrefix(Prefix(i), lines[k])
      THEN <<lines[k]>> ELSE <<>>])

\* The number that decimal digits stand for.
ValueOf(c) == CHOOSE d \in 0 .. 9 :
                <<"0", "1", "2", "3", "4", "5", "6", "7", "8", "9">>[d + 1] = c
Numeral(digits) ==
  LET value[k \in 0 .. Len(digits)] ==
        IF k = 0 THEN 0 ELSE 10 * value[k - 1] + ValueOf(digits[k])
  IN value[Len(digits)]
IsNumeralOf(digits, n) == digits # <<>> /\ digits[1] # "0" /\ Numeral(digits) = n
=============================================================================
