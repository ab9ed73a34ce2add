----------------------------- MODULE UnifiedDiff -----------------------------
(***************************************************************************)
(* The unified-diff parser (serve/src/diff.ts, and its port to the browser *)
(* in assets/app.js), reading what git writes for a list of changed files. *)
(*                                                                         *)
(* A step is a piece of git's output, a file header or a line of a hunk,   *)
(* and the parser reading it.  written keeps what git meant, and parsed    *)
(* what the parser has made of it.                                         *)
(*                                                                         *)
(* Texts are sequences of tokens.  Dashes and Pluses are the tokens "-- "  *)
(* and "++ ": behind a marker they look like the start of a file name.  CR *)
(* and Space are blanks.  The parser takes a CR at the end of a line away, *)
(* and the broker the blanks at the end of the whole output.               *)
(* The broker's git detects renames and never copies; the parser treats    *)
(* the two alike, so that copies are left out.                             *)
(***************************************************************************)
EXTENDS Integers, Sequences, SequencesExt, FiniteSets

CONSTANTS
  Paths,      \* the names of files
  Ambiguous,  \* the names with " and " in them
  Inputs,     \* the changed files git is given, without their hunks
  Lines,      \* the lines of hunks, as <<type, text>>
  MaxFiles,   \* bound: changed files
  MaxHunks,   \* bound: hunks of a file
  MaxLines,   \* bound: lines in all hunks
  None,       \* null: no such file, no such line, no mode
  Unseen,     \* undefined: no line has told a path yet
  Garbled     \* what is read where there is no name

Dashes == "-- "
Pluses == "++ "
CR     == "\r"
Space  == " "
Blanks == {CR, Space}

VARIABLES
  written,  \* the files git has written so far, the last one maybe in part
  parsed,   \* the parser: files, draft and hunk
  ended     \* the whole output has been read

vars == <<written, parsed, ended>>

-----------------------------------------------------------------------------
(* What git writes.                                                        *)

\* The percentage that git writes for a renamed file.
Similar == 90

\* A changed file: its names, whether its mode changed, whether it is binary, and
\* its hunks.  A hunk has the numbers of its first lines, and its lines.
Change(old, new, chmod, binary, similarity) ==
  [old |-> old, new |-> new, chmod |-> chmod, binary |-> binary,
   similarity |-> similarity, hunks |-> <<>>]

ChangesOf(p) ==
  {Change(p, p, FALSE, binary, None) : binary \in BOOLEAN}
    \cup {Change(p, p, TRUE, FALSE, None)}
    \cup {Change(None, p, FALSE, binary, None) : binary \in BOOLEAN}
    \cup {Change(p, None, FALSE, binary, None) : binary \in BOOLEAN}
    \cup {Change(p, q, FALSE, FALSE, Similar) : q \in Paths \ {p}}

Changes == UNION {ChangesOf(p) : p \in Paths}

Line(is, what) == [is |-> is, what |-> what]

SidesOf(f) == [a |-> f.old, b |-> f.new]

\* The lines before the first hunk.  The names after ---, +++ and in "Binary files"
\* are null for a file that is not there.
HeaderLines(f) ==
  <<Line("diff --git", IF f.old = None THEN [a |-> f.new, b |-> f.new]
                       ELSE IF f.new = None THEN [a |-> f.old, b |-> f.old]
                       ELSE SidesOf(f))>>
    \o (IF f.chmod THEN <<Line("old mode", "100644"), Line("new mode", "100755")>> ELSE <<>>)
    \o (IF f.new = None THEN <<Line("deleted file mode", "100644")>> ELSE <<>>)
    \o (IF f.old = None THEN <<Line("new file mode", "100644")>> ELSE <<>>)
    \o (IF f.similarity # None
        THEN <<Line("similarity index", f.similarity), Line("rename from", f.old),
               Line("rename to", f.new)>> ELSE <<>>)
    \o (IF f.binary THEN <<Line("Binary files", SidesOf(f))>> ELSE <<>>)

\* The names come right before the first hunk, and only if there is one.
FirstHunkLines(f) == IF f.hunks = <<>> THEN <<Line("---", f.old), Line("+++", f.new)>> ELSE <<>>

-----------------------------------------------------------------------------
(* What the parser reads.                                                  *)

\* interface DiffLine, DiffHunk, DiffFile and Draft.  An open hunk counts its lines.
Types == {"context", "add", "del"}

DiffLines ==
  [type : Types, text : Seq(STRING), oldNo : Nat \cup {None},
   newNo : Nat \cup {None}, noNewline : BOOLEAN]

DiffHunks == [old : Nat, new : Nat, lines : Seq(DiffLines)]

OpenHunks ==
  [old : Nat, new : Nat, lines : Seq(DiffLines), oldNext : Nat, newNext : Nat]

Modes == {None, "100644", "100755"}

DiffFiles ==
  [oldPath : Paths \cup {None, Garbled}, newPath : Paths \cup {None, Garbled},
   similarity : {None, Similar}, oldMode : Modes, newMode : Modes, isBinary : BOOLEAN,
   status : {"renamed", "added", "deleted", "modified"}, additions : Nat, deletions : Nat,
   hunks : Seq(DiffHunks)]

Drafts ==
  [names : [a : Paths, b : Paths], old : Paths \cup {None, Unseen, Garbled},
   new : Paths \cup {None, Unseen, Garbled}, oldMode : Modes, newMode : Modes,
   similarity : {None, Similar}, isBinary : BOOLEAN, isRename : BOOLEAN,
   isNewFile : BOOLEAN, isDeletedFile : BOOLEAN, hunks : Seq(DiffHunks)]

ASSUME UnifiedDiffAssumption ==
  /\ Ambiguous \subseteq Paths
  /\ {None, Unseen, Garbled} \cap Paths = {}
  /\ Unseen \notin {None, Garbled}
  /\ None \notin {Garbled} \cup Nat \cup OpenHunks \cup Drafts
  /\ Inputs \subseteq Changes
  /\ Lines \subseteq Types \X Seq(STRING)
  \* a line "--- " or "+++ " with only blanks behind it is left out: at the end of the
  \* output, the broker would make another line of it
  /\ \A l \in Lines : l[2] # <<>> =>
       /\ l[2][Len(l[2])] \notin {Dashes, Pluses}
       /\ l[2][1] \in {Dashes, Pluses} => l[2][Len(l[2])] \notin Blanks
  /\ {MaxFiles, MaxHunks, MaxLines} \subseteq Nat

NoParse == [files |-> <<>>, draft |-> None, hunk |-> None]

NewDraft(names) ==
  [names |-> names, old |-> Unseen, new |-> Unseen, oldMode |-> None, newMode |-> None,
   similarity |-> None, isBinary |-> FALSE, isRename |-> FALSE, isNewFile |-> FALSE,
   isDeletedFile |-> FALSE, hunks |-> <<>>]

Seen(path) == IF path = Unseen THEN None ELSE path

Count(hunks, type) ==
  Cardinality(UNION {{<<k, i>> : i \in {j \in 1 .. Len(hunks[k].lines) :
                                         hunks[k].lines[j].type = type}} :
                     k \in 1 .. Len(hunks)})

\* The names of the "diff --git" line count only if nothing else told one; a line
\* with two equal halves is then split in the middle.
FinalizeDraft(d) ==
  LET none == d.old = Unseen /\ d.new = Unseen
      old  == IF none THEN d.names.a ELSE Seen(d.old)
      new  == IF none THEN d.names.b ELSE Seen(d.new)
  IN [oldPath |-> old, newPath |-> new, similarity |-> d.similarity,
      oldMode |-> d.oldMode, newMode |-> d.newMode, isBinary |-> d.isBinary,
      status |-> IF d.isRename THEN "renamed"
                 ELSE IF d.isNewFile \/ (old = None /\ new # None) THEN "added"
                 ELSE IF d.isDeletedFile \/ (new = None /\ old # None) THEN "deleted"
                 ELSE "modified",
      additions |-> Count(d.hunks, "add"), deletions |-> Count(d.hunks, "del"),
      hunks |-> d.hunks]

FlushHunk(s) ==
  IF s.hunk = None THEN s
  ELSE [s EXCEPT !.draft.hunks = Append(@, [old |-> s.hunk.old, new |-> s.hunk.new,
                                            lines |-> s.hunk.lines]),
                 !.hunk = None]

FlushDraft(s) ==
  IF s.draft = None THEN s
  ELSE [FlushHunk(s) EXCEPT !.files = Append(@, FinalizeDraft(FlushHunk(s).draft)),
                            !.draft = None]

\* "Binary files a/x and b/y differ" is split at the first " and ".
ReadBinary(d, names) ==
  LET old == IF names.a \in Ambiguous THEN Garbled ELSE names.a
      new == IF names.a \in Ambiguous THEN Garbled ELSE names.b
  IN [d EXCEPT !.isBinary = TRUE,
               !.old = IF @ = Unseen THEN old ELSE @,
               !.new = IF @ = Unseen THEN new ELSE @]

\* The lines before the hunks.
ReadHeader(d, l) ==
  CASE l.is = "old mode" -> [d EXCEPT !.oldMode = l.what]
    [] l.is = "new mode" -> [d EXCEPT !.newMode = l.what]
    [] l.is = "deleted file mode" ->
         [d EXCEPT !.isDeletedFile = TRUE, !.oldMode = l.what, !.new = None]
    [] l.is = "new file mode" ->
         [d EXCEPT !.isNewFile = TRUE, !.newMode = l.what, !.old = None]
    [] l.is = "rename from" -> [d EXCEPT !.isRename = TRUE, !.old = l.what]
    [] l.is = "rename to" -> [d EXCEPT !.isRename = TRUE, !.new = l.what]
    [] l.is = "similarity index" -> [d EXCEPT !.similarity = l.what]
    [] l.is = "Binary files" -> ReadBinary(d, l.what)
    [] l.is = "---" -> [d EXCEPT !.old = l.what]
    [] l.is = "+++" -> [d EXCEPT !.new = l.what]

ReadHunkHeaderUnflushed(s, start) ==
  [s EXCEPT !.hunk = [old |-> start.old, new |-> start.new, lines |-> <<>>,
                      oldNext |-> start.old, newNext |-> start.new]]

\* "@@ -old,... +new,... @@": counters for the numbers of the next lines.
ReadHunkHeader(s, start) ==
  [FlushHunk(s) EXCEPT !.hunk = [old |-> start.old, new |-> start.new, lines |-> <<>>,
                                 oldNext |-> start.old, newNext |-> start.new]]

\* A CR at the end of a line is taken for a part of the line break.
Chomp(text) ==
  IF text # <<>> /\ text[Len(text)] = CR THEN SubSeq(text, 1, Len(text) - 1) ELSE text

\* A line of a hunk, by its marker.
ReadMarked(h, l) ==
  LET old == l.is \in {"context", "del"}
      new == l.is \in {"context", "add"}
  IN [h EXCEPT !.lines = Append(@, [type |-> l.is, text |-> Chomp(l.what),
                                    oldNo |-> IF old THEN h.oldNext ELSE None,
                                    newNo |-> IF new THEN h.newNext ELSE None,
                                    noNewline |-> FALSE]),
               !.oldNext = IF old THEN @ + 1 ELSE @,
               !.newNext = IF new THEN @ + 1 ELSE @]

\* "\ No newline at end of file" belongs to the line before it.
ReadNoNewline(h) ==
  IF h.lines = <<>> THEN h ELSE [h EXCEPT !.lines[Len(h.lines)].noNewline = TRUE]

\* A marker and the text behind it look like a "---" or a "+++" line.
LooksLike(l, marker) ==
  /\ l.is = (IF marker = "---" THEN "del" ELSE "add")
  /\ l.what # <<>>
  /\ l.what[1] = (IF marker = "---" THEN Dashes ELSE Pluses)

\* The loop body of parseUnifiedDiff.  What looks like a header line is one,
\* wherever it stands.
ReadLine(s, l) ==
  CASE l.is = "diff --git" -> [FlushDraft(s) EXCEPT !.draft = NewDraft(l.what)]
    [] l.is = "@@" -> ReadHunkHeader(s, l.what)
    [] l.is = "\\" -> [s EXCEPT !.hunk = ReadNoNewline(@)]
    [] LooksLike(l, "---") -> [s EXCEPT !.draft = ReadHeader(@, Line("---", Garbled))]
    [] LooksLike(l, "+++") -> [s EXCEPT !.draft = ReadHeader(@, Line("+++", Garbled))]
    [] l.is \in Types /\ ~LooksLike(l, "---") /\ ~LooksLike(l, "+++") ->
         [s EXCEPT !.hunk = ReadMarked(@, l)]
    [] OTHER -> [s EXCEPT !.draft = ReadHeader(@, l)]

\* The loop, over some lines more.
ReadLines(s, lines) ==
  LET state[k \in 0 .. Len(lines)] ==
        IF k = 0 THEN s ELSE ReadLine(state[k - 1], lines[k])
  IN state[Len(lines)]

Mimics(l) ==
  LooksLike(Line(l.type, l.text), "---") \/ LooksLike(Line(l.type, l.text), "+++")

-----------------------------------------------------------------------------
(* The end of the output.                                                  *)

Current == written[Len(written)]

IsBlank(text) == \A i \in 1 .. Len(text) : text[i] \in Blanks

\* A line that is nothing but blanks, with its marker.
Vanishes(l) == l.type = "context" /\ IsBlank(l.text) /\ ~l.noNewline

LastKept(lines) == Max({0} \cup {j \in 1 .. Len(lines) : ~Vanishes(lines[j])})

TrimEnd(text) ==
  SubSeq(text, 1, Max({0} \cup {i \in 1 .. Len(text) : text[i] \notin Blanks}))

\* The lines of the open hunk, of which git wrote lines, when the output is trimmed
\* behind them: its last lines go, and the blanks at the end of the one before them.
\* A line that looked like a header is not among them, and "\ No newline at end of
\* file" has no blanks behind it.
TrimLines(read, lines) ==
  LET last == LastKept(lines)
      n == Len(read) - (Len(lines) - last)
      cut == last # 0 /\ ~Mimics(lines[last]) /\ ~lines[last].noNewline
  IN [i \in 1 .. n |-> IF i = n /\ cut THEN [read[i] EXCEPT !.text = TrimEnd(@)] ELSE read[i]]

\* df.stdout.trim(): what the parser has made of the output, if it ends here.
Trimmed(s) ==
  IF s.hunk = None THEN s
  ELSE [s EXCEPT !.hunk.lines = TrimLines(@, Current.hunks[Len(Current.hunks)].lines)]

\* The result, if the output ended here.
Files == FlushDraft(Trimmed(parsed)).files

-----------------------------------------------------------------------------
(* The steps.                                                              *)

Reading(lines) == parsed' = ReadLines(parsed, lines)

LinesOf(f) == FoldLeft(LAMBDA n, h : n + Len(h.lines), 0, f.hunks)

LinesWritten == FoldLeft(LAMBDA n, f : n + LinesOf(f), 0, written)

\* A hunk is never empty.
Complete(f) == f.hunks # <<>> => f.hunks[Len(f.hunks)].lines # <<>>

\* The last line of a side, which has no newline at its end, has been written.
SideEnded(f, type) ==
  \E i \in 1 .. Len(f.hunks) : \E j \in 1 .. Len(f.hunks[i].lines) :
    LET l == f.hunks[i].lines[j] IN l.noNewline /\ (l.type = type \/ "context" \in {l.type, type})

\* The lines of a hunk before the one at i, on the side that lines of type gone are
\* not on.
Before(h, i, gone) == Cardinality({j \in 1 .. i - 1 : h.lines[j].type # gone})

\* git goes on to the next file.  A name is there once before the change and once
\* after it: a file whose type changed is deleted and added.
WriteFile(f) ==
  /\ ~ended
  /\ Len(written) < MaxFiles
  /\ \A i \in 1 .. Len(written) :
       /\ f.old = None \/ written[i].old # f.old
       /\ f.new = None \/ written[i].new # f.new
  /\ written # <<>> => Complete(Current)
  /\ written' = Append(written, f)
  /\ Reading(HeaderLines(f))
  /\ UNCHANGED ended

\* A hunk starts behind the last one; a side that does not exist starts at 0.
WriteHunk ==
  /\ ~ended
  /\ written # <<>>
  /\ ~Current.binary
  /\ Complete(Current)
  /\ Len(Current.hunks) < MaxHunks
  /\ Current.old = None \/ Current.new = None => Current.hunks = <<>>
  /\ ~SideEnded(Current, "context")
  /\ LinesWritten < MaxLines
  /\ LET before == IF Current.hunks = <<>> THEN [old |-> 0, new |-> 0, lines |-> <<>>]
                   ELSE Current.hunks[Len(Current.hunks)]
         Behind(start, gone) ==
           start + 5 + Before(before, Len(before.lines) + 1, gone)
         h == IF Current.old = None THEN [old |-> 0, new |-> 1, lines |-> <<>>]
              ELSE IF Current.new = None THEN [old |-> 1, new |-> 0, lines |-> <<>>]
              ELSE [old |-> Behind(before.old, "add"), new |-> Behind(before.new, "del"),
                    lines |-> <<>>]
     IN
       /\ written' = [written EXCEPT ![Len(written)].hunks = Append(@, h)]
       /\ Reading(FirstHunkLines(Current)
                    \o <<Line("@@", [old |-> h.old, new |-> h.new])>>)
  /\ UNCHANGED ended

\* An added file has added lines only, and a deleted one deleted lines.
TypesOf(f) == IF f.old = None THEN {"add"} ELSE IF f.new = None THEN {"del"} ELSE Types

WriteLine(type, text) ==
  /\ ~ended
  /\ written # <<>>
  /\ Current.hunks # <<>>
  /\ LinesWritten < MaxLines
  /\ type \in TypesOf(Current)
  /\ ~SideEnded(Current, type)
  /\ LET n == Len(written)
         k == Len(Current.hunks)
     IN written' = [written EXCEPT ![n].hunks[k].lines =
                      Append(@, [type |-> type, text |-> text, noNewline |-> FALSE])]
  /\ Reading(<<Line(type, text)>>)
  /\ UNCHANGED ended

\* The last line has no newline at its end, and git says so.
WriteNoNewline ==
  /\ ~ended
  /\ written # <<>>
  /\ Current.hunks # <<>>
  /\ LET n == Len(written)
         k == Len(Current.hunks)
         lines == Current.hunks[k].lines
     IN
       /\ lines # <<>>
       /\ ~lines[Len(lines)].noNewline
       /\ written' = [written EXCEPT ![n].hunks[k].lines[Len(lines)].noNewline = TRUE]
  /\ Reading(<<Line("\\", None)>>)
  /\ UNCHANGED ended

\* The end: the output is trimmed, and what is open is flushed.
End ==
  /\ ~ended
  /\ written # <<>> => Complete(Current)
  /\ ended' = TRUE
  /\ parsed' = FlushDraft(Trimmed(parsed))
  /\ UNCHANGED written

Init == written = <<>> /\ parsed = NoParse /\ ended = FALSE

Next ==
  \/ \E f \in Inputs : WriteFile(f)
  \/ WriteHunk
  \/ \E l \in Lines : WriteLine(l[1], l[2])
  \/ WriteNoNewline
  \/ End

Spec == Init /\ [][Next]_vars

-----------------------------------------------------------------------------
(* Properties.                                                             *)

\* A hunk as git means it, but for a CR at the end of a line: a line's number is that
\* of the first line of the hunk, plus the lines of its side before it.
MeantHunk(h) ==
  [old |-> h.old, new |-> h.new,
   lines |-> [i \in 1 .. Len(h.lines) |->
     LET l == h.lines[i]
     IN [type |-> l.type, text |-> Chomp(l.text), noNewline |-> l.noNewline,
         oldNo |-> IF l.type = "add" THEN None ELSE h.old + Before(h, i, "add"),
         newNo |-> IF l.type = "del" THEN None ELSE h.new + Before(h, i, "del")]]]

\* A file as git means it.
Meant(f) ==
  [oldPath |-> f.old, newPath |-> f.new, similarity |-> f.similarity,
   oldMode |-> IF f.chmod \/ f.new = None THEN "100644" ELSE None,
   newMode |-> IF f.chmod THEN "100755" ELSE IF f.old = None THEN "100644" ELSE None,
   isBinary |-> f.binary,
   status |-> IF f.similarity # None THEN "renamed"
              ELSE IF f.old = None THEN "added"
              ELSE IF f.new = None THEN "deleted" ELSE "modified",
   additions |-> Count(f.hunks, "add"), deletions |-> Count(f.hunks, "del"),
   hunks |-> [i \in 1 .. Len(f.hunks) |-> MeantHunk(f.hunks[i])]]

\* The lines short are the lines all, but for blanks at the end of all.
CutShort(short, all) ==
  /\ Len(short) <= Len(all)
  /\ \A j \in Len(short) + 1 .. Len(all) : Vanishes(all[j])
  /\ \A j \in 1 .. Len(short) - 1 : short[j] = all[j]
  /\ short # <<>> =>
       LET j == Len(short)
       IN \E n \in 0 .. Len(all[j].text) :
            /\ short[j] = [all[j] EXCEPT !.text = SubSeq(@, 1, n)]
            /\ \A i \in n + 1 .. Len(all[j].text) : all[j].text[i] \in Blanks

\* The file f is the file g, but for blanks at its end.
LosesBlanks(f, g) ==
  /\ f = [g EXCEPT !.hunks = f.hunks]
  /\ g.hunks # <<>>
  /\ Len(f.hunks) = Len(g.hunks)
  /\ LET n == Len(g.hunks)
     IN
       /\ \A k \in 1 .. n - 1 : f.hunks[k] = g.hunks[k]
       /\ f.hunks[n] = [g.hunks[n] EXCEPT !.lines = f.hunks[n].lines]
       /\ CutShort(f.hunks[n].lines, g.hunks[n].lines)

\* What the parser is known to get wrong: a deleted line that starts with "-- ", or
\* an added one that starts with "++ "; a file that is added or deleted without a
\* line in it; and a binary file whose old name has " and " in it.
Misread(f) ==
  \/ \E i \in 1 .. Len(f.hunks) : \E j \in 1 .. Len(f.hunks[i].lines) :
       Mimics(f.hunks[i].lines[j])
  \/ (f.old = None \/ f.new = None) /\ ~f.binary /\ f.hunks = <<>>
  \/ f.binary /\ f.old \in Ambiguous

\* diff.ts: "this parser only structures the bytes the broker already rendered".
\* Wherever it stands among others, and however much of it has been read, a file
\* comes out as git meant it, to the numbers of its lines and the counts of the added
\* and deleted ones, unless it is one of the kinds the parser misreads.  A text comes
\* out without a CR at its end, and the last file may lose blanks at its end.  No file
\* is lost or made up in any case.
ParsedAsWritten ==
  /\ Len(Files) = Len(written)
  /\ \A i \in 1 .. Len(written) :
       \/ Misread(written[i])
       \/ Files[i] = Meant(written[i])
       \/ i = Len(written) /\ LosesBlanks(Files[i], Meant(written[i]))

-----------------------------------------------------------------------------
(* The inductive invariant behind ParsedAsWritten.                         *)

WrittenLines == [type : Types, text : {l[2] : l \in Lines}, noNewline : BOOLEAN]

WrittenHunks == [old : Nat, new : Nat, lines : Seq(WrittenLines)]

WrittenFiles ==
  [old : Paths \cup {None}, new : Paths \cup {None}, chmod : BOOLEAN, binary : BOOLEAN,
   similarity : {None, Similar}, hunks : Seq(WrittenHunks)]

Mimicked(f) ==
  \E i \in 1 .. Len(f.hunks) : \E j \in 1 .. Len(f.hunks[i].lines) :
    Mimics(f.hunks[i].lines[j])

\* The draft while the parser is behind the lines of f written so far.
DraftOf(f) ==
  [names |-> [a |-> IF f.old = None THEN f.new ELSE f.old,
              b |-> IF f.new = None THEN f.old ELSE f.new],
   old |-> IF f.old = None \/ f.similarity # None \/ f.hunks # <<>> THEN f.old
           ELSE IF ~f.binary THEN Unseen
           ELSE IF f.old \in Ambiguous THEN Garbled ELSE f.old,
   new |-> IF f.new = None \/ f.similarity # None \/ f.hunks # <<>> THEN f.new
           ELSE IF ~f.binary THEN Unseen
           ELSE IF f.old \in Ambiguous THEN Garbled ELSE f.new,
   oldMode |-> Meant(f).oldMode, newMode |-> Meant(f).newMode,
   similarity |-> f.similarity, isBinary |-> f.binary,
   isRename |-> f.similarity # None, isNewFile |-> f.old = None,
   isDeletedFile |-> f.new = None,
   hunks |-> [i \in 1 .. Len(f.hunks) - 1 |-> MeantHunk(f.hunks[i])]]

\* The open hunk: its counters are behind its lines.
HunkOf(h) ==
  [old |-> h.old, new |-> h.new, lines |-> MeantHunk(h).lines,
   oldNext |-> h.old + Before(h, Len(h.lines) + 1, "add"),
   newNext |-> h.new + Before(h, Len(h.lines) + 1, "del")]

Parses ==
  [files : Seq(DiffFiles), draft : Drafts \cup {None}, hunk : OpenHunks \cup {None}]

ParserType ==
  /\ written \in Seq(WrittenFiles)
  /\ \A i \in 1 .. Len(written) : [written[i] EXCEPT !.hunks = <<>>] \in Changes
  /\ parsed \in Parses
  /\ ended \in BOOLEAN

\* The files that are finished are as git meant them, or misread for good; only the
\* last of all may have lost blanks.
FilesInv ==
  /\ \A i \in 1 .. Len(parsed.files) :
       \/ Misread(written[i])
       \/ parsed.files[i] = Meant(written[i])
       \/ ended /\ i = Len(written) /\ LosesBlanks(parsed.files[i], Meant(written[i]))
  /\ IF parsed.draft = None THEN Len(parsed.files) = Len(written)
     ELSE Len(parsed.files) = Len(written) - 1

\* The file that git is writing: if a line of it looked like a header, the draft may
\* be anything.
DraftInv ==
  /\ parsed.draft = None <=> ended \/ written = <<>>
  /\ parsed.hunk = None <=> parsed.draft = None \/ Current.hunks = <<>>
  /\ parsed.draft # None /\ ~Mimicked(Current)
       => /\ parsed.draft = DraftOf(Current)
          /\ Current.hunks # <<>>
               => parsed.hunk = HunkOf(Current.hunks[Len(Current.hunks)])

ParserInv == ParserType /\ FilesInv /\ DraftInv
=============================================================================
