---------------------------- MODULE ReviewProofs ----------------------------
(***************************************************************************)
(* Proofs about the diff of a request and the page that shows it           *)
(* (UnifiedDiff, Review): the parser reads what git wrote, the split view  *)
(* shows all of it, the highlighted words are those that changed, and all  *)
(* files count as viewed only when the human has marked them all.          *)
(***************************************************************************)
EXTENDS Review, FiniteSetTheorems, SequenceTheorems, WellFoundedInduction, TLAPS

-----------------------------------------------------------------------------
(* Induction over the naturals: the recursive functions that follow a loop of *)
(* the code are reasoned about with it.                                    *)

\* The order of the naturals, as a relation.
Below == {p \in Nat \X Nat : p[1] < p[2]}

\* The naturals are well-founded: every set of them has a least one.
LEMMA BelowWellFounded == IsWellFoundedOn(Below, Nat)
<1>1. OpToRel(<, Nat) = Below
  BY DEF OpToRel, Below
<1>2. QED
  BY <1>1, NatLessThanWellFounded

\* Induction over the naturals, for a set instead of a formula.
LEMMA NatSetInduction ==
  ASSUME NEW S, 0 \in S, \A n \in Nat : n \in S => n + 1 \in S
  PROVE  Nat \subseteq S
<1>1. SUFFICES ASSUME Nat \ S # {} PROVE FALSE
  OBVIOUS
<1>3. PICK x \in Nat \ S : \A y \in Nat \ S : ~(<<y, x>> \in Below)
  BY <1>1, WFMin, BelowWellFounded
<1>5. x # 0 /\ x - 1 \in Nat /\ x - 1 < x
  BY <1>3
<1>6. <<x - 1, x>> \in Below
  BY <1>3, <1>5 DEF Below
<1>7. QED
  BY <1>3, <1>5, <1>6

\* Functions that are sequences.
LEMMA ListsAre ==
  ASSUME NEW m \in Nat, NEW S, NEW s \in [1 .. m -> S]
  PROVE  s \in Seq(S) /\ Len(s) = m
OBVIOUS

\* A set of naturals up to n has a largest one.
LEMMA LargestOf ==
  ASSUME NEW n \in Nat, NEW A \in SUBSET (0 .. n), A # {}
  PROVE  Max(A) \in A /\ \A y \in A : Max(A) >= y
<1> DEFINE Has(T) == T # {} => \E x \in T : \A y \in T : x >= y
           S == {m \in Nat : \A T \in SUBSET (0 .. m) : Has(T)}
<1>1. 0 \in S
  <2> SUFFICES ASSUME NEW T \in SUBSET (0 .. 0), NEW x \in T PROVE \A y \in T : x >= y
    OBVIOUS
  <2>1. \A y \in T : y = 0
    OBVIOUS
  <2>2. QED
    BY <2>1
<1>2. ASSUME NEW m \in Nat, m \in S
      PROVE  m + 1 \in S
  <2> SUFFICES ASSUME NEW T \in SUBSET (0 .. m + 1) PROVE Has(T)
    OBVIOUS
  <2>1. CASE m + 1 \in T
    <3>1. \A y \in T : m + 1 >= y
      OBVIOUS
    <3>2. QED
      BY <2>1, <3>1
  <2>2. CASE m + 1 \notin T
    <3>1. T \in SUBSET (0 .. m)
      BY <2>2
    <3> HIDE DEF Has
    <3>2. QED
      BY <1>2, <3>1
  <2>3. QED
    BY <2>1, <2>2
<1>3. \E x \in A : \A y \in A : x >= y
  <2>1. n \in S
    <3> HIDE DEF S
    <3>1. QED
      BY <1>1, <1>2, NatSetInduction
  <2>2. Has(A)
    <3> HIDE DEF Has
    <3>1. QED
      BY <2>1
  <2>3. QED
    BY <2>2
<1>4. QED
  BY <1>3 DEF Max

-----------------------------------------------------------------------------
(* The loop of parseUnifiedDiff.                                           *)

\* What the loop of parseUnifiedDiff has made of s after each of the first n lines.
Reads(s, lines, n, state) ==
  state = [k \in 0 .. n |-> IF k = 0 THEN s ELSE ReadLine(state[k - 1], lines[k])]

\* The loop can be followed over any number of lines.
LEMMA ReadsExist ==
  ASSUME NEW s, NEW lines, NEW n \in Nat
  PROVE  \E state : Reads(s, lines, n, state)
<1> DEFINE S == {m \in Nat : \E state : Reads(s, lines, m, state)}
<1>1. 0 \in S
  <2>1. Reads(s, lines, 0, [k \in 0 .. 0 |-> s])
    BY DEF Reads
  <2>2. QED
    BY <2>1
<1>2. ASSUME NEW m \in Nat, m \in S
      PROVE  m + 1 \in S
  <2>1. PICK g : Reads(s, lines, m, g)
    BY <1>2
  <2> DEFINE h == [k \in 0 .. m + 1 |-> IF k = m + 1 THEN ReadLine(g[m], lines[k]) ELSE g[k]]
  <2>2. \A k \in 0 .. m : h[k] = g[k]
    OBVIOUS
  <2>3. \A k \in 0 .. m : g[k] = IF k = 0 THEN s ELSE ReadLine(g[k - 1], lines[k])
    BY <2>1 DEF Reads
  <2>4. ASSUME NEW k \in 0 .. m + 1
        PROVE  h[k] = IF k = 0 THEN s ELSE ReadLine(h[k - 1], lines[k])
    <3>1. CASE k = m + 1
      BY <2>2, <3>1
    <3>2. CASE k \in 0 .. m
      BY <2>2, <2>3, <3>2
    <3>3. QED
      BY <3>1, <3>2
  <2>5. Reads(s, lines, m + 1, h)
    <3> HIDE DEF h
    <3>1. h = [k \in 0 .. m + 1 |-> h[k]]
      BY DEF h
    <3>2. QED
      BY <2>4, <3>1 DEF Reads
  <2>6. QED
    BY <2>5
<1>3. QED
  <2> HIDE DEF S
  <2>1. n \in S
    BY <1>1, <1>2, NatSetInduction
  <2>2. QED
    BY <2>1 DEF S

\* ReadLines is where the loop ends.
LEMMA ReadLinesDef ==
  ASSUME NEW s, NEW lines, Len(lines) \in Nat
  PROVE  \E state : Reads(s, lines, Len(lines), state) /\ ReadLines(s, lines) = state[Len(lines)]
<1>1. \E state : Reads(s, lines, Len(lines), state)
  BY ReadsExist
<1>2. ReadLines(s, lines) = (CHOOSE state : Reads(s, lines, Len(lines), state))[Len(lines)]
  BY DEF ReadLines, Reads
<1>3. QED
  BY <1>1, <1>2

\* The loop over one line,
LEMMA ReadOne ==
  ASSUME NEW s, NEW a
  PROVE  ReadLines(s, <<a>>) = ReadLine(s, a)
<1>1. Len(<<a>>) = 1
  OBVIOUS
<1>2. PICK g : Reads(s, <<a>>, 1, g) /\ ReadLines(s, <<a>>) = g[1]
  BY <1>1, ReadLinesDef
<1>3. g[0] = s /\ g[1] = ReadLine(g[0], a)
  BY <1>2 DEF Reads
<1>4. QED
  BY <1>2, <1>3

\* over two,
LEMMA ReadTwo ==
  ASSUME NEW s, NEW a, NEW b
  PROVE  ReadLines(s, <<a, b>>) = ReadLine(ReadLine(s, a), b)
<1>1. Len(<<a, b>>) = 2
  OBVIOUS
<1>2. PICK g : Reads(s, <<a, b>>, 2, g) /\ ReadLines(s, <<a, b>>) = g[2]
  BY <1>1, ReadLinesDef
<1>3. g[0] = s /\ g[1] = ReadLine(g[0], a) /\ g[2] = ReadLine(g[1], b)
  BY <1>2 DEF Reads
<1>4. QED
  BY <1>2, <1>3

\* over three,
LEMMA ReadThree ==
  ASSUME NEW s, NEW a, NEW b, NEW c
  PROVE  ReadLines(s, <<a, b, c>>) = ReadLine(ReadLine(ReadLine(s, a), b), c)
<1>1. Len(<<a, b, c>>) = 3
  OBVIOUS
<1>2. PICK g : Reads(s, <<a, b, c>>, 3, g) /\ ReadLines(s, <<a, b, c>>) = g[3]
  BY <1>1, ReadLinesDef
<1>3. /\ g[0] = s /\ g[1] = ReadLine(g[0], a) /\ g[2] = ReadLine(g[1], b)
      /\ g[3] = ReadLine(g[2], c)
  BY <1>2 DEF Reads
<1>4. QED
  BY <1>2, <1>3

\* and over four: the longest header that git writes.
LEMMA ReadFour ==
  ASSUME NEW s, NEW a, NEW b, NEW c, NEW d
  PROVE  ReadLines(s, <<a, b, c, d>>) = ReadLine(ReadLine(ReadLine(ReadLine(s, a), b), c), d)
<1>1. Len(<<a, b, c, d>>) = 4
  OBVIOUS
<1>2. PICK g : Reads(s, <<a, b, c, d>>, 4, g) /\ ReadLines(s, <<a, b, c, d>>) = g[4]
  BY <1>1, ReadLinesDef
<1>3. /\ g[0] = s /\ g[1] = ReadLine(g[0], a) /\ g[2] = ReadLine(g[1], b)
      /\ g[3] = ReadLine(g[2], c) /\ g[4] = ReadLine(g[3], d)
  BY <1>2 DEF Reads
<1>4. QED
  BY <1>2, <1>3

-----------------------------------------------------------------------------
(* The header of a file, as it is written and as it is read.               *)

\* A header is joined from pieces: one line before none is the one.
LEMMA Joined10 == \A a : <<a>> \o <<>> = <<a>>
OBVIOUS

\* Two lines before none are the two,
LEMMA Joined20 == \A a, b : <<a, b>> \o <<>> = <<a, b>>
OBVIOUS

\* three lines before none are the three,
LEMMA Joined30 == \A a, b, c : <<a, b, c>> \o <<>> = <<a, b, c>>
OBVIOUS

\* and four lines before none are the four.
LEMMA Joined40 == \A a, b, c, d : <<a, b, c, d>> \o <<>> = <<a, b, c, d>>
OBVIOUS

\* One line before one are two,
LEMMA Joined11 == \A a, b : <<a>> \o <<b>> = <<a, b>>
<1> TAKE a, b
<1> DEFINE s == <<a>> \o <<b>>
<1>1. /\ <<a>> \in Seq({a, b}) /\ <<b>> \in Seq({a, b})
      /\ <<a, b>> \in Seq({a, b})
  OBVIOUS
<1>2. s \in Seq({a, b}) /\ Len(s) = 2 /\ s[1] = a /\ s[2] = b
  BY <1>1, ConcatProperties
<1> HIDE DEF s
<1>3. s = <<a, b>>
  BY <1>1, <1>2, SeqEqual
<1>4. QED
  BY <1>3 DEF s

\* one before two are three,
LEMMA Joined12 == \A a, b, c : <<a>> \o <<b, c>> = <<a, b, c>>
<1> TAKE a, b, c
<1> DEFINE s == <<a>> \o <<b, c>>
<1>1. /\ <<a>> \in Seq({a, b, c}) /\ <<b, c>> \in Seq({a, b, c})
      /\ <<a, b, c>> \in Seq({a, b, c})
  OBVIOUS
<1>2. s \in Seq({a, b, c}) /\ Len(s) = 3 /\ s[1] = a /\ s[2] = b /\ s[3] = c
  BY <1>1, ConcatProperties
<1> HIDE DEF s
<1>3. s = <<a, b, c>>
  BY <1>1, <1>2, SeqEqual
<1>4. QED
  BY <1>3 DEF s

\* two before one are three,
LEMMA Joined21 == \A a, b, c : <<a, b>> \o <<c>> = <<a, b, c>>
<1> TAKE a, b, c
<1> DEFINE s == <<a, b>> \o <<c>>
<1>1. /\ <<a, b>> \in Seq({a, b, c}) /\ <<c>> \in Seq({a, b, c})
      /\ <<a, b, c>> \in Seq({a, b, c})
  OBVIOUS
<1>2. s \in Seq({a, b, c}) /\ Len(s) = 3 /\ s[1] = a /\ s[2] = b /\ s[3] = c
  BY <1>1, ConcatProperties
<1> HIDE DEF s
<1>3. s = <<a, b, c>>
  BY <1>1, <1>2, SeqEqual
<1>4. QED
  BY <1>3 DEF s

\* and one before three are four.
LEMMA Joined13 == \A a, b, c, d : <<a>> \o <<b, c, d>> = <<a, b, c, d>>
<1> TAKE a, b, c, d
<1> DEFINE s == <<a>> \o <<b, c, d>>
<1>1. /\ <<a>> \in Seq({a, b, c, d}) /\ <<b, c, d>> \in Seq({a, b, c, d})
      /\ <<a, b, c, d>> \in Seq({a, b, c, d})
  OBVIOUS
<1>2. s \in Seq({a, b, c, d}) /\ Len(s) = 4 /\ s[1] = a /\ s[2] = b /\ s[3] = c /\ s[4] = d
  BY <1>1, ConcatProperties
<1> HIDE DEF s
<1>3. s = <<a, b, c, d>>
  BY <1>1, <1>2, SeqEqual
<1>4. QED
  BY <1>3 DEF s

\* The pieces of a header joined, for a file whose mode changed,
LEMMA JoinedMode ==
  \A a, b, c : <<a>> \o <<b, c>> \o <<>> \o <<>> \o <<>> \o <<>> = <<a, b, c>>
<1> TAKE a, b, c
<1>1. QED
  BY Joined12, Joined30

\* For a new file,
LEMMA JoinedNew == \A a, b : <<a>> \o <<>> \o <<>> \o <<b>> \o <<>> = <<a, b>>
<1> TAKE a, b
<1>1. QED
  BY Joined10, Joined11, Joined20

\* for one that is gone,
LEMMA JoinedDeleted == \A a, b : <<a>> \o <<>> \o <<b>> \o <<>> \o <<>> = <<a, b>>
<1> TAKE a, b
<1>1. QED
  BY Joined10, Joined11, Joined20

\* and for one that was renamed.
LEMMA JoinedRename ==
  \A a, b, c, d : <<a>> \o <<>> \o <<>> \o <<>> \o <<b, c, d>> \o <<>> = <<a, b, c, d>>
<1> TAKE a, b, c, d
<1>1. QED
  BY Joined10, Joined13, Joined40

\* A changed file is one of five kinds.
LEMMA ChangeKinds ==
  ASSUME NEW f \in Changes
  PROVE  /\ f.hunks = <<>> /\ f.chmod \in BOOLEAN /\ f.binary \in BOOLEAN
         /\ \/ f.old \in Paths /\ f.new = f.old /\ ~f.chmod /\ f.similarity = None
            \/ f.old \in Paths /\ f.new = f.old /\ f.chmod /\ ~f.binary /\ f.similarity = None
            \/ f.old = None /\ f.new \in Paths /\ ~f.chmod /\ f.similarity = None
            \/ f.old \in Paths /\ f.new = None /\ ~f.chmod /\ f.similarity = None
            \/ f.old \in Paths /\ f.new \in Paths /\ ~f.chmod /\ ~f.binary /\ f.similarity = Similar
<1>1. PICK p \in Paths : f \in ChangesOf(p)
  BY DEF Changes
<1>2. CASE \E b \in BOOLEAN : f = Change(p, p, FALSE, b, None)
  BY <1>2 DEF Change
<1>3. CASE f = Change(p, p, TRUE, FALSE, None)
  BY <1>3 DEF Change
<1>4. CASE \E b \in BOOLEAN : f = Change(None, p, FALSE, b, None)
  BY <1>4 DEF Change
<1>5. CASE \E b \in BOOLEAN : f = Change(p, None, FALSE, b, None)
  BY <1>5 DEF Change
<1>6. CASE \E q \in Paths : f = Change(p, q, FALSE, FALSE, Similar)
  BY <1>6 DEF Change
<1>7. QED
  BY <1>1, <1>2, <1>3, <1>4, <1>5, <1>6 DEF ChangesOf

\* What git writes before the first hunk, for each of them.
LEMMA HeaderForms ==
  ASSUME NEW f \in Changes,
         NEW git, git = Line("diff --git", [a |-> IF f.old = None THEN f.new ELSE f.old,
                                            b |-> IF f.new = None THEN f.old ELSE f.new]),
         NEW bin, bin = Line("Binary files", SidesOf(f))
  PROVE  \/ /\ f.old \in Paths /\ f.new = f.old /\ ~f.chmod /\ f.similarity = None
            /\ HeaderLines(f) = IF f.binary THEN <<git, bin>> ELSE <<git>>
         \/ /\ f.old \in Paths /\ f.new = f.old /\ f.chmod /\ ~f.binary
            /\ f.similarity = None
            /\ HeaderLines(f) = <<git, Line("old mode", "100644"), Line("new mode", "100755")>>
         \/ /\ f.old = None /\ f.new \in Paths /\ ~f.chmod /\ f.similarity = None
            /\ HeaderLines(f) = IF f.binary THEN <<git, Line("new file mode", "100644"), bin>>
                                ELSE <<git, Line("new file mode", "100644")>>
         \/ /\ f.old \in Paths /\ f.new = None /\ ~f.chmod /\ f.similarity = None
            /\ HeaderLines(f) = IF f.binary THEN <<git, Line("deleted file mode", "100644"), bin>>
                                ELSE <<git, Line("deleted file mode", "100644")>>
         \/ /\ f.old \in Paths /\ f.new \in Paths /\ ~f.chmod /\ ~f.binary
            /\ f.similarity = Similar
            /\ HeaderLines(f) = <<git, Line("similarity index", Similar),
                                  Line("rename from", f.old), Line("rename to", f.new)>>
<1>1. None \notin Paths /\ None # Similar
  <2>1. Similar \in Nat
    BY DEF Similar
  <2>2. QED
    BY <2>1, UnifiedDiffAssumption
<1>2. f.old # None \/ f.new # None
  BY <1>1, ChangeKinds
<1>3. git = Line("diff --git", IF f.old = None THEN [a |-> f.new, b |-> f.new]
                               ELSE IF f.new = None THEN [a |-> f.old, b |-> f.old]
                               ELSE SidesOf(f))
  BY <1>2 DEF SidesOf
<1>4. HeaderLines(f) =
   <<git>>
    \o (IF f.chmod THEN <<Line("old mode", "100644"), Line("new mode", "100755")>> ELSE <<>>)
    \o (IF f.new = None THEN <<Line("deleted file mode", "100644")>> ELSE <<>>)
    \o (IF f.old = None THEN <<Line("new file mode", "100644")>> ELSE <<>>)
    \o (IF f.similarity # None
        THEN <<Line("similarity index", f.similarity), Line("rename from", f.old),
               Line("rename to", f.new)>> ELSE <<>>)
    \o (IF f.binary THEN <<bin>> ELSE <<>>)
  BY <1>3 DEF HeaderLines
<1>5. CASE f.old \in Paths /\ f.new = f.old /\ ~f.chmod /\ f.similarity = None
  <2>1. HeaderLines(f) = <<git>> \o <<>> \o <<>> \o <<>> \o <<>>
                          \o (IF f.binary THEN <<bin>> ELSE <<>>)
    BY <1>1, <1>4, <1>5
  <2>2. HeaderLines(f) = IF f.binary THEN <<git, bin>> ELSE <<git>>
    BY <2>1, Joined10, Joined11
  <2>3. QED
    BY <1>5, <2>2
<1>6. CASE f.old \in Paths /\ f.new = f.old /\ f.chmod /\ ~f.binary /\ f.similarity = None
  <2> DEFINE old == Line("old mode", "100644")
             new == Line("new mode", "100755")
  <2>1. HeaderLines(f) = <<git>> \o <<old, new>> \o <<>> \o <<>> \o <<>> \o <<>>
    BY <1>1, <1>4, <1>6
  <2> HIDE DEF old, new
  <2>2. HeaderLines(f) = <<git, old, new>>
    BY <2>1, JoinedMode
  <2>3. QED
    BY <1>6, <2>2 DEF old, new
<1>7. CASE f.old = None /\ f.new \in Paths /\ ~f.chmod /\ f.similarity = None
  <2> DEFINE new == Line("new file mode", "100644")
  <2>1. HeaderLines(f) = <<git>> \o <<>> \o <<>> \o <<new>> \o <<>>
                          \o (IF f.binary THEN <<bin>> ELSE <<>>)
    BY <1>1, <1>4, <1>7
  <2> HIDE DEF new
  <2>2. HeaderLines(f) = <<git, new>> \o (IF f.binary THEN <<bin>> ELSE <<>>)
    BY <2>1, JoinedNew
  <2>3. HeaderLines(f) = IF f.binary THEN <<git, new, bin>> ELSE <<git, new>>
    BY <2>2, Joined20, Joined21
  <2>4. QED
    BY <1>7, <2>3 DEF new
<1>8. CASE f.old \in Paths /\ f.new = None /\ ~f.chmod /\ f.similarity = None
  <2> DEFINE deleted == Line("deleted file mode", "100644")
  <2>1. HeaderLines(f) = <<git>> \o <<>> \o <<deleted>> \o <<>> \o <<>>
                          \o (IF f.binary THEN <<bin>> ELSE <<>>)
    BY <1>1, <1>4, <1>8
  <2> HIDE DEF deleted
  <2>2. HeaderLines(f) = <<git, deleted>> \o (IF f.binary THEN <<bin>> ELSE <<>>)
    BY <2>1, JoinedDeleted
  <2>3. HeaderLines(f) = IF f.binary THEN <<git, deleted, bin>> ELSE <<git, deleted>>
    BY <2>2, Joined20, Joined21
  <2>4. QED
    BY <1>8, <2>3 DEF deleted
<1>9. CASE /\ f.old \in Paths /\ f.new \in Paths /\ ~f.chmod /\ ~f.binary
           /\ f.similarity = Similar
  <2> DEFINE similarity == Line("similarity index", Similar)
             from == Line("rename from", f.old)
             to == Line("rename to", f.new)
  <2>1. HeaderLines(f) = <<git>> \o <<>> \o <<>> \o <<>> \o <<similarity, from, to>> \o <<>>
    BY <1>1, <1>4, <1>9
  <2> HIDE DEF similarity, from, to
  <2>2. HeaderLines(f) = <<git, similarity, from, to>>
    BY <2>1, JoinedRename
  <2>3. QED
    BY <1>9, <2>2 DEF similarity, from, to
<1>10. QED
  BY <1>5, <1>6, <1>7, <1>8, <1>9, ChangeKinds

\* The lines that tell the draft something.
HeaderKinds ==
  {"old mode", "new mode", "deleted file mode", "new file mode", "rename from",
   "rename to", "similarity index", "Binary files", "---", "+++"}

\* Such a line changes the draft only.
LEMMA ReadHeaderLine ==
  ASSUME NEW s, NEW is \in HeaderKinds, NEW what
  PROVE  ReadLine(s, Line(is, what)) = [s EXCEPT !.draft = ReadHeader(@, Line(is, what))]
BY DEF ReadLine, LooksLike, Line, HeaderKinds, Types

\* A file header ends what is open and starts a new draft.
LEMMA ReadGitLine ==
  ASSUME NEW s, NEW names
  PROVE  ReadLine(s, Line("diff --git", names)) =
           [FlushDraft(s) EXCEPT !.draft = NewDraft(names)]
BY DEF ReadLine, LooksLike, Line, Types

\* What each of them tells.
LEMMA ReadHeaderCases ==
  ASSUME NEW d, NEW what
  PROVE  /\ ReadHeader(d, Line("old mode", what)) = [d EXCEPT !.oldMode = what]
         /\ ReadHeader(d, Line("new mode", what)) = [d EXCEPT !.newMode = what]
         /\ ReadHeader(d, Line("deleted file mode", what)) =
              [d EXCEPT !.isDeletedFile = TRUE, !.oldMode = what, !.new = None]
         /\ ReadHeader(d, Line("new file mode", what)) =
              [d EXCEPT !.isNewFile = TRUE, !.newMode = what, !.old = None]
         /\ ReadHeader(d, Line("rename from", what)) =
              [d EXCEPT !.isRename = TRUE, !.old = what]
         /\ ReadHeader(d, Line("rename to", what)) =
              [d EXCEPT !.isRename = TRUE, !.new = what]
         /\ ReadHeader(d, Line("similarity index", what)) = [d EXCEPT !.similarity = what]
         /\ ReadHeader(d, Line("Binary files", what)) = ReadBinary(d, what)
         /\ ReadHeader(d, Line("---", what)) = [d EXCEPT !.old = what]
         /\ ReadHeader(d, Line("+++", what)) = [d EXCEPT !.new = what]
<1>1. ReadHeader(d, Line("old mode", what)) = [d EXCEPT !.oldMode = what]
  BY DEF ReadHeader, Line
<1>2. ReadHeader(d, Line("new mode", what)) = [d EXCEPT !.newMode = what]
  BY DEF ReadHeader, Line
<1>3. ReadHeader(d, Line("deleted file mode", what)) =
              [d EXCEPT !.isDeletedFile = TRUE, !.oldMode = what, !.new = None]
  BY DEF ReadHeader, Line
<1>4. ReadHeader(d, Line("new file mode", what)) =
              [d EXCEPT !.isNewFile = TRUE, !.newMode = what, !.old = None]
  BY DEF ReadHeader, Line
<1>5. ReadHeader(d, Line("rename from", what)) = [d EXCEPT !.isRename = TRUE, !.old = what]
  BY DEF ReadHeader, Line
<1>6. ReadHeader(d, Line("rename to", what)) = [d EXCEPT !.isRename = TRUE, !.new = what]
  BY DEF ReadHeader, Line
<1>7. ReadHeader(d, Line("similarity index", what)) = [d EXCEPT !.similarity = what]
  BY DEF ReadHeader, Line
<1>8. ReadHeader(d, Line("Binary files", what)) = ReadBinary(d, what)
  BY DEF ReadHeader, Line
<1>9. ReadHeader(d, Line("---", what)) = [d EXCEPT !.old = what]
  BY DEF ReadHeader, Line
<1>10. ReadHeader(d, Line("+++", what)) = [d EXCEPT !.new = what]
  BY DEF ReadHeader, Line
<1>11. QED
  BY <1>1, <1>2, <1>3, <1>4, <1>5, <1>6, <1>7, <1>8, <1>9, <1>10

\* Behind the header of a file, the parser has finished the files before it, and its
\* draft knows of the file what the header says.
LEMMA HeaderRead ==
  ASSUME NEW s \in Parses, NEW f \in Changes, FlushDraft(s) \in Parses
  PROVE  ReadLines(s, HeaderLines(f))
           = [files |-> FlushDraft(s).files, draft |-> DraftOf(f), hunk |-> FlushDraft(s).hunk]
<1> DEFINE names == [a |-> IF f.old = None THEN f.new ELSE f.old,
                     b |-> IF f.new = None THEN f.old ELSE f.new]
           git == Line("diff --git", names)
           bin == Line("Binary files", SidesOf(f))
           After(d) == [files |-> FlushDraft(s).files, draft |-> d, hunk |-> FlushDraft(s).hunk]
<1>1. ReadLine(s, git) = After(NewDraft(names))
  <2>1. ReadLine(s, git) = [FlushDraft(s) EXCEPT !.draft = NewDraft(names)]
    BY ReadGitLine
  <2>2. QED
    BY <2>1 DEF Parses
<1>2. ASSUME NEW d, NEW is \in HeaderKinds, NEW what
      PROVE  ReadLine(After(d), Line(is, what)) = After(ReadHeader(d, Line(is, what)))
  <2>1. ReadLine(After(d), Line(is, what)) =
          [After(d) EXCEPT !.draft = ReadHeader(@, Line(is, what))]
    BY ReadHeaderLine
  <2>2. QED
    BY <2>1
<1> HIDE DEF After
<1>om. ASSUME NEW d, NEW what
      PROVE  ReadLine(After(d), Line("old mode", what)) =
               After([d EXCEPT !.oldMode = what])
  <2>1. "old mode" \in HeaderKinds
    BY DEF HeaderKinds
  <2>2. ReadHeader(d, Line("old mode", what)) = [d EXCEPT !.oldMode = what]
    BY ReadHeaderCases
  <2>3. ReadLine(After(d), Line("old mode", what)) =
          After(ReadHeader(d, Line("old mode", what)))
    BY <1>2, <2>1
  <2>4. QED
    BY <2>2, <2>3
<1>nm. ASSUME NEW d, NEW what
      PROVE  ReadLine(After(d), Line("new mode", what)) =
               After([d EXCEPT !.newMode = what])
  <2>1. "new mode" \in HeaderKinds
    BY DEF HeaderKinds
  <2>2. ReadHeader(d, Line("new mode", what)) = [d EXCEPT !.newMode = what]
    BY ReadHeaderCases
  <2>3. ReadLine(After(d), Line("new mode", what)) =
          After(ReadHeader(d, Line("new mode", what)))
    BY <1>2, <2>1
  <2>4. QED
    BY <2>2, <2>3
<1>dm. ASSUME NEW d, NEW what
      PROVE  ReadLine(After(d), Line("deleted file mode", what)) =
               After([d EXCEPT !.isDeletedFile = TRUE, !.oldMode = what, !.new = None])
  <2>1. "deleted file mode" \in HeaderKinds
    BY DEF HeaderKinds
  <2>2. ReadHeader(d, Line("deleted file mode", what)) =
          [d EXCEPT !.isDeletedFile = TRUE, !.oldMode = what, !.new = None]
    BY ReadHeaderCases
  <2>3. ReadLine(After(d), Line("deleted file mode", what)) =
          After(ReadHeader(d, Line("deleted file mode", what)))
    BY <1>2, <2>1
  <2>4. QED
    BY <2>2, <2>3
<1>nf. ASSUME NEW d, NEW what
      PROVE  ReadLine(After(d), Line("new file mode", what)) =
               After([d EXCEPT !.isNewFile = TRUE, !.newMode = what, !.old = None])
  <2>1. "new file mode" \in HeaderKinds
    BY DEF HeaderKinds
  <2>2. ReadHeader(d, Line("new file mode", what)) =
          [d EXCEPT !.isNewFile = TRUE, !.newMode = what, !.old = None]
    BY ReadHeaderCases
  <2>3. ReadLine(After(d), Line("new file mode", what)) =
          After(ReadHeader(d, Line("new file mode", what)))
    BY <1>2, <2>1
  <2>4. QED
    BY <2>2, <2>3
<1>rf. ASSUME NEW d, NEW what
      PROVE  ReadLine(After(d), Line("rename from", what)) =
               After([d EXCEPT !.isRename = TRUE, !.old = what])
  <2>1. "rename from" \in HeaderKinds
    BY DEF HeaderKinds
  <2>2. ReadHeader(d, Line("rename from", what)) =
          [d EXCEPT !.isRename = TRUE, !.old = what]
    BY ReadHeaderCases
  <2>3. ReadLine(After(d), Line("rename from", what)) =
          After(ReadHeader(d, Line("rename from", what)))
    BY <1>2, <2>1
  <2>4. QED
    BY <2>2, <2>3
<1>rt. ASSUME NEW d, NEW what
      PROVE  ReadLine(After(d), Line("rename to", what)) =
               After([d EXCEPT !.isRename = TRUE, !.new = what])
  <2>1. "rename to" \in HeaderKinds
    BY DEF HeaderKinds
  <2>2. ReadHeader(d, Line("rename to", what)) = [d EXCEPT !.isRename = TRUE, !.new = what]
    BY ReadHeaderCases
  <2>3. ReadLine(After(d), Line("rename to", what)) =
          After(ReadHeader(d, Line("rename to", what)))
    BY <1>2, <2>1
  <2>4. QED
    BY <2>2, <2>3
<1>si. ASSUME NEW d, NEW what
      PROVE  ReadLine(After(d), Line("similarity index", what)) =
               After([d EXCEPT !.similarity = what])
  <2>1. "similarity index" \in HeaderKinds
    BY DEF HeaderKinds
  <2>2. ReadHeader(d, Line("similarity index", what)) = [d EXCEPT !.similarity = what]
    BY ReadHeaderCases
  <2>3. ReadLine(After(d), Line("similarity index", what)) =
          After(ReadHeader(d, Line("similarity index", what)))
    BY <1>2, <2>1
  <2>4. QED
    BY <2>2, <2>3
<1>bin. ASSUME NEW d
      PROVE  ReadLine(After(d), bin) = After(ReadBinary(d, SidesOf(f)))
  <2>1. ReadLine(After(d), bin) = After(ReadHeader(d, bin))
    BY <1>2 DEF HeaderKinds
  <2>2. ReadHeader(d, bin) = ReadBinary(d, SidesOf(f))
    BY ReadHeaderCases
  <2>3. QED
    BY <2>1, <2>2
<1>3. /\ None \notin Paths /\ Unseen \notin Paths /\ None # Similar /\ Unseen # None
      /\ Ambiguous \subseteq Paths
  BY UnifiedDiffAssumption DEF Similar
<1>4. f.hunks = <<>> /\ f.chmod \in BOOLEAN /\ f.binary \in BOOLEAN
  BY ChangeKinds
<1>5. [i \in 1 .. Len(f.hunks) - 1 |-> MeantHunk(f.hunks[i])] = <<>>
  BY <1>4
<1>6. DraftOf(f) =
  [names |-> names,
   old |-> IF f.old = None \/ f.similarity # None THEN f.old
           ELSE IF ~f.binary THEN Unseen
           ELSE IF f.old \in Ambiguous THEN Garbled ELSE f.old,
   new |-> IF f.new = None \/ f.similarity # None THEN f.new
           ELSE IF ~f.binary THEN Unseen
           ELSE IF f.old \in Ambiguous THEN Garbled ELSE f.new,
   oldMode |-> IF f.chmod \/ f.new = None THEN "100644" ELSE None,
   newMode |-> IF f.chmod THEN "100755" ELSE IF f.old = None THEN "100644" ELSE None,
   similarity |-> f.similarity, isBinary |-> f.binary,
   isRename |-> f.similarity # None, isNewFile |-> f.old = None,
   isDeletedFile |-> f.new = None, hunks |-> <<>>]
  BY <1>4, <1>5 DEF DraftOf, Meant
<1> HIDE DEF names, git, bin
<1>b. ReadBinary(NewDraft(names), SidesOf(f)) =
        [NewDraft(names) EXCEPT !.isBinary = TRUE,
            !.old = IF f.old \in Ambiguous THEN Garbled ELSE f.old,
            !.new = IF f.old \in Ambiguous THEN Garbled ELSE f.new]
  BY DEF ReadBinary, NewDraft, SidesOf
<1>7. CASE /\ f.old \in Paths /\ f.new = f.old /\ ~f.chmod /\ f.similarity = None
           /\ HeaderLines(f) = IF f.binary THEN <<git, bin>> ELSE <<git>>
  <2>1. CASE ~f.binary
    <3>1. ReadLines(s, HeaderLines(f)) = After(NewDraft(names))
      BY <1>1, <1>7, <2>1, ReadOne
    <3>2. NewDraft(names) = DraftOf(f)
      BY <1>3, <1>4, <1>6, <1>7, <2>1 DEF NewDraft
    <3>3. QED
      BY <3>1, <3>2 DEF After
  <2>2. CASE f.binary
    <3>1. ReadLines(s, HeaderLines(f)) = After(ReadHeader(NewDraft(names), bin))
      <4>1. ReadLines(s, HeaderLines(f)) = ReadLine(ReadLine(s, git), bin)
        BY <1>7, <2>2, ReadTwo
      <4>2. QED
        <5>1. ReadLine(After(NewDraft(names)), bin) = After(ReadHeader(NewDraft(names), bin))
          BY <1>2 DEF HeaderKinds, bin
        <5>2. QED
          BY <1>1, <4>1, <5>1
    <3>2. ReadHeader(NewDraft(names), bin) = DraftOf(f)
      <4>1. f.binary = TRUE /\ f.chmod = FALSE
        BY <1>4, <1>7, <2>2
      <4>2. ReadHeader(NewDraft(names), bin) = ReadBinary(NewDraft(names), SidesOf(f))
        BY ReadHeaderCases DEF bin
      <4>3. QED
        BY <1>b, <1>3, <1>6, <1>7, <4>1, <4>2 DEF NewDraft
    <3>3. QED
      BY <3>1, <3>2 DEF After
  <2>3. QED
    BY <2>1, <2>2
<1>8. CASE /\ f.old \in Paths /\ f.new = f.old /\ f.chmod /\ ~f.binary /\ f.similarity = None
           /\ HeaderLines(f) = <<git, Line("old mode", "100644"), Line("new mode", "100755")>>
  <2> DEFINE d1 == [NewDraft(names) EXCEPT !.oldMode = "100644"]
             l1 == Line("old mode", "100644")
             d2 == [d1 EXCEPT !.newMode = "100755"]
             l2 == Line("new mode", "100755")
  <2>1. ReadLine(After(NewDraft(names)), l1) = After(d1)
    BY <1>om
  <2>2. ReadLine(After(d1), l2) = After(d2)
    BY <1>nm
  <2>3. d2 = DraftOf(f)
    <3>1. /\ f.binary = FALSE /\ f.chmod = TRUE /\ f.old # None /\ f.new # None
          /\ f.similarity = None
      BY <1>3, <1>4, <1>8
    <3>2. d2 \in
          [names : {names}, old : {Unseen}, new : {Unseen}, oldMode : {"100644"},
           newMode : {"100755"}, similarity : {None}, isBinary : {FALSE}, isRename : {FALSE},
           isNewFile : {FALSE}, isDeletedFile : {FALSE}, hunks : {<<>>}]
      BY DEF NewDraft
    <3> HIDE DEF d1, d2
    <3>3. d2 =
          [names |-> names, old |-> Unseen, new |-> Unseen, oldMode |-> "100644",
           newMode |-> "100755", similarity |-> None, isBinary |-> FALSE, isRename |-> FALSE,
           isNewFile |-> FALSE, isDeletedFile |-> FALSE, hunks |-> <<>>]
      BY <3>2
    <3>4. QED
      BY <1>3, <1>6, <3>1, <3>3
  <2>4. HeaderLines(f) = <<git, l1, l2>>
    BY <1>8
  <2> HIDE DEF d1, l1, d2, l2
  <2>5. ReadLines(s, HeaderLines(f)) = ReadLine(ReadLine(ReadLine(s, git), l1), l2)
    BY <2>4, ReadThree
  <2>6. QED
    BY <1>1, <2>1, <2>2, <2>3, <2>5 DEF After
<1>9. CASE /\ f.old = None /\ f.new \in Paths /\ ~f.chmod /\ f.similarity = None /\ ~f.binary
           /\ HeaderLines(f) = <<git, Line("new file mode", "100644")>>
  <2> DEFINE d1 == [NewDraft(names) EXCEPT !.isNewFile = TRUE, !.newMode = "100644",
                                              !.old = None]
             l1 == Line("new file mode", "100644")
  <2>1. ReadLine(After(NewDraft(names)), l1) = After(d1)
    BY <1>nf
  <2>2. d1 = DraftOf(f)
    <3>1. /\ f.binary = FALSE /\ f.chmod = FALSE /\ f.old = None /\ f.new # None
          /\ f.similarity = None
      BY <1>3, <1>4, <1>9
    <3>2. d1 \in
          [names : {names}, old : {None}, new : {Unseen}, oldMode : {None},
           newMode : {"100644"}, similarity : {None}, isBinary : {FALSE}, isRename : {FALSE},
           isNewFile : {TRUE}, isDeletedFile : {FALSE}, hunks : {<<>>}]
      BY DEF NewDraft
    <3> HIDE DEF d1
    <3>3. d1 =
          [names |-> names, old |-> None, new |-> Unseen, oldMode |-> None,
           newMode |-> "100644", similarity |-> None, isBinary |-> FALSE, isRename |-> FALSE,
           isNewFile |-> TRUE, isDeletedFile |-> FALSE, hunks |-> <<>>]
      BY <3>2
    <3>4. QED
      BY <1>3, <1>6, <3>1, <3>3
  <2>3. HeaderLines(f) = <<git, l1>>
    BY <1>9
  <2> HIDE DEF d1, l1
  <2>4. ReadLines(s, HeaderLines(f)) = ReadLine(ReadLine(s, git), l1)
    BY <2>3, ReadTwo
  <2>5. QED
    BY <1>1, <2>1, <2>2, <2>4 DEF After
<1>10. CASE /\ f.old = None /\ f.new \in Paths /\ ~f.chmod /\ f.similarity = None /\ f.binary
            /\ HeaderLines(f) = <<git, Line("new file mode", "100644"), bin>>
  <2> DEFINE d1 == [NewDraft(names) EXCEPT !.isNewFile = TRUE, !.newMode = "100644",
                                              !.old = None]
             l1 == Line("new file mode", "100644")
             d2 == ReadBinary(d1, SidesOf(f))
             l2 == bin
  <2>1. ReadLine(After(NewDraft(names)), l1) = After(d1)
    BY <1>nf
  <2>2. ReadLine(After(d1), l2) = After(d2)
    BY <1>bin
  <2>3. d2 = DraftOf(f)
    <3>1. /\ f.binary = TRUE /\ f.chmod = FALSE /\ f.old = None /\ f.new # None
          /\ f.similarity = None /\ f.old \notin Ambiguous
      BY <1>3, <1>4, <1>10
    <3>2. d2 \in
          [names : {names}, old : {None}, new : {f.new}, oldMode : {None},
           newMode : {"100644"}, similarity : {None}, isBinary : {TRUE}, isRename : {FALSE},
           isNewFile : {TRUE}, isDeletedFile : {FALSE}, hunks : {<<>>}]
      BY <1>3, <3>1 DEF NewDraft, ReadBinary, SidesOf
    <3> HIDE DEF d1, d2
    <3>3. d2 =
          [names |-> names, old |-> None, new |-> f.new, oldMode |-> None,
           newMode |-> "100644", similarity |-> None, isBinary |-> TRUE, isRename |-> FALSE,
           isNewFile |-> TRUE, isDeletedFile |-> FALSE, hunks |-> <<>>]
      BY <3>2
    <3>4. QED
      BY <1>3, <1>6, <3>1, <3>3
  <2>4. HeaderLines(f) = <<git, l1, l2>>
    BY <1>10
  <2> HIDE DEF d1, l1, d2, l2
  <2>5. ReadLines(s, HeaderLines(f)) = ReadLine(ReadLine(ReadLine(s, git), l1), l2)
    BY <2>4, ReadThree
  <2>6. QED
    BY <1>1, <2>1, <2>2, <2>3, <2>5 DEF After
<1>11. CASE /\ f.old \in Paths /\ f.new = None /\ ~f.chmod /\ f.similarity = None /\ ~f.binary
            /\ HeaderLines(f) = <<git, Line("deleted file mode", "100644")>>
  <2> DEFINE d1 == [NewDraft(names) EXCEPT !.isDeletedFile = TRUE, !.oldMode = "100644",
                                              !.new = None]
             l1 == Line("deleted file mode", "100644")
  <2>1. ReadLine(After(NewDraft(names)), l1) = After(d1)
    BY <1>dm
  <2>2. d1 = DraftOf(f)
    <3>1. /\ f.binary = FALSE /\ f.chmod = FALSE /\ f.new = None /\ f.old # None
          /\ f.similarity = None
      BY <1>3, <1>4, <1>11
    <3>2. d1 \in
          [names : {names}, old : {Unseen}, new : {None}, oldMode : {"100644"},
           newMode : {None}, similarity : {None}, isBinary : {FALSE}, isRename : {FALSE},
           isNewFile : {FALSE}, isDeletedFile : {TRUE}, hunks : {<<>>}]
      BY DEF NewDraft
    <3> HIDE DEF d1
    <3>3. d1 =
          [names |-> names, old |-> Unseen, new |-> None, oldMode |-> "100644",
           newMode |-> None, similarity |-> None, isBinary |-> FALSE, isRename |-> FALSE,
           isNewFile |-> FALSE, isDeletedFile |-> TRUE, hunks |-> <<>>]
      BY <3>2
    <3>4. QED
      BY <1>3, <1>6, <3>1, <3>3
  <2>3. HeaderLines(f) = <<git, l1>>
    BY <1>11
  <2> HIDE DEF d1, l1
  <2>4. ReadLines(s, HeaderLines(f)) = ReadLine(ReadLine(s, git), l1)
    BY <2>3, ReadTwo
  <2>5. QED
    BY <1>1, <2>1, <2>2, <2>4 DEF After
<1>12. CASE /\ f.old \in Paths /\ f.new = None /\ ~f.chmod /\ f.similarity = None /\ f.binary
            /\ HeaderLines(f) = <<git, Line("deleted file mode", "100644"), bin>>
  <2> DEFINE d1 == [NewDraft(names) EXCEPT !.isDeletedFile = TRUE, !.oldMode = "100644",
                                              !.new = None]
             l1 == Line("deleted file mode", "100644")
             d2 == ReadBinary(d1, SidesOf(f))
             l2 == bin
  <2>1. ReadLine(After(NewDraft(names)), l1) = After(d1)
    BY <1>dm
  <2>2. ReadLine(After(d1), l2) = After(d2)
    BY <1>bin
  <2>3. d2 = DraftOf(f)
    <3>1. /\ f.binary = TRUE /\ f.chmod = FALSE /\ f.new = None /\ f.old # None
          /\ f.similarity = None
      BY <1>3, <1>4, <1>12
    <3>2. d2 \in
          [names : {names}, old : {IF f.old \in Ambiguous THEN Garbled ELSE f.old},
           new : {None}, oldMode : {"100644"}, newMode : {None}, similarity : {None}, isBinary : {TRUE}, isRename : {FALSE},
           isNewFile : {FALSE}, isDeletedFile : {TRUE}, hunks : {<<>>}]
      BY <1>3, <3>1 DEF NewDraft, ReadBinary, SidesOf
    <3> HIDE DEF d1, d2
    <3>3. d2 =
          [names |-> names, old |-> IF f.old \in Ambiguous THEN Garbled ELSE f.old,
           new |-> None, oldMode |-> "100644", newMode |-> None, similarity |-> None, isBinary |-> TRUE, isRename |-> FALSE,
           isNewFile |-> FALSE, isDeletedFile |-> TRUE, hunks |-> <<>>]
      BY <3>2
    <3>4. QED
      BY <1>3, <1>6, <3>1, <3>3
  <2>4. HeaderLines(f) = <<git, l1, l2>>
    BY <1>12
  <2> HIDE DEF d1, l1, d2, l2
  <2>5. ReadLines(s, HeaderLines(f)) = ReadLine(ReadLine(ReadLine(s, git), l1), l2)
    BY <2>4, ReadThree
  <2>6. QED
    BY <1>1, <2>1, <2>2, <2>3, <2>5 DEF After
<1>13. CASE /\ f.old \in Paths /\ f.new \in Paths /\ ~f.chmod /\ ~f.binary
            /\ f.similarity = Similar
            /\ HeaderLines(f) = <<git, Line("similarity index", Similar),
                                  Line("rename from", f.old), Line("rename to", f.new)>>
  <2> DEFINE d1 == [NewDraft(names) EXCEPT !.similarity = Similar]
             l1 == Line("similarity index", Similar)
             d2 == [d1 EXCEPT !.isRename = TRUE, !.old = f.old]
             l2 == Line("rename from", f.old)
             d3 == [d2 EXCEPT !.isRename = TRUE, !.new = f.new]
             l3 == Line("rename to", f.new)
  <2>1. ReadLine(After(NewDraft(names)), l1) = After(d1)
    BY <1>si
  <2>2. ReadLine(After(d1), l2) = After(d2)
    BY <1>rf
  <2>3. ReadLine(After(d2), l3) = After(d3)
    BY <1>rt
  <2>4. d3 = DraftOf(f)
    <3>1. /\ f.binary = FALSE /\ f.chmod = FALSE /\ f.new # None /\ f.old # None
          /\ f.similarity = Similar
      BY <1>3, <1>4, <1>13
    <3>2. d3 \in
          [names : {names}, old : {f.old}, new : {f.new}, oldMode : {None},
           newMode : {None}, similarity : {Similar}, isBinary : {FALSE}, isRename : {TRUE},
           isNewFile : {FALSE}, isDeletedFile : {FALSE}, hunks : {<<>>}]
      BY DEF NewDraft
    <3> HIDE DEF d1, d2, d3
    <3>3. d3 =
          [names |-> names, old |-> f.old, new |-> f.new, oldMode |-> None,
           newMode |-> None, similarity |-> Similar, isBinary |-> FALSE, isRename |-> TRUE,
           isNewFile |-> FALSE, isDeletedFile |-> FALSE, hunks |-> <<>>]
      BY <3>2
    <3>4. QED
      BY <1>3, <1>6, <3>1, <3>3
  <2>5. HeaderLines(f) = <<git, l1, l2, l3>>
    BY <1>13
  <2> HIDE DEF d1, l1, d2, l2, d3, l3
  <2>6. ReadLines(s, HeaderLines(f)) =
          ReadLine(ReadLine(ReadLine(ReadLine(s, git), l1), l2), l3)
    BY <2>5, ReadFour
  <2>7. QED
    BY <1>1, <2>1, <2>2, <2>3, <2>4, <2>6 DEF After
<1>14. QED
  BY <1>7, <1>8, <1>9, <1>10, <1>11, <1>12, <1>13, HeaderForms DEF git, bin, names

-----------------------------------------------------------------------------
(* The numbers of the lines.                                               *)

\* The lines of a side before some line are counted by a natural number,
LEMMA BeforeType ==
  ASSUME NEW h, NEW i \in Nat \ {0}, NEW gone
  PROVE  /\ IsFiniteSet({j \in 1 .. i - 1 : h.lines[j].type # gone})
         /\ Before(h, i, gone) \in Nat
<1>1. IsFiniteSet(1 .. i - 1)
  BY FS_Interval
<1>2. {j \in 1 .. i - 1 : h.lines[j].type # gone} \in SUBSET (1 .. i - 1)
  OBVIOUS
<1>3. IsFiniteSet({j \in 1 .. i - 1 : h.lines[j].type # gone})
  BY <1>1, <1>2, FS_Subset
<1>4. QED
  BY <1>3, FS_CardinalityType DEF Before

\* one more behind each line of the side,
LEMMA BeforeStep ==
  ASSUME NEW h, NEW i \in Nat \ {0}, NEW gone
  PROVE  Before(h, i + 1, gone) = Before(h, i, gone) + (IF h.lines[i].type # gone THEN 1 ELSE 0)
<1> DEFINE S == {j \in 1 .. i - 1 : h.lines[j].type # gone}
           T == {j \in 1 .. i + 1 - 1 : h.lines[j].type # gone}
<1>1. IsFiniteSet(S) /\ Cardinality(S) \in Nat
  BY BeforeType, FS_CardinalityType
<1>2. CASE h.lines[i].type # gone
  <2>1. T = S \cup {i} /\ i \notin S
    BY <1>2
  <2> HIDE DEF S, T
  <2>2. Cardinality(T) = Cardinality(S) + 1
    BY <1>1, <2>1, FS_AddElement
  <2>3. QED
    BY <1>2, <2>2 DEF Before, S, T
<1>3. CASE h.lines[i].type = gone
  <2>1. T = S
    BY <1>3
  <2> HIDE DEF S, T
  <2>2. Cardinality(T) = Cardinality(S)
    BY <2>1
  <2>3. Before(h, i + 1, gone) = Before(h, i, gone)
    BY <2>2 DEF Before, S, T
  <2>4. QED
    BY <1>3, <1>1, <2>3 DEF Before, S
<1>4. QED
  BY <1>2, <1>3

\* by their types alone,
LEMMA BeforeSame ==
  ASSUME NEW g, NEW h, NEW i \in Nat \ {0}, NEW gone,
         \A j \in 1 .. i - 1 : g.lines[j].type = h.lines[j].type
  PROVE  Before(g, i, gone) = Before(h, i, gone)
<1>1. {j \in 1 .. i - 1 : g.lines[j].type # gone} = {j \in 1 .. i - 1 : h.lines[j].type # gone}
  OBVIOUS
<1>2. QED
  BY <1>1 DEF Before

\* and from 0.
LEMMA BeforeNone ==
  ASSUME NEW h, NEW gone
  PROVE  Before(h, 1, gone) = 0
<1>1. {j \in 1 .. 1 - 1 : h.lines[j].type # gone} = {}
  OBVIOUS
<1>2. QED
  BY <1>1, FS_EmptySet DEF Before

\* The texts of lines, with and without a CR at their end, are sequences of tokens,
LEMMA TextType == \A text \in {l[2] : l \in Lines} : text \in Seq(STRING)
<1>1. \A l \in Types \X Seq(STRING) : l[2] \in Seq(STRING)
  OBVIOUS
<1>2. QED
  BY <1>1, UnifiedDiffAssumption

\* and Chomp takes away a blank at most.
LEMMA ChompType ==
  ASSUME NEW text \in Seq(STRING)
  PROVE  Chomp(text) \in Seq(STRING) /\ (IsBlank(text) => IsBlank(Chomp(text)))
<1>1. CASE text # <<>> /\ text[Len(text)] = CR
  <2>1. Chomp(text) = SubSeq(text, 1, Len(text) - 1)
    BY <1>1 DEF Chomp
  <2> DEFINE n == Len(text) - 1
             t == SubSeq(text, 1, n)
  <2>2. n \in Nat /\ n <= Len(text)
    BY <1>1
  <2> HIDE DEF n
  <2>3. t \in Seq(STRING) /\ Len(t) = n /\ \A i \in 1 .. n : t[i] = text[i]
    BY <2>2
  <2> HIDE DEF t
  <2>4. QED
    BY <2>1, <2>2, <2>3 DEF IsBlank, t, n
<1>2. CASE ~(text # <<>> /\ text[Len(text)] = CR)
  BY <1>2 DEF Chomp
<1>3. QED
  BY <1>1, <1>2

\* A line of a hunk as git means it.
MeantLine(h, i) ==
  [type |-> h.lines[i].type, text |-> Chomp(h.lines[i].text), noNewline |-> h.lines[i].noNewline,
   oldNo |-> IF h.lines[i].type = "add" THEN None ELSE h.old + Before(h, i, "add"),
   newNo |-> IF h.lines[i].type = "del" THEN None ELSE h.new + Before(h, i, "del")]

\* It is the same whatever comes after it.
LEMMA MeantLineSame ==
  ASSUME NEW g, NEW h, NEW i \in Nat \ {0}, g.old = h.old, g.new = h.new,
         \A j \in 1 .. i : g.lines[j] = h.lines[j]
  PROVE  MeantLine(g, i) = MeantLine(h, i)
<1>1. \A j \in 1 .. i - 1 : g.lines[j].type = h.lines[j].type
  OBVIOUS
<1>2. Before(g, i, "add") = Before(h, i, "add")
  BY <1>1, BeforeSame
<1>3. Before(g, i, "del") = Before(h, i, "del")
  BY <1>1, BeforeSame
<1>4. g.lines[i] = h.lines[i]
  OBVIOUS
<1>5. QED
  BY <1>2, <1>3, <1>4 DEF MeantLine

\* It is a line of a parsed hunk.
LEMMA MeantLineType ==
  ASSUME NEW h \in WrittenHunks, NEW i \in 1 .. Len(h.lines)
  PROVE  MeantLine(h, i) \in DiffLines
<1>1. h.lines[i] \in WrittenLines
  BY DEF WrittenHunks
<1> DEFINE text == Chomp(h.lines[i].text)
<1>0. text \in Seq(STRING)
  BY <1>1, TextType, ChompType DEF WrittenLines
<1>5. /\ h.lines[i].type \in Types /\ h.lines[i].noNewline \in BOOLEAN
      /\ MeantLine(h, i) = [type |-> h.lines[i].type, text |-> text,
           noNewline |-> h.lines[i].noNewline,
           oldNo |-> IF h.lines[i].type = "add" THEN None ELSE h.old + Before(h, i, "add"),
           newNo |-> IF h.lines[i].type = "del" THEN None ELSE h.new + Before(h, i, "del")]
  BY <1>1 DEF MeantLine, WrittenLines
<1> HIDE DEF text
<1>2. Before(h, i, "add") \in Nat /\ Before(h, i, "del") \in Nat
  <2>1. i \in Nat \ {0}
    BY DEF WrittenHunks
  <2>2. QED
    BY <2>1, BeforeType
<1>3. h.old + Before(h, i, "add") \in Nat /\ h.new + Before(h, i, "del") \in Nat
  BY <1>2 DEF WrittenHunks
<1>4. QED
  BY <1>0, <1>3, <1>5 DEF DiffLines

\* A hunk as git means it is a parsed hunk, of these lines.
LEMMA MeantHunkType ==
  ASSUME NEW h \in WrittenHunks
  PROVE  /\ MeantHunk(h) \in DiffHunks
         /\ MeantHunk(h) = [old |-> h.old, new |-> h.new,
                            lines |-> [i \in 1 .. Len(h.lines) |-> MeantLine(h, i)]]
         /\ Len(MeantHunk(h).lines) = Len(h.lines)
         /\ MeantHunk(h).old = h.old /\ MeantHunk(h).new = h.new
         /\ \A i \in 1 .. Len(h.lines) : MeantHunk(h).lines[i] = MeantLine(h, i)
<1>1. MeantHunk(h) = [old |-> h.old, new |-> h.new,
                      lines |-> [i \in 1 .. Len(h.lines) |-> MeantLine(h, i)]]
  BY DEF MeantHunk, MeantLine
<1>2. Len(h.lines) \in Nat
  BY DEF WrittenHunks
<1> DEFINE ls == [i \in 1 .. Len(h.lines) |-> MeantLine(h, i)]
<1>3. ls \in Seq(DiffLines) /\ Len(ls) = Len(h.lines)
  BY <1>2, MeantLineType
<1>4. \A i \in 1 .. Len(h.lines) : ls[i] = MeantLine(h, i)
  OBVIOUS
<1> HIDE DEF ls
<1>5. QED
  BY <1>1, <1>3, <1>4 DEF DiffHunks, WrittenHunks, ls

\* The hunk g is the hunk h with the line l behind it.
LineAdded(h, g, l) ==
  /\ h \in WrittenHunks /\ g \in WrittenHunks /\ g.old = h.old /\ g.new = h.new
  /\ Len(h.lines) \in Nat /\ Len(g.lines) = Len(h.lines) + 1
  /\ \A i \in 1 .. Len(h.lines) : g.lines[i] = h.lines[i]
  /\ g.lines[Len(h.lines) + 1] = l

\* WriteLine adds a line.
LEMMA LineIsAdded ==
  ASSUME NEW h \in WrittenHunks, NEW l \in WrittenLines
  PROVE  LineAdded(h, [h EXCEPT !.lines = Append(@, l)], l)
BY DEF WrittenHunks, LineAdded

\* A line more leaves the numbers of the others as they are.
LEMMA MeantHunkAppend ==
  ASSUME NEW h, NEW g, NEW l, LineAdded(h, g, l)
  PROVE  MeantHunk(g).lines = Append(MeantHunk(h).lines, MeantLine(g, Len(h.lines) + 1))
<1>1. /\ h \in WrittenHunks /\ g \in WrittenHunks /\ g.old = h.old /\ g.new = h.new
      /\ Len(h.lines) \in Nat /\ Len(g.lines) = Len(h.lines) + 1
      /\ \A i \in 1 .. Len(h.lines) : g.lines[i] = h.lines[i]
      /\ g.lines[Len(h.lines) + 1] = l
  BY DEF LineAdded
<1>2. ASSUME NEW i \in 1 .. Len(h.lines)
      PROVE  MeantLine(g, i) = MeantLine(h, i)
  <2>1. /\ i \in Nat \ {0} /\ g.old = h.old /\ g.new = h.new
        /\ \A j \in 1 .. i : g.lines[j] = h.lines[j]
    BY <1>1
  <2>2. QED
    BY <2>1, MeantLineSame
<1> DEFINE new == Append(MeantHunk(h).lines, MeantLine(g, Len(h.lines) + 1))
<1>3. /\ new \in Seq(DiffLines) /\ Len(new) = Len(h.lines) + 1
      /\ new[Len(h.lines) + 1] = MeantLine(g, Len(h.lines) + 1)
      /\ \A i \in 1 .. Len(h.lines) : new[i] = MeantLine(h, i)
  <2>1. /\ MeantHunk(h).lines \in Seq(DiffLines) /\ Len(MeantHunk(h).lines) = Len(h.lines)
        /\ \A i \in 1 .. Len(h.lines) : MeantHunk(h).lines[i] = MeantLine(h, i)
    BY <1>1, MeantHunkType DEF DiffHunks
  <2>2. MeantLine(g, Len(h.lines) + 1) \in DiffLines
    <3>1. Len(h.lines) + 1 \in 1 .. Len(g.lines)
      BY <1>1
    <3>2. QED
      BY <1>1, <3>1, MeantLineType
  <2>3. \A s \in Seq(DiffLines), e \in DiffLines :
          /\ Append(s, e) \in Seq(DiffLines) /\ Len(Append(s, e)) = Len(s) + 1
          /\ \A i \in 1 .. Len(s) : Append(s, e)[i] = s[i]
          /\ Append(s, e)[Len(s) + 1] = e
    BY AppendProperties
  <2>4. /\ new \in Seq(DiffLines) /\ Len(new) = Len(MeantHunk(h).lines) + 1
        /\ \A i \in 1 .. Len(MeantHunk(h).lines) : new[i] = MeantHunk(h).lines[i]
        /\ new[Len(MeantHunk(h).lines) + 1] = MeantLine(g, Len(h.lines) + 1)
    BY <2>1, <2>2, <2>3
  <2> HIDE DEF new
  <2>5. QED
    BY <2>1, <2>4
<1> HIDE DEF new
<1>4. /\ MeantHunk(g).lines \in Seq(DiffLines) /\ Len(MeantHunk(g).lines) = Len(h.lines) + 1
      /\ \A i \in 1 .. Len(h.lines) + 1 : MeantHunk(g).lines[i] = MeantLine(g, i)
  BY <1>1, MeantHunkType DEF DiffHunks
<1>5. \A i \in 1 .. Len(h.lines) + 1 : MeantHunk(g).lines[i] = new[i]
  <2> TAKE i \in 1 .. Len(h.lines) + 1
  <2>1. CASE i \in 1 .. Len(h.lines)
    BY <1>2, <1>3, <1>4, <2>1
  <2>2. CASE i = Len(h.lines) + 1
    BY <1>3, <1>4, <2>2
  <2>3. QED
    BY <1>1, <2>1, <2>2
<1>6. MeantHunk(g).lines = new
  BY <1>3, <1>4, <1>5, SeqEqual
<1>7. QED
  BY <1>1, <1>6 DEF new

-----------------------------------------------------------------------------
(* The open hunk.                                                          *)

\* Open hunks with the same fields are the same.
LEMMA OpenHunkEqual ==
  ASSUME NEW a \in OpenHunks, NEW b \in OpenHunks, a.old = b.old, a.new = b.new,
         a.lines = b.lines, a.oldNext = b.oldNext, a.newNext = b.newNext
  PROVE  a = b
BY DEF OpenHunks

\* What the parser keeps of the open hunk.
LEMMA HunkOfType ==
  ASSUME NEW h \in WrittenHunks
  PROVE  /\ HunkOf(h) \in OpenHunks
         /\ HunkOf(h).old = h.old /\ HunkOf(h).new = h.new
         /\ HunkOf(h).lines = MeantHunk(h).lines
         /\ HunkOf(h).oldNext = h.old + Before(h, Len(h.lines) + 1, "add")
         /\ HunkOf(h).newNext = h.new + Before(h, Len(h.lines) + 1, "del")
<1>1. Len(h.lines) + 1 \in Nat \ {0}
  BY DEF WrittenHunks
<1>2. /\ Before(h, Len(h.lines) + 1, "add") \in Nat
      /\ Before(h, Len(h.lines) + 1, "del") \in Nat
  BY <1>1, BeforeType
<1>3. MeantHunk(h).lines \in Seq(DiffLines)
  BY MeantHunkType DEF DiffHunks
<1>4. QED
  BY <1>2, <1>3 DEF HunkOf, OpenHunks, WrittenHunks

\* A new hunk is open with its counters at its first lines.
LEMMA HunkOfNew ==
  ASSUME NEW h \in WrittenHunks, h.lines = <<>>
  PROVE  HunkOf(h) = [old |-> h.old, new |-> h.new, lines |-> <<>>,
                      oldNext |-> h.old, newNext |-> h.new]
<1>1. Len(h.lines) + 1 = 1
  OBVIOUS
<1>2. Before(h, Len(h.lines) + 1, "add") = 0 /\ Before(h, Len(h.lines) + 1, "del") = 0
  BY <1>1, BeforeNone
<1>3. MeantHunk(h).lines = <<>>
  BY DEF MeantHunk
<1>4. h.old \in Nat /\ h.new \in Nat
  BY DEF WrittenHunks
<1>5. QED
  BY <1>2, <1>3, <1>4 DEF HunkOf

\* A line of a hunk: the counters of the parser are the numbers that git means, before
\* and after it.
LEMMA ReadsMarked ==
  ASSUME NEW h, NEW g, NEW type \in Types, NEW text,
         LineAdded(h, g, [type |-> type, text |-> text, noNewline |-> FALSE])
  PROVE  HunkOf(g) = ReadMarked(HunkOf(h), Line(type, text))
<1> DEFINE n == Len(h.lines)
           r == ReadMarked(HunkOf(h), Line(type, text))
<1>2. /\ h \in WrittenHunks /\ g \in WrittenHunks
      /\ MeantHunk(g).lines = Append(MeantHunk(h).lines, MeantLine(g, n + 1))
  BY MeantHunkAppend DEF LineAdded
<1>3. /\ n \in Nat /\ Len(g.lines) = n + 1
      /\ g.lines[n + 1].type = type /\ g.lines[n + 1].text = text
      /\ g.lines[n + 1].noNewline = FALSE
      /\ \A j \in 1 .. n : g.lines[j] = h.lines[j]
      /\ g.old = h.old /\ g.new = h.new /\ h.old \in Nat /\ h.new \in Nat
  BY DEF LineAdded, WrittenHunks
<1>4. ASSUME NEW gone
      PROVE  /\ Before(g, n + 1, gone) = Before(h, n + 1, gone) /\ Before(h, n + 1, gone) \in Nat
             /\ Before(g, n + 2, gone) = Before(h, n + 1, gone) + (IF type # gone THEN 1 ELSE 0)
  <2>1. n + 1 \in Nat \ {0} /\ \A j \in 1 .. n + 1 - 1 : g.lines[j].type = h.lines[j].type
    BY <1>3
  <2>2. PICK m \in Nat \ {0} : m = n + 1 /\ m + 1 = n + 2
    BY <2>1
  <2>3. \A j \in 1 .. m - 1 : g.lines[j].type = h.lines[j].type
    BY <2>1, <2>2
  <2>4. Before(g, m, gone) = Before(h, m, gone) /\ Before(h, m, gone) \in Nat
    BY <2>3, BeforeSame, BeforeType
  <2>5. Before(g, m + 1, gone)
          = Before(g, m, gone) + (IF g.lines[m].type # gone THEN 1 ELSE 0)
    BY BeforeStep
  <2>6. g.lines[m].type = type
    BY <1>3, <2>2
  <2>7. QED
    BY <2>2, <2>4, <2>5, <2>6
<1>5. MeantLine(g, n + 1)
        = [type |-> type, text |-> Chomp(text),
           oldNo |-> IF type \in {"context", "del"} THEN HunkOf(h).oldNext ELSE None,
           newNo |-> IF type \in {"context", "add"} THEN HunkOf(h).newNext ELSE None,
           noNewline |-> FALSE]
  <2>1. /\ HunkOf(h).oldNext = g.old + Before(g, n + 1, "add")
        /\ HunkOf(h).newNext = g.new + Before(g, n + 1, "del")
    BY <1>2, <1>3, <1>4, HunkOfType
  <2>2. /\ type = "add" <=> type \notin {"context", "del"}
        /\ type = "del" <=> type \notin {"context", "add"}
    BY DEF Types
  <2>3. g.lines[n + 1].type = type /\ g.lines[n + 1].text = text
        /\ g.lines[n + 1].noNewline = FALSE
    BY <1>3
  <2> HIDE DEF n
  <2>4. QED
    BY <2>1, <2>2, <2>3 DEF MeantLine
<1>6. /\ HunkOf(g) \in OpenHunks /\ HunkOf(g).old = h.old /\ HunkOf(g).new = h.new
      /\ HunkOf(g).lines = Append(HunkOf(h).lines, MeantLine(g, n + 1))
      /\ HunkOf(g).oldNext = HunkOf(h).oldNext + (IF type # "add" THEN 1 ELSE 0)
      /\ HunkOf(g).newNext = HunkOf(h).newNext + (IF type # "del" THEN 1 ELSE 0)
  <2>1. /\ HunkOf(g).oldNext = g.old + Before(g, Len(g.lines) + 1, "add")
        /\ HunkOf(g).newNext = g.new + Before(g, Len(g.lines) + 1, "del")
    BY <1>2, HunkOfType
  <2>2. Len(g.lines) + 1 = n + 2
    BY <1>3
  <2>3. /\ HunkOf(h).oldNext = h.old + Before(h, n + 1, "add")
        /\ HunkOf(h).newNext = h.new + Before(h, n + 1, "del")
    BY <1>2, HunkOfType
  <2>4. /\ Before(h, n + 1, "add") \in Nat /\ Before(h, n + 1, "del") \in Nat
        /\ Before(g, n + 2, "add") = Before(h, n + 1, "add") + (IF type # "add" THEN 1 ELSE 0)
        /\ Before(g, n + 2, "del") = Before(h, n + 1, "del") + (IF type # "del" THEN 1 ELSE 0)
    BY <1>4
  <2>5. /\ HunkOf(g) \in OpenHunks /\ HunkOf(g).old = h.old /\ HunkOf(g).new = h.new
        /\ HunkOf(g).lines = Append(HunkOf(h).lines, MeantLine(g, n + 1))
    BY <1>2, <1>3, HunkOfType
  <2> HIDE DEF n
  <2>6. QED
    BY <1>3, <2>1, <2>2, <2>3, <2>4, <2>5
<1>7. /\ r \in OpenHunks /\ r.old = h.old /\ r.new = h.new
      /\ r.lines = Append(HunkOf(h).lines, MeantLine(g, n + 1))
      /\ r.oldNext = HunkOf(h).oldNext + (IF type # "add" THEN 1 ELSE 0)
      /\ r.newNext = HunkOf(h).newNext + (IF type # "del" THEN 1 ELSE 0)
  <2> DEFINE o == HunkOf(h)
             m == MeantLine(g, n + 1)
  <2>1. /\ o \in OpenHunks /\ o.old = h.old /\ o.new = h.new
    BY <1>2, <1>3, HunkOfType
  <2>2. r = [o EXCEPT
               !.lines = Append(@, m),
               !.oldNext = IF type \in {"context", "del"} THEN @ + 1 ELSE @,
               !.newNext = IF type \in {"context", "add"} THEN @ + 1 ELSE @]
    BY <1>5 DEF ReadMarked, Line
  <2>3. /\ type \in {"context", "del"} <=> type # "add"
        /\ type \in {"context", "add"} <=> type # "del"
    BY DEF Types
  <2>4. m \in DiffLines
    <3>1. n + 1 \in 1 .. Len(g.lines)
      BY <1>3
    <3>2. QED
      BY <1>2, <3>1, MeantLineType
  <2> HIDE DEF r, n, o, m
  <2>5. Append(o.lines, m) \in Seq(DiffLines) /\ o.oldNext + 1 \in Nat /\ o.newNext + 1 \in Nat
    BY <2>1, <2>4 DEF OpenHunks
  <2>6. /\ r \in OpenHunks /\ r.old = o.old /\ r.new = o.new
        /\ r.lines = Append(o.lines, m)
        /\ r.oldNext = IF type # "add" THEN o.oldNext + 1 ELSE o.oldNext
        /\ r.newNext = IF type # "del" THEN o.newNext + 1 ELSE o.newNext
    BY <2>1, <2>2, <2>3, <2>5 DEF OpenHunks
  <2>7. o.oldNext \in Nat /\ o.newNext \in Nat
    BY <2>1 DEF OpenHunks
  <2>8. QED
    BY <2>1, <2>6, <2>7 DEF o, m
<1>8. QED
  <2> HIDE DEF r, n
  <2>1. HunkOf(g) = r
    BY <1>6, <1>7, OpenHunkEqual
  <2>2. QED
    BY <1>2, <2>1 DEF r

\* The hunk g is the hunk h with no newline at its end.
LineEnded(h, g) ==
  /\ h \in WrittenHunks /\ g \in WrittenHunks /\ g.old = h.old /\ g.new = h.new
  /\ Len(h.lines) \in Nat \ {0} /\ Len(g.lines) = Len(h.lines)
  /\ \A i \in 1 .. Len(h.lines) :
       /\ g.lines[i].type = h.lines[i].type /\ g.lines[i].text = h.lines[i].text
       /\ g.lines[i].noNewline = IF i = Len(h.lines) THEN TRUE ELSE h.lines[i].noNewline

\* WriteNoNewline ends a hunk so.
LEMMA LineIsEnded ==
  ASSUME NEW h \in WrittenHunks, h.lines # <<>>
  PROVE  LineEnded(h, [h EXCEPT !.lines[Len(h.lines)].noNewline = TRUE])
<1> DEFINE n == Len(h.lines)
           ls == [h.lines EXCEPT ![n].noNewline = TRUE]
           g == [h EXCEPT !.lines = ls]
<1>1. h.lines \in Seq(WrittenLines) /\ n \in Nat \ {0} /\ h.lines[n] \in WrittenLines
  BY DEF WrittenHunks
<1>2. [h.lines[n] EXCEPT !.noNewline = TRUE] \in WrittenLines
  BY <1>1 DEF WrittenLines
<1>3. ls = [h.lines EXCEPT ![n] = [h.lines[n] EXCEPT !.noNewline = TRUE]]
  BY <1>1
<1>4. /\ ls \in Seq(WrittenLines) /\ Len(ls) = n
      /\ \A i \in 1 .. n : ls[i] = IF i = n THEN [h.lines[n] EXCEPT !.noNewline = TRUE]
                                   ELSE h.lines[i]
  <2> HIDE DEF n, ls
  <2>1. n \in 1 .. Len(h.lines)
    BY <1>1 DEF n
  <2>2. QED
    BY <1>1, <1>2, <1>3, <2>1, ExceptSeq DEF n
<1>5. \A i \in 1 .. n :
        /\ ls[i].type = h.lines[i].type /\ ls[i].text = h.lines[i].text
        /\ ls[i].noNewline = IF i = n THEN TRUE ELSE h.lines[i].noNewline
  <2> TAKE i \in 1 .. n
  <2>1. h.lines[n] \in WrittenLines
    BY <1>1
  <2> HIDE DEF n, ls
  <2>2. QED
    BY <1>4, <2>1 DEF WrittenLines
<1>6. g \in WrittenHunks /\ g.old = h.old /\ g.new = h.new /\ g.lines = ls
  BY <1>4 DEF WrittenHunks
<1>7. g = [h EXCEPT !.lines[Len(h.lines)].noNewline = TRUE]
  OBVIOUS
<1> HIDE DEF g, ls
<1>8. LineEnded(h, g)
  BY <1>1, <1>4, <1>5, <1>6 DEF LineEnded
<1>9. QED
  BY <1>7, <1>8

\* A missing newline is noted at the last line, and changes nothing else.
LEMMA ReadsNoNewline ==
  ASSUME NEW h, NEW g, LineEnded(h, g)
  PROVE  HunkOf(g) = ReadNoNewline(HunkOf(h))
<1> DEFINE n == Len(h.lines)
           o == HunkOf(h)
           m == [MeantLine(h, n) EXCEPT !.noNewline = TRUE]
           ls == [o.lines EXCEPT ![n] = m]
<1>1. /\ h \in WrittenHunks /\ g \in WrittenHunks /\ g.old = h.old /\ g.new = h.new
      /\ n \in Nat \ {0} /\ Len(g.lines) = n
      /\ \A i \in 1 .. n :
           /\ g.lines[i].type = h.lines[i].type /\ g.lines[i].text = h.lines[i].text
           /\ g.lines[i].noNewline = IF i = n THEN TRUE ELSE h.lines[i].noNewline
  BY DEF LineEnded
<1>2. \A i \in 1 .. n + 1 : \A gone : Before(g, i, gone) = Before(h, i, gone)
  <2> TAKE i \in 1 .. n + 1
  <2> TAKE gone
  <2>1. i \in Nat \ {0} /\ \A j \in 1 .. i - 1 : g.lines[j].type = h.lines[j].type
    <3>1. i \in Nat \ {0} /\ \A j \in 1 .. i - 1 : j \in 1 .. n
      BY <1>1
    <3>2. QED
      BY <1>1, <3>1
  <2>2. QED
    BY <2>1, BeforeSame
<1>3. /\ o \in OpenHunks /\ o.lines \in Seq(DiffLines) /\ Len(o.lines) = n
      /\ \A i \in 1 .. n : o.lines[i] = MeantLine(h, i) /\ MeantLine(h, i) \in DiffLines
  BY <1>1, HunkOfType, MeantHunkType, MeantLineType DEF OpenHunks
<1>4. m \in DiffLines
  <2>1. MeantLine(h, n) \in DiffLines
    BY <1>1, <1>3
  <2>2. QED
    BY <2>1 DEF DiffLines
<1>5. /\ ls \in Seq(DiffLines) /\ Len(ls) = n
      /\ \A i \in 1 .. n : ls[i] = IF i = n THEN m ELSE MeantLine(h, i)
  <2> HIDE DEF n, o, m
  <2>1. n \in 1 .. Len(o.lines)
    BY <1>1, <1>3
  <2>2. QED
    BY <1>3, <1>4, <2>1, ExceptSeq
<1>6. \A i \in 1 .. n : MeantLine(g, i) = IF i = n THEN m ELSE MeantLine(h, i)
  <2> TAKE i \in 1 .. n
  <2>1. Before(g, i, "add") = Before(h, i, "add") /\ Before(g, i, "del") = Before(h, i, "del")
    BY <1>1, <1>2
  <2>2. MeantLine(g, i) =
          [type |-> h.lines[i].type, text |-> Chomp(h.lines[i].text),
           noNewline |-> g.lines[i].noNewline,
           oldNo |-> IF h.lines[i].type = "add" THEN None ELSE h.old + Before(h, i, "add"),
           newNo |-> IF h.lines[i].type = "del" THEN None ELSE h.new + Before(h, i, "del")]
    BY <1>1, <2>1 DEF MeantLine
  <2>3. CASE i = n
    BY <1>1, <2>2, <2>3 DEF MeantLine
  <2>4. CASE i # n
    BY <1>1, <2>2, <2>4 DEF MeantLine
  <2>5. QED
    BY <2>3, <2>4
<1>7. HunkOf(g).lines = ls
  <2> HIDE DEF n, o, m, ls
  <2>1. /\ HunkOf(g).lines \in Seq(DiffLines) /\ Len(HunkOf(g).lines) = n
        /\ \A i \in 1 .. n : HunkOf(g).lines[i] = MeantLine(g, i)
    BY <1>1, HunkOfType, MeantHunkType DEF OpenHunks
  <2>2. QED
    BY <1>5, <1>6, <2>1, SeqEqual
<1>8. HunkOf(g) = [o EXCEPT !.lines = ls]
  <2> DEFINE r == [o EXCEPT !.lines = ls]
  <2>1. /\ r \in OpenHunks /\ r.old = o.old /\ r.new = o.new /\ r.lines = ls
        /\ r.oldNext = o.oldNext /\ r.newNext = o.newNext
    <3> HIDE DEF o, ls
    <3>1. QED
      BY <1>3, <1>5 DEF OpenHunks
  <2>2. /\ HunkOf(g) \in OpenHunks /\ HunkOf(g).old = o.old /\ HunkOf(g).new = o.new
        /\ HunkOf(g).oldNext = o.oldNext /\ HunkOf(g).newNext = o.newNext
    <3>1. /\ Before(g, n + 1, "add") = Before(h, n + 1, "add")
          /\ Before(g, n + 1, "del") = Before(h, n + 1, "del")
      BY <1>1, <1>2
    <3>2. QED
      BY <1>1, <3>1, HunkOfType
  <2> HIDE DEF o, ls, r
  <2>3. QED
    BY <1>7, <2>1, <2>2, OpenHunkEqual DEF r
<1>9. ReadNoNewline(o) = [o EXCEPT !.lines = ls]
  <2>1. o.lines # <<>> /\ Len(o.lines) = n /\ o.lines[n] = MeantLine(h, n)
    BY <1>1, <1>3
  <2> HIDE DEF o
  <2>2. QED
    BY <2>1 DEF ReadNoNewline
<1>10. QED
  BY <1>8, <1>9

-----------------------------------------------------------------------------
(* What is finished.                                                       *)

\* The added and the deleted lines are counted by natural numbers,
LEMMA CountType ==
  ASSUME NEW hunks \in Seq(DiffHunks), NEW type
  PROVE  Count(hunks, type) \in Nat
<1> DEFINE Of(k) == {j \in 1 .. Len(hunks[k].lines) : hunks[k].lines[j].type = type}
           Pairs(k) == {<<k, i>> : i \in Of(k)}
           All == {Pairs(k) : k \in 1 .. Len(hunks)}
<1>1. ASSUME NEW k \in 1 .. Len(hunks)
      PROVE  IsFiniteSet(Pairs(k))
  <2>1. Len(hunks[k].lines) \in Nat
    BY DEF DiffHunks
  <2>2. IsFiniteSet(1 .. Len(hunks[k].lines))
    <3>1. \A n \in Nat : IsFiniteSet(1 .. n)
      BY FS_Interval
    <3>2. QED
      BY <2>1, <3>1
  <2>3. Of(k) \in SUBSET (1 .. Len(hunks[k].lines))
    OBVIOUS
  <2>4. IsFiniteSet(Of(k))
    BY <2>2, <2>3, FS_Subset
  <2> DEFINE f == [i \in Of(k) |-> <<k, i>>]
  <2>5. f \in Surjection(Of(k), Pairs(k))
    BY DEF Surjection
  <2> HIDE DEF Of, Pairs, f
  <2>6. QED
    BY <2>4, <2>5, FS_Surjection
<1>2. IsFiniteSet(All)
  <2>1. IsFiniteSet(1 .. Len(hunks))
    BY FS_Interval
  <2> HIDE DEF Pairs
  <2> DEFINE f == [k \in 1 .. Len(hunks) |-> Pairs(k)]
  <2>2. f \in Surjection(1 .. Len(hunks), All)
    BY DEF Surjection
  <2> HIDE DEF All, f
  <2>3. QED
    BY <2>1, <2>2, FS_Surjection
<1>3. \A T \in All : IsFiniteSet(T)
  <2> HIDE DEF Pairs
  <2>1. QED
    BY <1>1
<1>4. Count(hunks, type) = Cardinality(UNION All)
  BY DEF Count
<1> HIDE DEF All
<1>5. QED
  BY <1>2, <1>3, <1>4, FS_UNION, FS_CardinalityType

\* The hunks of a file as git means them.
MeantHunks(f) == [i \in 1 .. Len(f.hunks) |-> MeantHunk(f.hunks[i])]

\* They are parsed hunks.
LEMMA MeantHunksType ==
  ASSUME NEW f \in WrittenFiles
  PROVE  /\ MeantHunks(f) \in Seq(DiffHunks)
         /\ Len(f.hunks) \in Nat /\ Len(MeantHunks(f)) = Len(f.hunks)
         /\ \A i \in 1 .. Len(f.hunks) :
              f.hunks[i] \in WrittenHunks /\ MeantHunks(f)[i] = MeantHunk(f.hunks[i])
<1>1. Len(f.hunks) \in Nat /\ \A i \in 1 .. Len(f.hunks) : f.hunks[i] \in WrittenHunks
  BY DEF WrittenFiles
<1>2. \A i \in 1 .. Len(f.hunks) : MeantHunk(f.hunks[i]) \in DiffHunks
  BY <1>1, MeantHunkType
<1>3. QED
  BY <1>1, <1>2 DEF MeantHunks

\* A file as git means it has as many added lines as git wrote, and as many deleted ones.
LEMMA CountMeant ==
  ASSUME NEW f \in WrittenFiles, NEW type
  PROVE  Count(MeantHunks(f), type) = Count(f.hunks, type)
<1> DEFINE Of(hunks, k) == {j \in 1 .. Len(hunks[k].lines) : hunks[k].lines[j].type = type}
           Pairs(hunks, k) == {<<k, i>> : i \in Of(hunks, k)}
<1>1. \A k \in 1 .. Len(f.hunks) : Of(MeantHunks(f), k) = Of(f.hunks, k)
  <2> TAKE k \in 1 .. Len(f.hunks)
  <2> DEFINE h == f.hunks[k]
             g == MeantHunks(f)[k]
  <2>1. h \in WrittenHunks /\ g = MeantHunk(h)
    BY MeantHunksType
  <2> HIDE DEF h, g
  <2>2. Len(g.lines) = Len(h.lines)
        /\ \A i \in 1 .. Len(h.lines) : g.lines[i].type = h.lines[i].type
    BY <2>1, MeantHunkType DEF MeantLine
  <2>3. QED
    BY <2>2 DEF h, g
<1>2. Len(MeantHunks(f)) = Len(f.hunks)
  BY MeantHunksType
<1> HIDE DEF Of
<1>3. {Pairs(MeantHunks(f), k) : k \in 1 .. Len(MeantHunks(f))}
        = {Pairs(f.hunks, k) : k \in 1 .. Len(f.hunks)}
  BY <1>1, <1>2
<1>4. QED
  BY <1>3 DEF Count, Of

\* A finished draft is a parsed file.
LEMMA FinalizeType ==
  ASSUME NEW d \in Drafts
  PROVE  FinalizeDraft(d) \in DiffFiles
<1>1. Count(d.hunks, "add") \in Nat /\ Count(d.hunks, "del") \in Nat
  BY CountType DEF Drafts
<1>2. QED
  BY <1>1 DEF FinalizeDraft, DiffFiles, Drafts, Seen

\* flushHunk and flushDraft: the open hunk goes to the draft, the draft to the files.
LEMMA FlushTypes ==
  ASSUME NEW s \in Parses, s.draft = None => s.hunk = None
  PROVE  /\ FlushHunk(s) \in Parses /\ FlushHunk(s).hunk = None
         /\ FlushHunk(s).files = s.files
         /\ FlushHunk(s).draft = None <=> s.draft = None
         /\ FlushDraft(s) \in Parses /\ FlushDraft(s).hunk = None /\ FlushDraft(s).draft = None
         /\ FlushDraft(s).files = IF s.draft = None THEN s.files
                                  ELSE Append(s.files, FinalizeDraft(FlushHunk(s).draft))
         /\ s.draft # None =>
              FlushDraft(s).files = [i \in 1 .. Len(s.files) + 1 |->
                IF i <= Len(s.files) THEN s.files[i] ELSE FinalizeDraft(FlushHunk(s).draft)]
         /\ s.hunk # None =>
              FlushHunk(s).draft =
                [s.draft EXCEPT !.hunks = Append(@, [old |-> s.hunk.old, new |-> s.hunk.new,
                                                     lines |-> s.hunk.lines])]
<1>1. None \notin Drafts
  BY UnifiedDiffAssumption
<1>2. /\ FlushHunk(s) \in Parses /\ FlushHunk(s).hunk = None
      /\ FlushHunk(s).files = s.files
      /\ FlushHunk(s).draft = None <=> s.draft = None
      /\ s.hunk # None =>
              FlushHunk(s).draft =
                [s.draft EXCEPT !.hunks = Append(@, [old |-> s.hunk.old, new |-> s.hunk.new,
                                                     lines |-> s.hunk.lines])]
  <2>1. CASE s.hunk = None
    BY <2>1 DEF FlushHunk
  <2>2. CASE s.hunk # None
    <3> DEFINE h == [old |-> s.hunk.old, new |-> s.hunk.new, lines |-> s.hunk.lines]
               d == [s.draft EXCEPT !.hunks = Append(@, h)]
    <3>1. s.hunk \in OpenHunks /\ s.draft \in Drafts
      BY <2>2 DEF Parses
    <3>2. h \in DiffHunks
      BY <3>1 DEF OpenHunks, DiffHunks
    <3>3. d \in Drafts
      <4> HIDE DEF h
      <4>1. s.draft.hunks \in Seq(DiffHunks)
        BY <3>1 DEF Drafts
      <4>2. Append(s.draft.hunks, h) \in Seq(DiffHunks)
        BY <3>2, <4>1
      <4>3. QED
        BY <3>1, <4>2 DEF Drafts
    <3>4. FlushHunk(s) = [s EXCEPT !.draft = d, !.hunk = None]
      BY <2>2 DEF FlushHunk
    <3> HIDE DEF d
    <3>5. FlushHunk(s) \in Parses /\ FlushHunk(s).hunk = None /\ FlushHunk(s).files = s.files
          /\ FlushHunk(s).draft = d
      BY <3>3, <3>4 DEF Parses
    <3>6. QED
      BY <1>1, <2>2, <3>1, <3>3, <3>5 DEF d
  <2>3. QED
    BY <2>1, <2>2
<1>3. CASE s.draft = None
  BY <1>2, <1>3 DEF FlushDraft
<1>4. CASE s.draft # None
  <2> DEFINE t == FlushHunk(s)
  <2>1. t.draft \in Drafts /\ s.files \in Seq(DiffFiles)
    BY <1>2, <1>4 DEF Parses
  <2>2. FinalizeDraft(t.draft) \in DiffFiles
    BY <2>1, FinalizeType
  <2>3. /\ Append(s.files, FinalizeDraft(t.draft)) \in Seq(DiffFiles)
        /\ Append(s.files, FinalizeDraft(t.draft)) = [i \in 1 .. Len(s.files) + 1 |->
                IF i <= Len(s.files) THEN s.files[i] ELSE FinalizeDraft(t.draft)]
    BY <2>1, <2>2
  <2>4. FlushDraft(s) = [t EXCEPT !.files = Append(@, FinalizeDraft(t.draft)), !.draft = None]
    BY <1>4 DEF FlushDraft
  <2>5. t \in Parses /\ t.files = s.files /\ t.hunk = None
    BY <1>2
  <2> HIDE DEF t
  <2>6. /\ FlushDraft(s) \in Parses /\ FlushDraft(s).hunk = None /\ FlushDraft(s).draft = None
        /\ FlushDraft(s).files = Append(s.files, FinalizeDraft(t.draft))
    BY <2>3, <2>4, <2>5 DEF Parses
  <2>7. QED
    BY <1>2, <1>4, <2>3, <2>6 DEF t
<1>5. QED
  BY <1>3, <1>4

\* A changed file with the hunks written so far.
Changed(f) == f \in WrittenFiles /\ [f EXCEPT !.hunks = <<>>] \in Changes

\* It is of one of the five kinds.
LEMMA FileKinds ==
  ASSUME NEW f, Changed(f)
  PROVE  \/ f.old \in Paths /\ f.new = f.old /\ ~f.chmod /\ f.similarity = None
         \/ f.old \in Paths /\ f.new = f.old /\ f.chmod /\ ~f.binary /\ f.similarity = None
         \/ f.old = None /\ f.new \in Paths /\ ~f.chmod /\ f.similarity = None
         \/ f.old \in Paths /\ f.new = None /\ ~f.chmod /\ f.similarity = None
         \/ f.old \in Paths /\ f.new \in Paths /\ ~f.chmod /\ ~f.binary /\ f.similarity = Similar
<1> DEFINE g == [f EXCEPT !.hunks = <<>>]
<1>1. /\ g.old = f.old /\ g.new = f.new /\ g.chmod = f.chmod /\ g.binary = f.binary
      /\ g.similarity = f.similarity
  BY DEF WrittenFiles, Changed
<1>2. g \in Changes
  BY DEF Changed
<1> HIDE DEF g
<1>3. QED
  BY <1>1, <1>2, ChangeKinds

\* Its hunks are those the draft has and the open one.
LEMMA DraftHunks ==
  ASSUME NEW f \in WrittenFiles, f.hunks # <<>>
  PROVE  /\ Len(f.hunks) \in Nat \ {0}
         /\ DraftOf(f).hunks \in Seq(DiffHunks)
         /\ Append(DraftOf(f).hunks, MeantHunk(f.hunks[Len(f.hunks)])) = MeantHunks(f)
<1> DEFINE n == Len(f.hunks)
           before == [i \in 1 .. n - 1 |-> MeantHunk(f.hunks[i])]
           all == Append(before, MeantHunk(f.hunks[n]))
<1>1. /\ n \in Nat \ {0} /\ \A i \in 1 .. n : f.hunks[i] \in WrittenHunks
  BY DEF WrittenFiles
<1>2. \A i \in 1 .. n : MeantHunk(f.hunks[i]) \in DiffHunks
  BY <1>1, MeantHunkType
<1>3. before \in Seq(DiffHunks) /\ Len(before) = n - 1
      /\ \A i \in 1 .. n - 1 : before[i] = MeantHunk(f.hunks[i])
  BY <1>1, <1>2
<1>4. DraftOf(f).hunks = before
  BY DEF DraftOf
<1>5. MeantHunks(f) \in Seq(DiffHunks) /\ Len(MeantHunks(f)) = n
      /\ \A i \in 1 .. n : MeantHunks(f)[i] = MeantHunk(f.hunks[i])
  BY MeantHunksType
<1> HIDE DEF before
<1>6. all \in Seq(DiffHunks) /\ Len(all) = n
      /\ \A i \in 1 .. n : all[i] = MeantHunk(f.hunks[i])
  <2>1. MeantHunk(f.hunks[n]) \in DiffHunks
    BY <1>1, <1>2
  <2>2. \A s \in Seq(DiffHunks), e \in DiffHunks :
          /\ Append(s, e) \in Seq(DiffHunks) /\ Len(Append(s, e)) = Len(s) + 1
          /\ \A i \in 1 .. Len(s) : Append(s, e)[i] = s[i]
          /\ Append(s, e)[Len(s) + 1] = e
    BY AppendProperties
  <2>3. /\ all \in Seq(DiffHunks) /\ Len(all) = Len(before) + 1
        /\ \A i \in 1 .. Len(before) : all[i] = before[i]
        /\ all[Len(before) + 1] = MeantHunk(f.hunks[n])
    BY <1>3, <2>1, <2>2
  <2> HIDE DEF all
  <2>4. QED
    BY <1>1, <1>3, <2>3
<1> HIDE DEF all
<1>7. all = MeantHunks(f)
  BY <1>5, <1>6, SeqEqual
<1>8. QED
  BY <1>1, <1>3, <1>4, <1>7 DEF all

\* The draft d has all of the file f.
Finished(d, f) ==
  /\ d.names = DraftOf(f).names /\ d.old = DraftOf(f).old /\ d.new = DraftOf(f).new
  /\ d.oldMode = DraftOf(f).oldMode /\ d.newMode = DraftOf(f).newMode
  /\ d.similarity = DraftOf(f).similarity /\ d.isBinary = DraftOf(f).isBinary
  /\ d.isRename = DraftOf(f).isRename /\ d.isNewFile = DraftOf(f).isNewFile
  /\ d.isDeletedFile = DraftOf(f).isDeletedFile
  /\ d.hunks = MeantHunks(f)

\* The heart of the argument: the names, the status and the counts that finalizeDraft
\* makes of a whole draft are those that git means.
LEMMA FinalizeMeant ==
  ASSUME NEW f, Changed(f), ~Misread(f), NEW d, Finished(d, f)
  PROVE  FinalizeDraft(d) = Meant(f)
<1>0. \/ f.old \in Paths /\ f.new = f.old /\ ~f.chmod /\ f.similarity = None
      \/ f.old \in Paths /\ f.new = f.old /\ f.chmod /\ ~f.binary /\ f.similarity = None
      \/ f.old = None /\ f.new \in Paths /\ ~f.chmod /\ f.similarity = None
      \/ f.old \in Paths /\ f.new = None /\ ~f.chmod /\ f.similarity = None
      \/ f.old \in Paths /\ f.new \in Paths /\ ~f.chmod /\ ~f.binary /\ f.similarity = Similar
  BY FileKinds
<1> DEFINE m == Meant(f)
           r == FinalizeDraft(d)
<1>1. /\ None \notin Paths /\ Unseen \notin Paths /\ Unseen # None /\ Garbled # Unseen
      /\ None # Similar
      /\ Ambiguous \subseteq Paths
  BY UnifiedDiffAssumption DEF Similar
<1>2. /\ ~((f.old = None \/ f.new = None) /\ ~f.binary /\ f.hunks = <<>>)
      /\ ~(f.binary /\ f.old \in Ambiguous)
  BY DEF Misread
<1>3. /\ d.names = [a |-> IF f.old = None THEN f.new ELSE f.old,
                    b |-> IF f.new = None THEN f.old ELSE f.new]
      /\ d.old = IF f.old = None \/ f.similarity # None \/ f.hunks # <<>> THEN f.old
                 ELSE IF ~f.binary THEN Unseen
                 ELSE IF f.old \in Ambiguous THEN Garbled ELSE f.old
      /\ d.new = IF f.new = None \/ f.similarity # None \/ f.hunks # <<>> THEN f.new
                 ELSE IF ~f.binary THEN Unseen
                 ELSE IF f.old \in Ambiguous THEN Garbled ELSE f.new
      /\ d.oldMode = m.oldMode /\ d.newMode = m.newMode
      /\ d.similarity = f.similarity /\ d.isBinary = f.binary
      /\ d.isRename = (f.similarity # None) /\ d.isNewFile = (f.old = None)
      /\ d.isDeletedFile = (f.new = None)
      /\ d.hunks = MeantHunks(f)
  BY DEF Finished, DraftOf
<1> HIDE DEF m
<1>4. Count(d.hunks, "add") = Count(f.hunks, "add") /\ Count(d.hunks, "del") = Count(f.hunks, "del")
  BY <1>3, CountMeant DEF Changed
<1> DEFINE none == d.old = Unseen /\ d.new = Unseen
           old  == IF none THEN d.names.a ELSE Seen(d.old)
           new  == IF none THEN d.names.b ELSE Seen(d.new)
           status == IF d.isRename THEN "renamed"
                     ELSE IF d.isNewFile \/ (old = None /\ new # None) THEN "added"
                     ELSE IF d.isDeletedFile \/ (new = None /\ old # None) THEN "deleted"
                     ELSE "modified"
<1>5. old = f.old /\ new = f.new
  <2>2. f.binary \in BOOLEAN
    BY DEF WrittenFiles, Changed
  <2>3. QED
    BY <1>0, <1>1, <1>2, <1>3, <2>2 DEF Seen
<1>6. status = IF f.similarity # None THEN "renamed"
               ELSE IF f.old = None THEN "added"
               ELSE IF f.new = None THEN "deleted" ELSE "modified"
  BY <1>3, <1>5
<1>7. r = [oldPath |-> old, newPath |-> new, similarity |-> d.similarity,
      oldMode |-> d.oldMode, newMode |-> d.newMode, isBinary |-> d.isBinary,
      status |-> status, additions |-> Count(d.hunks, "add"),
      deletions |-> Count(d.hunks, "del"), hunks |-> d.hunks]
  BY DEF FinalizeDraft
<1> HIDE DEF r, status, old, new
<1>8. r = [oldPath |-> f.old, newPath |-> f.new, similarity |-> f.similarity,
      oldMode |-> m.oldMode, newMode |-> m.newMode, isBinary |-> f.binary,
      status |-> status, additions |-> Count(f.hunks, "add"),
      deletions |-> Count(f.hunks, "del"), hunks |-> MeantHunks(f)]
  BY <1>3, <1>4, <1>5, <1>7
<1>9. QED
  BY <1>6, <1>8 DEF r, m, Meant, MeantHunks

\* When the open hunk has gone to the draft, the draft is whole.
LEMMA FlushedFinished ==
  ASSUME NEW s \in Parses, s.draft # None, NEW f \in WrittenFiles, s.draft = DraftOf(f),
         s.hunk = None <=> f.hunks = <<>>,
         f.hunks # <<>> => s.hunk = HunkOf(f.hunks[Len(f.hunks)])
  PROVE  Finished(FlushHunk(s).draft, f)
<1>1. CASE f.hunks = <<>>
  <2>1. FlushHunk(s).draft = DraftOf(f)
    BY <1>1 DEF FlushHunk
  <2>2. DraftOf(f).hunks = <<>> /\ MeantHunks(f) = <<>>
    BY <1>1 DEF DraftOf, MeantHunks
  <2>3. QED
    BY <2>1, <2>2 DEF Finished
<1>2. CASE f.hunks # <<>>
  <2> DEFINE h == f.hunks[Len(f.hunks)]
             d == DraftOf(f)
             all == MeantHunks(f)
             e == [s.draft EXCEPT !.hunks = Append(@, [old |-> s.hunk.old, new |-> s.hunk.new,
                                                       lines |-> s.hunk.lines])]
  <2>1. h \in WrittenHunks
    BY <1>2, DraftHunks DEF WrittenFiles
  <2>2. s.hunk = HunkOf(h) /\ s.hunk # None
    BY <1>2
  <2>3. FlushHunk(s).draft = e
    BY <2>2, FlushTypes
  <2>4. Append(d.hunks, MeantHunk(h)) = all
    BY <1>2, DraftHunks
  <2> HIDE DEF h, all
  <2>5. [old |-> s.hunk.old, new |-> s.hunk.new, lines |-> s.hunk.lines] = MeantHunk(h)
    <3>1. /\ s.hunk.old = MeantHunk(h).old /\ s.hunk.new = MeantHunk(h).new
          /\ s.hunk.lines = MeantHunk(h).lines
      BY <2>1, <2>2, HunkOfType, MeantHunkType
    <3>2. QED
      BY <2>1, <3>1, MeantHunkType
  <2>6. e = [d EXCEPT !.hunks = all]
    BY <2>4, <2>5
  <2>7. d \in Drafts
    BY DEF Parses
  <2> HIDE DEF e, d
  <2>8. /\ e.names = d.names /\ e.old = d.old /\ e.new = d.new
        /\ e.oldMode = d.oldMode /\ e.newMode = d.newMode
        /\ e.similarity = d.similarity /\ e.isBinary = d.isBinary
        /\ e.isRename = d.isRename /\ e.isNewFile = d.isNewFile
        /\ e.isDeletedFile = d.isDeletedFile
        /\ e.hunks = all
    BY <2>6, <2>7 DEF Drafts
  <2>9. QED
    BY <2>3, <2>8 DEF Finished, d, all
<1>3. QED
  BY <1>1, <1>2

\* What is finished when the next file begins.
Finishes == FlushDraft(parsed).files

\* So that what is finished is what git means; only the end may have taken blanks.
LEMMA InvFinishes ==
  ASSUME ParserInv
  PROVE  /\ Len(Finishes) = Len(written)
         /\ \A i \in 1 .. Len(written) :
              \/ Misread(written[i])
              \/ Finishes[i] = Meant(written[i])
              \/ ended /\ i = Len(written) /\ LosesBlanks(Finishes[i], Meant(written[i]))
<1> DEFINE s == parsed
           n == Len(written)
<1>1. /\ s \in Parses /\ written \in Seq(WrittenFiles) /\ n \in Nat
      /\ Len(s.files) \in Nat
      /\ written = <<>> <=> n = 0
      /\ \A i \in 1 .. n : Changed(written[i])
  <2>1. /\ s \in Parses /\ written \in Seq(WrittenFiles)
        /\ \A i \in 1 .. n : [written[i] EXCEPT !.hunks = <<>>] \in Changes
    BY DEF ParserInv, ParserType
  <2>2. n \in Nat /\ Len(s.files) \in Nat
    BY <2>1 DEF Parses
  <2>3. QED
    BY <2>1, <2>2 DEF Changed
<1>2. s.draft = None => s.hunk = None
  BY DEF ParserInv, DraftInv
<1>3. /\ Finishes = IF s.draft = None THEN s.files
                 ELSE Append(s.files, FinalizeDraft(FlushHunk(s).draft))
      /\ s.draft # None =>
              Finishes = [i \in 1 .. Len(s.files) + 1 |->
                IF i <= Len(s.files) THEN s.files[i] ELSE FinalizeDraft(FlushHunk(s).draft)]
  BY <1>1, <1>2, FlushTypes DEF Finishes
<1>4. CASE s.draft = None
  <2>1. Finishes = s.files
    BY <1>3, <1>4
  <2>2. QED
    BY <1>4, <2>1 DEF ParserInv, FilesInv
<1>5. CASE s.draft # None
  <2> DEFINE f == Current
             d == FlushHunk(s).draft
             r == FinalizeDraft(d)
  <2>1. /\ Len(s.files) = n - 1
        /\ \A i \in 1 .. n - 1 : Misread(written[i]) \/ s.files[i] = Meant(written[i])
    <3>1. /\ Len(s.files) = n - 1
          /\ \A i \in 1 .. n - 1 :
               \/ Misread(written[i]) \/ s.files[i] = Meant(written[i])
               \/ ended /\ i = n /\ LosesBlanks(s.files[i], Meant(written[i]))
      BY <1>5 DEF ParserInv, FilesInv
    <3>2. ~ended
      BY <1>5 DEF ParserInv, DraftInv
    <3>3. QED
      BY <3>1, <3>2
  <2>2. written # <<>> /\ n \in 1 .. n
    BY <1>1, <1>5 DEF ParserInv, DraftInv
  <2>3. Changed(f) /\ f = written[n]
    BY <1>1, <2>2 DEF Current
  <2>4. ASSUME ~Misread(f)
        PROVE  r = Meant(f)
    <3>1. ~Mimicked(f)
      BY <2>4 DEF Misread, Mimicked
    <3>2. /\ s.draft = DraftOf(f)
          /\ s.hunk = None <=> f.hunks = <<>>
          /\ f.hunks # <<>> => s.hunk = HunkOf(f.hunks[Len(f.hunks)])
      BY <1>5, <3>1 DEF ParserInv, DraftInv
    <3>3. f \in WrittenFiles
      BY <2>3 DEF Changed
    <3> HIDE DEF f, s, d
    <3>4. Finished(d, f)
      BY <1>1, <1>5, <3>2, <3>3, FlushedFinished DEF d
    <3>5. QED
      BY <2>3, <2>4, <3>4, FinalizeMeant
  <2> HIDE DEF r
  <2>5. Finishes = [i \in 1 .. n |-> IF i <= n - 1 THEN s.files[i] ELSE r]
    BY <1>1, <1>3, <1>5, <2>1 DEF r
  <2>6. QED
    <3>1. Len(Finishes) = n
      BY <1>1, <2>5
    <3>2. ASSUME NEW i \in 1 .. n
          PROVE  Misread(written[i]) \/ Finishes[i] = Meant(written[i])
      <4>1. CASE i = n
        BY <1>1, <2>3, <2>4, <2>5, <4>1
      <4>2. CASE i \in 1 .. n - 1
        BY <1>1, <2>1, <2>5, <4>2
      <4>3. QED
        BY <1>1, <4>1, <4>2
    <3>3. QED
      BY <3>1, <3>2
<1>6. QED
  BY <1>4, <1>5

-----------------------------------------------------------------------------
(* The end of the output, which the broker trims.                          *)

\* Trimming takes blanks from the end of a text.
LEMMA TrimEndCuts ==
  ASSUME NEW text \in Seq(STRING)
  PROVE  /\ TrimEnd(text) \in Seq(STRING)
         /\ \E n \in 0 .. Len(text) :
              /\ TrimEnd(text) = SubSeq(text, 1, n)
              /\ \A i \in n + 1 .. Len(text) : text[i] \in Blanks
<1> DEFINE A == {0} \cup {i \in 1 .. Len(text) : text[i] \notin Blanks}
           n == Max(A)
<1>1. Len(text) \in Nat /\ A \in SUBSET (0 .. Len(text)) /\ A # {}
  OBVIOUS
<1>2. n \in A /\ \A y \in A : n >= y
  <2> HIDE DEF A
  <2>1. QED
    BY <1>1, LargestOf
<1>3. TrimEnd(text) = SubSeq(text, 1, n)
  BY DEF TrimEnd
<1> HIDE DEF n
<1>4. n \in 0 .. Len(text) /\ n \in Nat
  BY <1>1, <1>2
<1>5. SubSeq(text, 1, n) \in Seq(STRING)
  BY <1>4
<1>6. ASSUME NEW i \in n + 1 .. Len(text)
      PROVE  text[i] \in Blanks
  <2>1. i \in 1 .. Len(text) /\ ~(n >= i)
    BY <1>4
  <2>2. i \notin A
    <3> HIDE DEF A
    <3>1. QED
      BY <1>2, <2>1
  <2>3. QED
    BY <2>1, <2>2
<1>7. QED
  BY <1>3, <1>4, <1>5, <1>6

\* All lines behind the last one that is kept vanish.
LEMMA LastKeptIs ==
  ASSUME NEW lines, Len(lines) \in Nat
  PROVE  /\ LastKept(lines) \in 0 .. Len(lines)
         /\ \A j \in LastKept(lines) + 1 .. Len(lines) : Vanishes(lines[j])
<1> DEFINE A == {0} \cup {j \in 1 .. Len(lines) : ~Vanishes(lines[j])}
           n == Max(A)
<1>1. A \in SUBSET (0 .. Len(lines)) /\ A # {}
  OBVIOUS
<1>2. n \in A /\ \A y \in A : n >= y
  <2> HIDE DEF A
  <2>1. QED
    BY <1>1, LargestOf
<1>3. LastKept(lines) = n
  BY DEF LastKept
<1> HIDE DEF n
<1>4. n \in 0 .. Len(lines) /\ n \in Nat
  BY <1>1, <1>2
<1>5. ASSUME NEW j \in n + 1 .. Len(lines)
      PROVE  Vanishes(lines[j])
  <2>1. j \in 1 .. Len(lines) /\ ~(n >= j)
    BY <1>4
  <2>2. j \notin A
    <3> HIDE DEF A
    <3>1. QED
      BY <1>2, <2>1
  <2>3. QED
    BY <2>1, <2>2
<1>6. QED
  BY <1>3, <1>4, <1>5

\* Trimmed lines are lines.
LEMMA TrimLinesType ==
  ASSUME NEW read \in Seq(DiffLines), NEW lines, Len(lines) \in Nat
  PROVE  TrimLines(read, lines) \in Seq(DiffLines)
<1> DEFINE last == LastKept(lines)
           n == Len(read) - (Len(lines) - last)
           cut == last # 0 /\ ~Mimics(lines[last]) /\ ~lines[last].noNewline
           m == IF n < 0 THEN 0 ELSE n
           out == [i \in 1 .. m |->
                     IF i = n /\ cut THEN [read[i] EXCEPT !.text = TrimEnd(@)] ELSE read[i]]
<1>1. last \in 0 .. Len(lines) /\ Len(read) \in Nat
  BY LastKeptIs
<1> HIDE DEF last, cut
<1>2. n \in Int /\ n <= Len(read) /\ m \in Nat /\ m <= Len(read) /\ 1 .. n = 1 .. m
  BY <1>1
<1>3. TrimLines(read, lines) = out
  <2>1. TrimLines(read, lines) =
          [i \in 1 .. n |->
             IF i = n /\ cut THEN [read[i] EXCEPT !.text = TrimEnd(@)] ELSE read[i]]
    BY DEF TrimLines, last, cut
  <2> HIDE DEF n, m
  <2>2. QED
    BY <1>2, <2>1
<1> HIDE DEF n, m
<1>4. ASSUME NEW i \in 1 .. m
      PROVE  /\ read[i] \in DiffLines
             /\ [read[i] EXCEPT !.text = TrimEnd(@)] \in DiffLines
  <2>1. i \in 1 .. Len(read)
    BY <1>1, <1>2
  <2>2. read[i] \in DiffLines
    BY <2>1
  <2> DEFINE r == read[i]
             t == TrimEnd(r.text)
  <2> HIDE DEF r
  <2>3. r \in DiffLines
    BY <2>2 DEF r
  <2>4. t \in Seq(STRING)
    BY <2>3, TrimEndCuts DEF DiffLines
  <2> HIDE DEF t
  <2>5. [r EXCEPT !.text = t] \in DiffLines
    BY <2>3, <2>4 DEF DiffLines
  <2>6. QED
    BY <2>2, <2>5 DEF r, t
<1>5. out \in [1 .. m -> DiffLines]
  BY <1>4
<1>6. QED
  <2> HIDE DEF out
  <2>1. QED
    BY <1>2, <1>3, <1>5, ListsAre

\* Trimmed lines of a hunk are the lines of it, but for blanks at their end.
LEMMA TrimLinesCut ==
  ASSUME NEW h \in WrittenHunks
  PROVE  CutShort(TrimLines(MeantHunk(h).lines, h.lines), MeantHunk(h).lines)
<1> DEFINE read == MeantHunk(h).lines
           last == LastKept(h.lines)
           short == TrimLines(read, h.lines)
           cut == last # 0 /\ ~Mimics(h.lines[last]) /\ ~h.lines[last].noNewline
<1>1. /\ read \in Seq(DiffLines) /\ Len(read) = Len(h.lines) /\ Len(h.lines) \in Nat
      /\ \A j \in 1 .. Len(read) : read[j] = MeantLine(h, j) /\ read[j] \in DiffLines
      /\ \A j \in 1 .. Len(read) : h.lines[j] \in WrittenLines
  <2>1. read \in Seq(DiffLines) /\ h.lines \in Seq(WrittenLines)
    BY MeantHunkType DEF DiffHunks, WrittenHunks
  <2>2. /\ Len(read) = Len(h.lines)
        /\ \A j \in 1 .. Len(h.lines) : read[j] = MeantLine(h, j)
    BY MeantHunkType
  <2> HIDE DEF read
  <2>3. QED
    BY <2>1, <2>2
<1>2. /\ last \in 0 .. Len(read) /\ last \in Nat
      /\ \A j \in last + 1 .. Len(read) : Vanishes(h.lines[j])
  <2>1. /\ LastKept(h.lines) \in 0 .. Len(h.lines)
        /\ \A j \in LastKept(h.lines) + 1 .. Len(h.lines) : Vanishes(h.lines[j])
    BY <1>1, LastKeptIs
  <2> HIDE DEF read
  <2>2. QED
    BY <1>1, <2>1
<1>3. short = [i \in 1 .. last |->
                 IF i = last /\ cut THEN [read[i] EXCEPT !.text = TrimEnd(@)] ELSE read[i]]
  <2>1. short = [i \in 1 .. Len(read) - (Len(h.lines) - last) |->
                   IF i = Len(read) - (Len(h.lines) - last) /\ cut
                   THEN [read[i] EXCEPT !.text = TrimEnd(@)] ELSE read[i]]
    BY DEF TrimLines
  <2>2. Len(read) - (Len(h.lines) - last) = last
    BY <1>1, <1>2
  <2> HIDE DEF last, read, cut, short
  <2>3. QED
    BY <2>1, <2>2
<1>4. short \in Seq(DiffLines)
  BY <1>1, TrimLinesType
<1> HIDE DEF last, read, cut, short
<1>5. Len(short) = last
  BY <1>2, <1>3, <1>4
<1>6. ASSUME NEW j \in last + 1 .. Len(read)
      PROVE  Vanishes(read[j])
  <2>1. j \in 1 .. Len(read)
    BY <1>1, <1>2
  <2>2. h.lines[j].type = "context" /\ IsBlank(h.lines[j].text) /\ ~h.lines[j].noNewline
    BY <1>2 DEF Vanishes
  <2>3. /\ read[j].type = h.lines[j].type /\ read[j].text = Chomp(h.lines[j].text)
        /\ read[j].noNewline = h.lines[j].noNewline
    <3>1. read[j] = MeantLine(h, j)
      BY <1>1, <2>1
    <3>2. QED
      BY <3>1 DEF MeantLine
  <2>4. h.lines[j].text \in Seq(STRING)
    BY <1>1, <2>1, TextType DEF WrittenLines
  <2>5. IsBlank(Chomp(h.lines[j].text))
    BY <2>2, <2>4, ChompType
  <2>6. QED
    BY <2>2, <2>3, <2>5 DEF Vanishes
<1>7. ASSUME NEW j \in 1 .. last - 1
      PROVE  short[j] = read[j]
  BY <1>2, <1>3
<1>8. ASSUME last # 0
      PROVE  \E n \in 0 .. Len(read[last].text) :
               /\ short[last] = [read[last] EXCEPT !.text = SubSeq(@, 1, n)]
               /\ \A i \in n + 1 .. Len(read[last].text) : read[last].text[i] \in Blanks
  <2> DEFINE r == read[last]
  <2>1. last \in 1 .. Len(read) /\ last \in 1 .. last
    BY <1>1, <1>2, <1>8
  <2>2. r \in DiffLines /\ r.text \in Seq(STRING)
    BY <1>1, <2>1 DEF DiffLines
  <2>3. short[last] = IF cut THEN [r EXCEPT !.text = TrimEnd(@)] ELSE r
    BY <1>3, <2>1
  <2> HIDE DEF r
  <2>4. CASE cut
    <3>1. PICK n \in 0 .. Len(r.text) :
            /\ TrimEnd(r.text) = SubSeq(r.text, 1, n)
            /\ \A i \in n + 1 .. Len(r.text) : r.text[i] \in Blanks
      BY <2>2, TrimEndCuts
    <3>2. short[last] = [r EXCEPT !.text = SubSeq(@, 1, n)]
      BY <2>3, <2>4, <3>1
    <3>3. QED
      BY <3>1, <3>2 DEF r
  <2>5. CASE ~cut
    <3> DEFINE n == Len(r.text)
               t == SubSeq(r.text, 1, n)
    <3>1. n \in Nat /\ t = r.text
      BY <2>2
    <3>2. [r EXCEPT !.text = r.text] = r
      BY <2>2 DEF DiffLines
    <3>3. short[last] = [r EXCEPT !.text = SubSeq(@, 1, n)]
      BY <2>3, <2>5, <3>1, <3>2
    <3>4. n \in 0 .. n /\ \A i \in n + 1 .. n : r.text[i] \in Blanks
      BY <3>1
    <3> HIDE DEF t
    <3>5. QED
      BY <3>3, <3>4 DEF r
  <2>6. QED
    BY <2>4, <2>5
<1>9. short # <<>> => last # 0
  BY <1>4, <1>5
<1>10. CutShort(short, read)
  <2>1. short # <<>> =>
          \E n \in 0 .. Len(read[Len(short)].text) :
            /\ short[Len(short)] = [read[Len(short)] EXCEPT !.text = SubSeq(@, 1, n)]
            /\ \A i \in n + 1 .. Len(read[Len(short)].text) :
                 read[Len(short)].text[i] \in Blanks
    BY <1>5, <1>8, <1>9
  <2>2. Len(short) <= Len(read)
    BY <1>1, <1>2, <1>5
  <2>3. /\ \A j \in Len(short) + 1 .. Len(read) : Vanishes(read[j])
        /\ \A j \in 1 .. Len(short) - 1 : short[j] = read[j]
    BY <1>5, <1>6, <1>7
  <2>4. QED
    BY <2>1, <2>2, <2>3 DEF CutShort
<1>11. QED
  BY <1>10 DEF short, read

\* What the trim leaves alone.
LEMMA TrimmedIs ==
  ASSUME NEW s \in Parses, s.hunk # None, NEW lines, Len(lines) \in Nat,
         lines = Current.hunks[Len(Current.hunks)].lines
  PROVE  /\ Trimmed(s) \in Parses /\ Trimmed(s).hunk \in OpenHunks
         /\ Trimmed(s).files = s.files /\ Trimmed(s).draft = s.draft
         /\ Trimmed(s).hunk.old = s.hunk.old /\ Trimmed(s).hunk.new = s.hunk.new
         /\ Trimmed(s).hunk.lines = TrimLines(s.hunk.lines, lines)
<1> DEFINE o == s.hunk
           short == TrimLines(o.lines, lines)
           cut == [o EXCEPT !.lines = short]
<1>1. o \in OpenHunks
  BY DEF Parses
<1>2. Trimmed(s) = [s EXCEPT !.hunk = cut]
  BY DEF Trimmed
<1>3. short \in Seq(DiffLines)
  BY <1>1, TrimLinesType DEF OpenHunks
<1> HIDE DEF o, short
<1>4. cut \in OpenHunks /\ cut.lines = short /\ cut.old = o.old /\ cut.new = o.new
  BY <1>1, <1>3 DEF OpenHunks
<1> HIDE DEF cut
<1>5. QED
  BY <1>2, <1>4 DEF Parses, o, short

\* Trimming takes no added and no deleted line away.
LEMMA CountCut ==
  ASSUME NEW a \in Seq(DiffHunks), NEW b \in Seq(DiffHunks), NEW type \in {"add", "del"},
         Len(a) = Len(b), b # <<>>, \A k \in 1 .. Len(b) - 1 : a[k] = b[k],
         CutShort(a[Len(b)].lines, b[Len(b)].lines)
  PROVE  Count(a, type) = Count(b, type)
<1> DEFINE n == Len(b)
           Of(hunks, k) == {j \in 1 .. Len(hunks[k].lines) : hunks[k].lines[j].type = type}
           PairsOf(hunks, k) == {<<k, i>> : i \in Of(hunks, k)}
<1>1. n \in Nat \ {0} /\ n \in 1 .. n
  OBVIOUS
<1>2. Of(a, n) = Of(b, n)
  <2> DEFINE short == a[n].lines
             all == b[n].lines
  <2>1. a[n] \in DiffHunks /\ b[n] \in DiffHunks
    BY <1>1
  <2>2. short \in Seq(DiffLines) /\ all \in Seq(DiffLines)
    BY <2>1 DEF DiffHunks
  <2>3. CutShort(short, all)
    OBVIOUS
  <2> HIDE DEF short, all, n
  <2>4. Len(short) \in Nat /\ Len(all) \in Nat /\ Len(short) <= Len(all)
    BY <2>2, <2>3 DEF CutShort
  <2>5. \A j \in Len(short) + 1 .. Len(all) : all[j].type # type
    BY <2>3 DEF CutShort, Vanishes
  <2>6. ASSUME NEW j \in 1 .. Len(short)
        PROVE  short[j].type = all[j].type
    <3>1. CASE j \in 1 .. Len(short) - 1
      BY <2>3, <3>1 DEF CutShort
    <3>2. CASE j = Len(short)
      <4>1. short # <<>> /\ j \in 1 .. Len(all)
        BY <2>4, <3>2
      <4>2. PICK t : short[j] = [all[j] EXCEPT !.text = t]
        BY <2>3, <3>2, <4>1 DEF CutShort
      <4>3. all[j] \in DiffLines
        BY <2>2, <4>1
      <4>4. QED
        BY <4>2, <4>3 DEF DiffLines
    <3>3. QED
      BY <2>4, <3>1, <3>2
  <2>7. {j \in 1 .. Len(short) : short[j].type = type} = {j \in 1 .. Len(all) : all[j].type = type}
    <3>1. ASSUME NEW j \in 1 .. Len(all), all[j].type = type
          PROVE  j \in 1 .. Len(short)
      BY <2>4, <2>5, <3>1
    <3>2. \A j \in 1 .. Len(short) : j \in 1 .. Len(all)
      BY <2>4
    <3>3. QED
      BY <2>6, <3>1, <3>2
  <2>8. QED
    BY <2>7 DEF short, all
<1>3. ASSUME NEW k \in 1 .. n
      PROVE  Of(a, k) = Of(b, k)
  <2>1. CASE k = n
    BY <1>2, <2>1
  <2>2. CASE k \in 1 .. n - 1
    BY <2>2
  <2>3. QED
    BY <1>1, <2>1, <2>2
<1> HIDE DEF Of
<1>4. {PairsOf(a, k) : k \in 1 .. Len(a)} = {PairsOf(b, k) : k \in 1 .. Len(b)}
  BY <1>3
<1>5. QED
  BY <1>4 DEF Count, Of

\* The drafts d and e differ in the last of their hunks, of which e has lost blanks.
CutDraft(e, d) ==
  /\ d \in Drafts /\ e \in Drafts
  /\ e.names = d.names /\ e.old = d.old /\ e.new = d.new /\ e.oldMode = d.oldMode
  /\ e.newMode = d.newMode /\ e.similarity = d.similarity /\ e.isBinary = d.isBinary
  /\ e.isRename = d.isRename /\ e.isNewFile = d.isNewFile
  /\ e.isDeletedFile = d.isDeletedFile
  /\ d.hunks # <<>> /\ Len(e.hunks) = Len(d.hunks)
  /\ \A k \in 1 .. Len(d.hunks) - 1 : e.hunks[k] = d.hunks[k]
  /\ e.hunks[Len(d.hunks)].old = d.hunks[Len(d.hunks)].old
  /\ e.hunks[Len(d.hunks)].new = d.hunks[Len(d.hunks)].new
  /\ CutShort(e.hunks[Len(d.hunks)].lines, d.hunks[Len(d.hunks)].lines)

\* Then the file that finalizeDraft makes of e has lost them, and nothing else.
LEMMA FinalizeCut ==
  ASSUME NEW d, NEW e, CutDraft(e, d)
  PROVE  LosesBlanks(FinalizeDraft(e), FinalizeDraft(d))
<1> DEFINE f == FinalizeDraft(e)
           g == FinalizeDraft(d)
           n == Len(d.hunks)
<1>1. /\ f \in DiffFiles /\ g \in DiffFiles
      /\ e.hunks \in Seq(DiffHunks) /\ d.hunks \in Seq(DiffHunks)
  BY FinalizeType DEF CutDraft, Drafts
<1>2. Count(e.hunks, "add") = Count(d.hunks, "add") /\ Count(e.hunks, "del") = Count(d.hunks, "del")
  <2>1. ASSUME NEW type \in {"add", "del"}
        PROVE  Count(e.hunks, type) = Count(d.hunks, type)
    BY <1>1, CountCut DEF CutDraft
  <2>2. QED
    BY <2>1
<1>3. /\ f.oldPath = g.oldPath /\ f.newPath = g.newPath /\ f.similarity = g.similarity
      /\ f.oldMode = g.oldMode /\ f.newMode = g.newMode /\ f.isBinary = g.isBinary
      /\ f.status = g.status /\ f.additions = g.additions /\ f.deletions = g.deletions
      /\ f.hunks = e.hunks /\ g.hunks = d.hunks
  BY <1>2 DEF CutDraft, FinalizeDraft
<1> HIDE DEF f, g
<1>4. f = [g EXCEPT !.hunks = f.hunks]
  <2> DEFINE x == [g EXCEPT !.hunks = f.hunks]
  <2>1. /\ x \in DiffFiles /\ x.oldPath = g.oldPath /\ x.newPath = g.newPath
        /\ x.similarity = g.similarity /\ x.oldMode = g.oldMode /\ x.newMode = g.newMode
        /\ x.isBinary = g.isBinary /\ x.status = g.status /\ x.additions = g.additions
        /\ x.deletions = g.deletions /\ x.hunks = f.hunks
    BY <1>1 DEF DiffFiles
  <2> HIDE DEF x
  <2>2. f = x
    BY <1>1, <1>3, <2>1 DEF DiffFiles
  <2>3. QED
    BY <2>2 DEF x
<1>5. n \in 1 .. n /\ e.hunks[n] \in DiffHunks /\ d.hunks[n] \in DiffHunks
  BY <1>1 DEF CutDraft
<1>6. e.hunks[n] = [d.hunks[n] EXCEPT !.lines = e.hunks[n].lines]
  BY <1>5 DEF CutDraft, DiffHunks
<1>7. QED
  BY <1>3, <1>4, <1>6 DEF LosesBlanks, CutDraft, f, g

\* The lines of the hunk that git is writing.
LEMMA OpenLines ==
  ASSUME ParserInv, parsed.hunk # None
  PROVE  /\ written # <<>> /\ ~ended /\ parsed.draft # None /\ parsed \in Parses
         /\ Current = written[Len(written)] /\ Changed(Current) /\ Current \in WrittenFiles
         /\ Current.hunks # <<>> /\ Current.hunks[Len(Current.hunks)] \in WrittenHunks
         /\ Len(Current.hunks[Len(Current.hunks)].lines) \in Nat
<1>1. parsed.draft # None /\ Current.hunks # <<>>
  BY DEF ParserInv, DraftInv
<1>2. written # <<>> /\ ~ended
  BY <1>1 DEF ParserInv, DraftInv
<1>3. /\ written \in Seq(WrittenFiles) /\ parsed \in Parses
      /\ \A i \in 1 .. Len(written) : [written[i] EXCEPT !.hunks = <<>>] \in Changes
  BY DEF ParserInv, ParserType
<1>4. Len(written) \in 1 .. Len(written)
  BY <1>2, <1>3
<1>5. Current = written[Len(written)] /\ Changed(Current) /\ Current \in WrittenFiles
  BY <1>3, <1>4 DEF Current, Changed
<1>6. Current.hunks[Len(Current.hunks)] \in WrittenHunks
  BY <1>1, <1>5, DraftHunks DEF WrittenFiles
<1>7. QED
  BY <1>1, <1>2, <1>3, <1>5, <1>6 DEF WrittenHunks

\* What the parser has made of the trimmed output can be flushed.
LEMMA TrimmedType ==
  ASSUME ParserInv
  PROVE  /\ Trimmed(parsed) \in Parses
         /\ Trimmed(parsed).draft = None => Trimmed(parsed).hunk = None
<1>1. CASE parsed.hunk = None
  <2>1. Trimmed(parsed) = parsed
    BY <1>1 DEF Trimmed
  <2>2. QED
    BY <1>1, <2>1 DEF ParserInv, ParserType
<1>2. CASE parsed.hunk # None
  <2> DEFINE lines == Current.hunks[Len(Current.hunks)].lines
  <2>1. Len(lines) \in Nat /\ parsed \in Parses /\ parsed.draft # None
    BY <1>2, OpenLines
  <2>2. Trimmed(parsed) \in Parses /\ Trimmed(parsed).draft = parsed.draft
    BY <1>2, <2>1, TrimmedIs
  <2>3. QED
    BY <2>1, <2>2
<1>3. QED
  BY <1>1, <1>2

\* The file that git is writing, if the output ends here.
LEMMA LastTrimmed ==
  ASSUME ParserInv, parsed.hunk # None, ~Misread(Current)
  PROVE  LosesBlanks(FinalizeDraft(FlushHunk(Trimmed(parsed)).draft), Meant(Current))
<1> DEFINE f == Current
           h == f.hunks[Len(f.hunks)]
           t == Trimmed(parsed)
           d == FlushHunk(parsed).draft
           e == FlushHunk(t).draft
           full == [old |-> parsed.hunk.old, new |-> parsed.hunk.new, lines |-> parsed.hunk.lines]
           short == [old |-> t.hunk.old, new |-> t.hunk.new, lines |-> t.hunk.lines]
<1>1. /\ parsed \in Parses /\ parsed.draft # None /\ Changed(f) /\ f \in WrittenFiles
      /\ f.hunks # <<>> /\ h \in WrittenHunks /\ Len(h.lines) \in Nat
  BY OpenLines
<1>2. parsed.draft = DraftOf(f) /\ parsed.hunk = HunkOf(h)
  <2>1. ~Mimicked(f)
    BY DEF Misread, Mimicked
  <2>2. QED
    BY <1>1, <2>1 DEF ParserInv, DraftInv
<1>3. /\ t \in Parses /\ t.hunk \in OpenHunks /\ t.draft = parsed.draft
      /\ t.hunk.old = parsed.hunk.old /\ t.hunk.new = parsed.hunk.new
      /\ t.hunk.lines = TrimLines(parsed.hunk.lines, h.lines)
  BY <1>1, TrimmedIs
<1>4. CutShort(t.hunk.lines, parsed.hunk.lines)
  <2>1. parsed.hunk.lines = MeantHunk(h).lines
    BY <1>1, <1>2, HunkOfType
  <2>2. QED
    BY <1>1, <1>3, <2>1, TrimLinesCut
<1> HIDE DEF t, h
<1>5. t.hunk # None /\ t.draft # None
  BY <1>1, <1>3, UnifiedDiffAssumption
<1>6. /\ d = [parsed.draft EXCEPT !.hunks = Append(@, full)]
      /\ e = [t.draft EXCEPT !.hunks = Append(@, short)]
  BY <1>1, <1>3, <1>5, FlushTypes
<1>7. /\ parsed.draft \in Drafts /\ parsed.draft.hunks \in Seq(DiffHunks)
      /\ full \in DiffHunks /\ short \in DiffHunks
  <2>1. parsed.draft \in Drafts /\ parsed.hunk \in OpenHunks
    BY <1>1 DEF Parses
  <2>2. QED
    BY <1>3, <2>1 DEF Drafts, OpenHunks, DiffHunks
<1>8. /\ full.old = short.old /\ full.new = short.new
      /\ CutShort(short.lines, full.lines)
  BY <1>3, <1>4
<1> HIDE DEF full, short, d, e
<1>9. CutDraft(e, d)
  <2> DEFINE c == parsed.draft
             m == Len(c.hunks)
             as == Append(c.hunks, full)
             bs == Append(c.hunks, short)
  <2>1. /\ as \in Seq(DiffHunks) /\ bs \in Seq(DiffHunks)
        /\ m \in Nat /\ Len(as) = m + 1 /\ Len(bs) = m + 1
        /\ \A k \in 1 .. m : as[k] = bs[k]
        /\ as[m + 1] = full /\ bs[m + 1] = short
    BY <1>7
  <2>2. as # <<>>
    BY <2>1
  <2>3. d = [c EXCEPT !.hunks = as] /\ e = [c EXCEPT !.hunks = bs] /\ c \in Drafts
    BY <1>3, <1>6, <1>7
  <2> HIDE DEF as, bs, c
  <2>4. /\ d \in Drafts /\ e \in Drafts /\ d.hunks = as /\ e.hunks = bs
        /\ e.names = d.names /\ e.old = d.old /\ e.new = d.new /\ e.oldMode = d.oldMode
        /\ e.newMode = d.newMode /\ e.similarity = d.similarity /\ e.isBinary = d.isBinary
        /\ e.isRename = d.isRename /\ e.isNewFile = d.isNewFile
        /\ e.isDeletedFile = d.isDeletedFile
    BY <2>1, <2>3 DEF Drafts
  <2> HIDE DEF m
  <2>5. \A k \in 1 .. (m + 1) - 1 : bs[k] = as[k]
    <3> TAKE k \in 1 .. (m + 1) - 1
    <3>1. k \in 1 .. m
      BY <2>1
    <3>2. QED
      BY <2>1, <3>1
  <2>6. QED
    BY <1>8, <2>1, <2>2, <2>4, <2>5 DEF CutDraft
<1>10. FinalizeDraft(d) = Meant(f)
  <2>1. Finished(d, f)
    BY <1>1, <1>2, FlushedFinished DEF d, h
  <2>2. QED
    BY <1>1, <2>1, FinalizeMeant
<1>11. LosesBlanks(FinalizeDraft(e), Meant(f))
  BY <1>9, <1>10, FinalizeCut
<1>12. QED
  BY <1>11 DEF e, t

\* So that, if the output ended here, the result would be what git means.
LEMMA InvFaithful ==
  ASSUME ParserInv
  PROVE  ParsedAsWritten
<1> DEFINE n == Len(written)
           t == Trimmed(parsed)
           r == FinalizeDraft(FlushHunk(parsed).draft)
           q == FinalizeDraft(FlushHunk(t).draft)
<1>1. /\ Len(Finishes) = n
      /\ \A i \in 1 .. n : \/ Misread(written[i])
                           \/ Finishes[i] = Meant(written[i])
                           \/ ended /\ i = n /\ LosesBlanks(Finishes[i], Meant(written[i]))
  BY InvFinishes
<1>2. CASE parsed.hunk = None
  <2>1. Files = Finishes
    BY <1>2 DEF Files, Finishes, Trimmed
  <2>2. QED
    BY <1>1, <2>1 DEF ParsedAsWritten
<1>3. CASE parsed.hunk # None
  <2>1. /\ parsed \in Parses /\ parsed.draft # None /\ Current = written[n]
        /\ Len(Current.hunks[Len(Current.hunks)].lines) \in Nat /\ ~ended
    BY <1>3, OpenLines
  <2>2. /\ t \in Parses /\ t.files = parsed.files /\ t.draft = parsed.draft
    BY <1>3, <2>1, TrimmedIs
  <2> DEFINE m == Len(parsed.files)
  <2>3. /\ Finishes = [i \in 1 .. m + 1 |-> IF i <= m THEN parsed.files[i] ELSE r]
        /\ m \in Nat
    <3>1. parsed.draft = None => parsed.hunk = None
      BY <2>1
    <3>2. Finishes = [i \in 1 .. m + 1 |-> IF i <= m THEN parsed.files[i] ELSE r]
      BY <2>1, <3>1, FlushTypes DEF Finishes
    <3>3. QED
      BY <2>1, <3>2 DEF Parses
  <2>4. Files = [i \in 1 .. m + 1 |-> IF i <= m THEN parsed.files[i] ELSE q]
    <3> HIDE DEF t
    <3>1. t.draft # None
      BY <2>1, <2>2
    <3>2. FlushDraft(t).files = [i \in 1 .. Len(t.files) + 1 |->
                                   IF i <= Len(t.files) THEN t.files[i] ELSE q]
      BY <2>2, <3>1, FlushTypes
    <3>3. Files = FlushDraft(t).files
      BY DEF Files, t
    <3>4. QED
      BY <2>2, <3>2, <3>3
  <2> HIDE DEF r, q
  <2>5. m + 1 = n
    <3>1. parsed.draft # None => m = n - 1
      BY DEF ParserInv, FilesInv
    <3>2. n \in Nat
      BY DEF ParserInv, ParserType
    <3>3. QED
      BY <2>1, <3>1, <3>2
  <2>6. Len(Files) = n
    BY <2>3, <2>4, <2>5
  <2>7. ASSUME NEW i \in 1 .. n
        PROVE  \/ Misread(written[i])
               \/ Files[i] = Meant(written[i])
               \/ i = n /\ LosesBlanks(Files[i], Meant(written[i]))
    <3>1. CASE i = n
      <4>1. Files[i] = q /\ Current = written[i]
        BY <2>1, <2>3, <2>4, <2>5, <3>1
      <4>2. ~Misread(Current) => LosesBlanks(q, Meant(Current))
        BY <1>3, LastTrimmed DEF q
      <4>3. QED
        BY <3>1, <4>1, <4>2
    <3>2. CASE i # n
      <4>1. Files[i] = Finishes[i]
        BY <2>3, <2>4, <2>5, <3>2
      <4>2. QED
        BY <1>1, <2>1, <4>1
    <3>3. QED
      BY <3>1, <3>2
  <2>8. QED
    BY <2>6, <2>7 DEF ParsedAsWritten
<1>4. QED
  BY <1>2, <1>3

-----------------------------------------------------------------------------
(* Files and drafts, compared.                                             *)

\* A hunk that is not the first has one line before its lines.
LEMMA Joined01 == \A a : <<>> \o <<a>> = <<a>>
OBVIOUS

\* Drafts with the same fields are the same.
LEMMA DraftEqual ==
  ASSUME NEW a \in Drafts, NEW b \in Drafts, a.names = b.names, a.old = b.old, a.new = b.new,
         a.oldMode = b.oldMode, a.newMode = b.newMode, a.similarity = b.similarity,
         a.isBinary = b.isBinary, a.isRename = b.isRename, a.isNewFile = b.isNewFile,
         a.isDeletedFile = b.isDeletedFile, a.hunks = b.hunks
  PROVE  a = b
BY DEF Drafts

\* The files f and g differ in their hunks only.
SameFile(f, g) ==
  /\ f \in WrittenFiles /\ g \in WrittenFiles
  /\ g.old = f.old /\ g.new = f.new /\ g.chmod = f.chmod /\ g.binary = f.binary
  /\ g.similarity = f.similarity

\* Files with the same hunks too are the same.
LEMMA FileEqual ==
  ASSUME NEW f, NEW g, SameFile(f, g), g.hunks = f.hunks
  PROVE  f = g
BY DEF WrittenFiles, SameFile

\* What is written of a file's hunks leaves the file itself as it is.
LEMMA StaysChanged ==
  ASSUME NEW f, NEW g, Changed(f), SameFile(f, g)
  PROVE  Changed(g)
<1> DEFINE a == [f EXCEPT !.hunks = <<>>]
           b == [g EXCEPT !.hunks = <<>>]
<1>1. SameFile(a, b) /\ b.hunks = a.hunks
  <2>1. <<>> \in Seq(WrittenHunks)
    OBVIOUS
  <2>2. a \in WrittenFiles /\ b \in WrittenFiles
    BY <2>1 DEF SameFile, WrittenFiles
  <2>3. QED
    BY <2>2 DEF SameFile, WrittenFiles
<1>2. a = b
  <2> HIDE DEF a, b
  <2>1. QED
    BY <1>1, FileEqual
<1>3. QED
  BY <1>2 DEF Changed, SameFile

\* A changed file is one without hunks yet.
LEMMA ChangeIsFile ==
  ASSUME NEW f \in Changes
  PROVE  Changed(f) /\ f.hunks = <<>>
<1>1. f \in WrittenFiles
  <2>1. PICK p \in Paths : f \in ChangesOf(p)
    BY DEF Changes
  <2>2. \E old \in Paths \cup {None}, new \in Paths \cup {None}, chmod \in BOOLEAN,
           binary \in BOOLEAN, similarity \in {None, Similar} :
          f = Change(old, new, chmod, binary, similarity)
    BY <2>1 DEF ChangesOf
  <2>3. PICK old \in Paths \cup {None}, new \in Paths \cup {None}, chmod \in BOOLEAN,
           binary \in BOOLEAN, similarity \in {None, Similar} :
          f = Change(old, new, chmod, binary, similarity)
    BY <2>2
  <2>4. <<>> \in Seq(WrittenHunks)
    OBVIOUS
  <2>5. QED
    BY <2>3, <2>4 DEF Change, WrittenFiles
<1>2. f.hunks = <<>>
  BY ChangeKinds
<1> DEFINE g == [f EXCEPT !.hunks = <<>>]
<1>3. SameFile(f, g) /\ g.hunks = f.hunks
  BY <1>1, <1>2 DEF SameFile, WrittenFiles
<1>4. f = g
  <2> HIDE DEF g
  <2>1. QED
    BY <1>3, FileEqual
<1>5. QED
  BY <1>1, <1>2, <1>4 DEF Changed

\* What the parser knows of a file is a draft.
LEMMA DraftOfType ==
  ASSUME NEW f, Changed(f)
  PROVE  /\ DraftOf(f) \in Drafts
         /\ f.hunks = <<>> => DraftOf(f).hunks = <<>>
<1>0. \/ f.old \in Paths /\ f.new = f.old /\ ~f.chmod /\ f.similarity = None
      \/ f.old \in Paths /\ f.new = f.old /\ f.chmod /\ ~f.binary /\ f.similarity = None
      \/ f.old = None /\ f.new \in Paths /\ ~f.chmod /\ f.similarity = None
      \/ f.old \in Paths /\ f.new = None /\ ~f.chmod /\ f.similarity = None
      \/ f.old \in Paths /\ f.new \in Paths /\ ~f.chmod /\ ~f.binary /\ f.similarity = Similar
  BY FileKinds
<1> DEFINE d == DraftOf(f)
<1>1. f.hunks = <<>> => d.hunks = <<>>
  BY DEF DraftOf
<1>2. d.hunks \in Seq(DiffHunks)
  <2>1. CASE f.hunks = <<>>
    <3>1. d.hunks = <<>>
      BY <1>1, <2>1
    <3> HIDE DEF d
    <3>2. <<>> \in Seq(DiffHunks)
      OBVIOUS
    <3>3. QED
      BY <3>1, <3>2
  <2>2. CASE f.hunks # <<>>
    BY <2>2, DraftHunks DEF Changed
  <2>3. QED
    BY <2>1, <2>2
<1>3. f.binary \in BOOLEAN /\ f.similarity \in {None, Similar} /\ f.chmod \in BOOLEAN
  BY DEF Changed, WrittenFiles
<1> DEFINE oldMode == IF f.chmod \/ f.new = None THEN "100644" ELSE None
           newMode == IF f.chmod THEN "100755" ELSE IF f.old = None THEN "100644" ELSE None
           names == [a |-> IF f.old = None THEN f.new ELSE f.old,
                     b |-> IF f.new = None THEN f.old ELSE f.new]
           old == IF f.old = None \/ f.similarity # None \/ f.hunks # <<>> THEN f.old
                  ELSE IF ~f.binary THEN Unseen
                  ELSE IF f.old \in Ambiguous THEN Garbled ELSE f.old
           new == IF f.new = None \/ f.similarity # None \/ f.hunks # <<>> THEN f.new
                  ELSE IF ~f.binary THEN Unseen
                  ELSE IF f.old \in Ambiguous THEN Garbled ELSE f.new
           hunks == [i \in 1 .. Len(f.hunks) - 1 |-> MeantHunk(f.hunks[i])]
<1>4. oldMode \in Modes /\ newMode \in Modes
  BY DEF Modes
<1>5. names \in [a : Paths, b : Paths]
  BY <1>0
<1>6. old \in Paths \cup {None, Unseen, Garbled} /\ new \in Paths \cup {None, Unseen, Garbled}
  BY <1>0
<1>7. Meant(f).oldMode = oldMode /\ Meant(f).newMode = newMode
  BY DEF Meant
<1>8. hunks \in Seq(DiffHunks)
  BY <1>2 DEF DraftOf
<1> HIDE DEF oldMode, newMode, names, old, new, hunks
<1>9. d = [names |-> names, old |-> old, new |-> new, oldMode |-> oldMode,
           newMode |-> newMode, similarity |-> f.similarity, isBinary |-> f.binary,
           isRename |-> f.similarity # None, isNewFile |-> f.old = None,
           isDeletedFile |-> f.new = None, hunks |-> hunks]
  BY <1>7 DEF DraftOf, names, old, new, hunks
<1>10. QED
  <2> HIDE DEF d
  <2>1. d \in Drafts
    BY <1>3, <1>4, <1>5, <1>6, <1>8, <1>9 DEF Drafts
  <2>2. QED
    BY <1>1, <2>1 DEF d

\* What is written of the last hunk does not concern the draft.
LEMMA DraftSame ==
  ASSUME NEW f, NEW g, Changed(f), SameFile(f, g), f.hunks # <<>>, g.hunks # <<>>,
         \A i \in 1 .. Len(f.hunks) - 1 : g.hunks[i] = f.hunks[i],
         Len(g.hunks) = Len(f.hunks)
  PROVE  DraftOf(g) = DraftOf(f)
<1>1. [i \in 1 .. Len(g.hunks) - 1 |-> MeantHunk(g.hunks[i])]
        = [i \in 1 .. Len(f.hunks) - 1 |-> MeantHunk(f.hunks[i])]
  OBVIOUS
<1>2. Meant(g).oldMode = Meant(f).oldMode /\ Meant(g).newMode = Meant(f).newMode
  BY DEF Meant, SameFile
<1>3. QED
  BY <1>1, <1>2 DEF DraftOf, SameFile

\* A line makes an open hunk of an open hunk,
LEMMA ReadMarkedType ==
  ASSUME NEW o \in OpenHunks, NEW type \in Types, NEW text \in {l[2] : l \in Lines}
  PROVE  ReadMarked(o, Line(type, text)) \in OpenHunks
<1> DEFINE old == type \in {"context", "del"}
           new == type \in {"context", "add"}
           t == Chomp(text)
           e == [type |-> type, text |-> t, oldNo |-> IF old THEN o.oldNext ELSE None,
                 newNo |-> IF new THEN o.newNext ELSE None, noNewline |-> FALSE]
<1>1. ReadMarked(o, Line(type, text)) =
        [o EXCEPT !.lines = Append(@, e), !.oldNext = IF old THEN @ + 1 ELSE @,
                  !.newNext = IF new THEN @ + 1 ELSE @]
  BY DEF ReadMarked, Line
<1>2. o.lines \in Seq(DiffLines) /\ o.oldNext \in Nat /\ o.newNext \in Nat
  BY DEF OpenHunks
<1>7. t \in Seq(STRING)
  BY TextType, ChompType
<1>3. e \in DiffLines
  <2> HIDE DEF t
  <2>1. QED
    BY <1>2, <1>7 DEF DiffLines
<1> HIDE DEF e
<1> DEFINE lines == Append(o.lines, e)
           oldNext == IF old THEN o.oldNext + 1 ELSE o.oldNext
           newNext == IF new THEN o.newNext + 1 ELSE o.newNext
<1>4. lines \in Seq(DiffLines) /\ oldNext \in Nat /\ newNext \in Nat
  BY <1>2, <1>3
<1>5. ReadMarked(o, Line(type, text)) =
        [o EXCEPT !.lines = lines, !.oldNext = oldNext, !.newNext = newNext]
  BY <1>1
<1> HIDE DEF lines, oldNext, newNext
<1>6. QED
  BY <1>4, <1>5 DEF OpenHunks

\* and so does a missing newline.
LEMMA ReadNoNewlineType ==
  ASSUME NEW o \in OpenHunks
  PROVE  ReadNoNewline(o) \in OpenHunks
<1>1. CASE o.lines = <<>>
  BY <1>1 DEF ReadNoNewline
<1>2. CASE o.lines # <<>>
  <2> DEFINE n == Len(o.lines)
             e == [o.lines[n] EXCEPT !.noNewline = TRUE]
             ls == [o.lines EXCEPT ![n] = e]
  <2>1. o.lines \in Seq(DiffLines) /\ n \in 1 .. Len(o.lines) /\ o.lines[n] \in DiffLines
    BY <1>2 DEF OpenHunks
  <2>2. e \in DiffLines
    BY <2>1 DEF DiffLines
  <2>3. ReadNoNewline(o) = [o EXCEPT !.lines = ls]
    BY <1>2 DEF ReadNoNewline
  <2>4. ls \in Seq(DiffLines)
    <3> HIDE DEF n, e
    <3>1. QED
      BY <2>1, <2>2, ExceptSeq
  <2> HIDE DEF ls
  <2>5. QED
    BY <2>3, <2>4 DEF OpenHunks
<1>3. QED
  BY <1>1, <1>2

-----------------------------------------------------------------------------
(* The steps.                                                              *)

\* The state the steps start from,
LEMMA StateFacts ==
  ASSUME ParserInv
  PROVE  /\ written \in Seq(WrittenFiles) /\ Len(written) \in Nat
         /\ written = <<>> <=> Len(written) = 0
         /\ \A i \in 1 .. Len(written) : Changed(written[i])
         /\ parsed \in Parses /\ Len(parsed.files) \in Nat
         /\ written # <<>> => /\ Len(written) \in 1 .. Len(written)
                              /\ Current = written[Len(written)] /\ Changed(Current)
                              /\ Current \in WrittenFiles
<1>1. /\ parsed \in Parses /\ written \in Seq(WrittenFiles)
      /\ \A i \in 1 .. Len(written) : [written[i] EXCEPT !.hunks = <<>>] \in Changes
  BY DEF ParserInv, ParserType
<1>2. Len(written) \in Nat /\ Len(parsed.files) \in Nat /\ (written = <<>> <=> Len(written) = 0)
  BY <1>1 DEF Parses
<1>3. \A i \in 1 .. Len(written) : Changed(written[i])
  BY <1>1 DEF Changed
<1>4. QED
  BY <1>1, <1>2, <1>3 DEF Current, Changed

\* A step within the file that git is writing leaves the files before it alone.
LEMMA StepInFile ==
  ASSUME ParserInv, written # <<>>, ~ended, ended' = ended, NEW g, SameFile(Current, g),
         g.hunks # <<>>, written' = [written EXCEPT ![Len(written)] = g],
         parsed' \in Parses, parsed'.files = parsed.files, parsed'.draft # None,
         parsed'.hunk # None,
         ~Mimicked(g) => /\ parsed'.draft = DraftOf(g)
                         /\ parsed'.hunk = HunkOf(g.hunks[Len(g.hunks)])
  PROVE  ParserInv'
<1> DEFINE n == Len(written)
<1>1. /\ written \in Seq(WrittenFiles) /\ n \in Nat /\ n \in 1 .. n /\ Current = written[n]
      /\ Changed(Current) /\ \A i \in 1 .. n : Changed(written[i])
  BY StateFacts
<1>2. Changed(g) /\ g \in WrittenFiles
  BY <1>1, StaysChanged DEF Changed
<1>3. /\ written' \in Seq(WrittenFiles) /\ Len(written') = n /\ written' # <<>>
      /\ \A i \in 1 .. n : written'[i] = IF i = n THEN g ELSE written[i]
  BY <1>1, <1>2
<1>4. \A i \in 1 .. n : Changed(written'[i])
  BY <1>1, <1>2, <1>3
<1>5. ParserType'
  BY <1>3, <1>4 DEF ParserInv, ParserType, Changed
<1>6. parsed.draft # None
  BY DEF ParserInv, DraftInv
<1>7. FilesInv'
  <2>1. Len(parsed.files) = n - 1
        /\ \A i \in 1 .. n - 1 : Misread(written[i]) \/ parsed.files[i] = Meant(written[i])
    BY <1>6 DEF ParserInv, FilesInv
  <2>2. \A i \in 1 .. n - 1 : Misread(written'[i]) \/ parsed'.files[i] = Meant(written'[i])
    <3> TAKE i \in 1 .. n - 1
    <3>1. i \in 1 .. n /\ i # n
      BY <1>1
    <3>2. written'[i] = written[i]
      BY <1>3, <3>1
    <3>3. QED
      BY <2>1, <3>2
  <2>3. Len(parsed'.files) = Len(written') - 1
    BY <1>3, <2>1
  <2>4. QED
    BY <1>3, <2>1, <2>2, <2>3 DEF FilesInv
<1>8. DraftInv'
  <2>1. Current' = g
    BY <1>1, <1>3 DEF Current
  <2>2. QED
    BY <1>3, <2>1 DEF DraftInv
<1>9. QED
  BY <1>5, <1>7, <1>8 DEF ParserInv

\* The next file: the one before it is finished.
LEMMA WriteFileStep ==
  ASSUME ParserInv, NEW f \in Inputs, WriteFile(f)
  PROVE  ParserInv'
<1>1. f \in Changes
  BY UnifiedDiffAssumption
<1>2. Changed(f) /\ f.hunks = <<>> /\ f \in WrittenFiles
  BY <1>1, ChangeIsFile DEF Changed
<1>3. /\ written' = Append(written, f) /\ parsed' = ReadLines(parsed, HeaderLines(f))
      /\ ~ended /\ ended' = ended
  BY DEF WriteFile, Reading
<1>4. parsed.draft = None => parsed.hunk = None
  BY DEF ParserInv, DraftInv
<1>5. FlushDraft(parsed) \in Parses /\ FlushDraft(parsed).hunk = None
  BY <1>4, StateFacts, FlushTypes
<1>6. parsed' = [files |-> Finishes, draft |-> DraftOf(f), hunk |-> None]
  BY <1>1, <1>3, <1>5, StateFacts, HeaderRead DEF Finishes
<1>7. DraftOf(f) \in Drafts /\ DraftOf(f) # None
  BY <1>2, DraftOfType, UnifiedDiffAssumption
<1>8. /\ written' \in Seq(WrittenFiles) /\ Len(written') = Len(written) + 1
      /\ written' # <<>> /\ Len(written) \in Nat
      /\ \A i \in 1 .. Len(written) : written'[i] = written[i]
      /\ written'[Len(written) + 1] = f
  BY <1>2, <1>3, StateFacts
<1>9. ParserType'
  <2>1. parsed' \in Parses
    BY <1>5, <1>6, <1>7 DEF Parses, Finishes
  <2>2. \A i \in 1 .. Len(written') : Changed(written'[i])
    BY <1>2, <1>8, StateFacts
  <2>3. QED
    BY <1>3, <1>8, <2>1, <2>2 DEF ParserInv, ParserType, Changed
<1>10. FilesInv'
  <2>1. /\ Len(Finishes) = Len(written)
        /\ \A i \in 1 .. Len(written) : Misread(written[i]) \/ Finishes[i] = Meant(written[i])
    BY <1>3, InvFinishes
  <2>2. parsed'.files = Finishes /\ parsed'.draft # None
    BY <1>6, <1>7
  <2>3. QED
    BY <1>8, <2>1, <2>2 DEF FilesInv
<1>11. DraftInv'
  <2>1. Current' = f
    BY <1>8 DEF Current
  <2>2. parsed'.draft = DraftOf(f) /\ parsed'.hunk = None
    BY <1>6
  <2>3. QED
    BY <1>2, <1>3, <1>7, <1>8, <2>1, <2>2 DEF DraftInv
<1>12. QED
  BY <1>9, <1>10, <1>11 DEF ParserInv

\* The end: what is open is finished.
LEMMA EndStep ==
  ASSUME ParserInv, End
  PROVE  ParserInv'
<1>1. parsed' = FlushDraft(Trimmed(parsed)) /\ ended' = TRUE /\ written' = written
  BY DEF End
<1>2. /\ parsed' \in Parses /\ parsed'.hunk = None /\ parsed'.draft = None
      /\ parsed'.files = Files
  BY <1>1, TrimmedType, FlushTypes DEF Files
<1>3. ParsedAsWritten
  BY InvFaithful
<1>4. written \in Seq(WrittenFiles) /\ Len(written) \in Nat
  BY StateFacts
<1>5. ParserType'
  BY <1>1, <1>2 DEF ParserInv, ParserType
<1>6. FilesInv'
  BY <1>1, <1>2, <1>3 DEF FilesInv, ParsedAsWritten
<1>7. DraftInv'
  BY <1>1, <1>2 DEF DraftInv
<1>8. QED
  BY <1>5, <1>6, <1>7 DEF ParserInv

\* and the draft and the open hunk within a file.
LEMMA FileFacts ==
  ASSUME ParserInv, ~ended, written # <<>>
  PROVE  /\ parsed.draft \in Drafts /\ parsed.draft # None
         /\ parsed.files \in Seq(DiffFiles)
         /\ parsed = [files |-> parsed.files, draft |-> parsed.draft, hunk |-> parsed.hunk]
         /\ parsed.hunk = None <=> Current.hunks = <<>>
         /\ Current.hunks # <<>> => parsed.hunk \in OpenHunks
         /\ ~Mimicked(Current) =>
              /\ parsed.draft = DraftOf(Current)
              /\ Current.hunks # <<>> => parsed.hunk = HunkOf(Current.hunks[Len(Current.hunks)])
<1>1. parsed.draft # None
  BY DEF ParserInv, DraftInv
<1>2. QED
  BY <1>1, StateFacts DEF ParserInv, DraftInv, Parses

\* The file g is the file f with the hunk h for its last one.
LineChanged(f, g, h) ==
  /\ SameFile(f, g) /\ f.hunks # <<>> /\ g.hunks # <<>>
  /\ Len(f.hunks) \in Nat \ {0} /\ Len(g.hunks) = Len(f.hunks)
  /\ \A i \in 1 .. Len(f.hunks) : g.hunks[i] = IF i = Len(f.hunks) THEN h ELSE f.hunks[i]

\* WriteLine and WriteNoNewline change the last hunk.
LEMMA LineIsChanged ==
  ASSUME NEW f \in WrittenFiles, f.hunks # <<>>, NEW h \in WrittenHunks
  PROVE  LineChanged(f, [f EXCEPT !.hunks = [f.hunks EXCEPT ![Len(f.hunks)] = h]], h)
<1> DEFINE n == Len(f.hunks)
           hs == [f.hunks EXCEPT ![n] = h]
           g == [f EXCEPT !.hunks = hs]
<1>1. f.hunks \in Seq(WrittenHunks) /\ n \in Nat \ {0} /\ n \in 1 .. Len(f.hunks)
  BY DEF WrittenFiles
<1>2. /\ hs \in Seq(WrittenHunks) /\ Len(hs) = n
      /\ \A i \in 1 .. n : hs[i] = IF i = n THEN h ELSE f.hunks[i]
  <2> HIDE DEF hs
  <2>1. /\ hs \in Seq(WrittenHunks) /\ Len(hs) = Len(f.hunks)
        /\ \A i \in 1 .. Len(f.hunks) : hs[i] = IF i = n THEN h ELSE f.hunks[i]
    <3> HIDE DEF n
    <3>1. QED
      BY <1>1, ExceptSeq DEF hs
  <2>2. QED
    BY <2>1
<1> HIDE DEF hs
<1>3. SameFile(f, g) /\ g.hunks = hs
  BY <1>2 DEF SameFile, WrittenFiles
<1>4. hs # <<>>
  BY <1>1, <1>2
<1> HIDE DEF g
<1>5. QED
  BY <1>1, <1>2, <1>3, <1>4 DEF LineChanged, g, hs

\* A line that looks like a file name is taken for one.
LEMMA ReadMimic ==
  ASSUME NEW s, NEW type \in Types, NEW text,
         LooksLike(Line(type, text), "---") \/ LooksLike(Line(type, text), "+++")
  PROVE  \/ ReadLine(s, Line(type, text)) = [s EXCEPT !.draft = ReadHeader(@, Line("---", Garbled))]
         \/ ReadLine(s, Line(type, text)) = [s EXCEPT !.draft = ReadHeader(@, Line("+++", Garbled))]
<1> DEFINE l == Line(type, text)
<1>1. /\ l.is = type
      /\ type # "diff --git" /\ type # "@@" /\ type # "\\"
  BY DEF Line, Types
<1> HIDE DEF l
<1>2. CASE LooksLike(l, "---")
  BY <1>1, <1>2 DEF ReadLine, LooksLike, Types, l
<1>3. CASE LooksLike(l, "+++")
  BY <1>1, <1>3 DEF ReadLine, LooksLike, Types, l
<1>4. QED
  BY <1>2, <1>3 DEF l

\* Any other line goes to the open hunk.
LEMMA ReadMarkedLine ==
  ASSUME NEW s, NEW type \in Types, NEW text,
         ~LooksLike(Line(type, text), "---"), ~LooksLike(Line(type, text), "+++")
  PROVE  ReadLine(s, Line(type, text)) = [s EXCEPT !.hunk = ReadMarked(@, Line(type, text))]
BY DEF ReadLine, Line, Types

\* A line of a hunk.  If it looks like a header, the draft is spoilt, and so is the file;
\* else the parser follows.
LEMMA WriteLineStep ==
  ASSUME ParserInv, NEW l \in Lines, WriteLine(l[1], l[2])
  PROVE  ParserInv'
<1> DEFINE n == Len(written)
           f == Current
           k == Len(f.hunks)
           h == f.hunks[k]
           type == l[1]
           text == l[2]
           e == [type |-> type, text |-> text, noNewline |-> FALSE]
           h2 == [h EXCEPT !.lines = Append(@, e)]
           g == [f EXCEPT !.hunks = [f.hunks EXCEPT ![k] = h2]]
           line == Line(type, text)
<1>1. /\ ~ended /\ ended' = ended /\ written # <<>> /\ f.hunks # <<>> /\ type \in TypesOf(f)
      /\ written' = [written EXCEPT ![n].hunks[k].lines = Append(@, e)]
      /\ parsed' = ReadLines(parsed, <<line>>)
  BY DEF WriteLine, Reading
<1>2. type \in Types /\ text \in {m[2] : m \in Lines}
  BY <1>1 DEF TypesOf, Types
<1>3. /\ written \in Seq(WrittenFiles) /\ n \in 1 .. n /\ f = written[n] /\ Changed(f)
      /\ f \in WrittenFiles
  BY <1>1, StateFacts
<1>4. k \in 1 .. k /\ h \in WrittenHunks /\ k \in Nat \ {0}
  BY <1>1, <1>3 DEF WrittenFiles
<1>5. e \in WrittenLines
  BY <1>2 DEF WrittenLines
<1>6. LineAdded(h, h2, e)
  <2> HIDE DEF h, e
  <2>1. QED
    BY <1>4, <1>5, LineIsAdded
<1>7. h2 \in WrittenHunks
  BY <1>6 DEF LineAdded
<1>8. LineChanged(f, g, h2)
  <2> HIDE DEF f, h2
  <2>1. QED
    BY <1>1, <1>3, <1>7, LineIsChanged
<1>9. written' = [written EXCEPT ![n] = g]
  BY <1>1, <1>3, <1>4
<1>10. parsed' = ReadLine(parsed, line)
  BY <1>1, ReadOne
<1>11. g.hunks[k] = h2 /\ Len(g.hunks) = k /\ g.hunks # <<>> /\ SameFile(f, g)
       /\ \A i \in 1 .. k - 1 : g.hunks[i] = f.hunks[i]
  <2> HIDE DEF g, h2, f
  <2>1. QED
    BY <1>4, <1>8 DEF LineChanged
<1>12. Mimicked(f) => Mimicked(g)
  <2> SUFFICES ASSUME NEW i \in 1 .. k, NEW j \in 1 .. Len(f.hunks[i].lines),
                      Mimics(f.hunks[i].lines[j])
               PROVE  Mimicked(g)
    BY DEF Mimicked
  <2> HIDE DEF f, h, h2, g, e
  <2>1. CASE i = k
    <3>1. j \in 1 .. Len(h2.lines) /\ h2.lines[j] = f.hunks[i].lines[j]
      BY <1>6, <2>1 DEF LineAdded, h
    <3>2. QED
      BY <1>4, <1>11, <3>1 DEF Mimicked
  <2>2. CASE i \in 1 .. k - 1
    BY <1>4, <1>11, <2>2 DEF Mimicked
  <2>3. QED
    BY <1>4, <2>1, <2>2
<1>13. Mimics(e) => Mimicked(g)
  <2>1. h2.lines[Len(h.lines) + 1] = e /\ Len(h.lines) + 1 \in 1 .. Len(h2.lines)
    <3> HIDE DEF h, h2, e
    <3>1. QED
      BY <1>6 DEF LineAdded
  <2> HIDE DEF h, h2, e, g
  <2>2. QED
    BY <1>4, <1>11, <2>1 DEF Mimicked
<1>14. Mimics(e) <=> LooksLike(line, "---") \/ LooksLike(line, "+++")
  BY DEF Mimics
<1>15. /\ parsed.draft \in Drafts /\ parsed.draft # None /\ parsed.files \in Seq(DiffFiles)
       /\ parsed.hunk \in OpenHunks /\ parsed.hunk # None /\ parsed \in Parses
       /\ ~Mimicked(f) => parsed.draft = DraftOf(f) /\ parsed.hunk = HunkOf(h)
  BY <1>1, FileFacts, StateFacts
<1>16. /\ parsed' \in Parses /\ parsed'.files = parsed.files /\ parsed'.draft # None
       /\ parsed'.hunk # None
       /\ ~Mimicked(g) => /\ parsed'.draft = DraftOf(g)
                          /\ parsed'.hunk = HunkOf(g.hunks[Len(g.hunks)])
  <2>1. CASE Mimics(e)
    <3>1. \/ parsed' = [parsed EXCEPT !.draft = ReadHeader(@, Line("---", Garbled))]
          \/ parsed' = [parsed EXCEPT !.draft = ReadHeader(@, Line("+++", Garbled))]
      BY <1>2, <1>10, <1>14, <2>1, ReadMimic
    <3>2. \/ parsed' = [parsed EXCEPT !.draft = [@ EXCEPT !.old = Garbled]]
          \/ parsed' = [parsed EXCEPT !.draft = [@ EXCEPT !.new = Garbled]]
      <4>1. /\ ReadHeader(parsed.draft, Line("---", Garbled)) =
                 [parsed.draft EXCEPT !.old = Garbled]
            /\ ReadHeader(parsed.draft, Line("+++", Garbled)) =
                 [parsed.draft EXCEPT !.new = Garbled]
        BY ReadHeaderCases
      <4>2. QED
        BY <3>1, <4>1
    <3>3. [parsed.draft EXCEPT !.old = Garbled] \in Drafts
          /\ [parsed.draft EXCEPT !.new = Garbled] \in Drafts
      BY <1>15 DEF Drafts
    <3>4. PICK d \in Drafts : parsed' = [parsed EXCEPT !.draft = d]
      BY <3>2, <3>3
    <3>5. d # None
      BY UnifiedDiffAssumption
    <3> HIDE DEF g
    <3>6. QED
      BY <1>13, <1>15, <2>1, <3>4, <3>5 DEF Parses
  <2>2. CASE ~Mimics(e)
    <3> DEFINE o == ReadMarked(parsed.hunk, line)
    <3>1. parsed' = [parsed EXCEPT !.hunk = o]
      BY <1>2, <1>10, <1>14, <2>2, ReadMarkedLine
    <3>2. o \in OpenHunks /\ o # None
      BY <1>2, <1>15, ReadMarkedType, UnifiedDiffAssumption
    <3>3. ~Mimicked(f) => o = HunkOf(h2)
      <4> HIDE DEF h, h2, f
      <4>1. HunkOf(h2) = ReadMarked(HunkOf(h), line)
        BY <1>2, <1>6, ReadsMarked
      <4>2. QED
        BY <1>15, <4>1
    <3>4. DraftOf(g) = DraftOf(f)
      <4> HIDE DEF f, g
      <4>1. QED
        BY <1>1, <1>3, <1>11, DraftSame
    <3> HIDE DEF o, g, h2, f
    <3>5. QED
      BY <1>11, <1>12, <1>15, <3>1, <3>2, <3>3, <3>4 DEF Parses
  <2>3. QED
    BY <2>1, <2>2
<1>17. QED
  <2> HIDE DEF g
  <2>1. QED
    BY <1>1, <1>9, <1>11, <1>16, StepInFile

\* The note on the missing newline goes to the open hunk.
LEMMA ReadEndLine ==
  ASSUME NEW s
  PROVE  ReadLine(s, Line("\\", None)) = [s EXCEPT !.hunk = ReadNoNewline(@)]
BY DEF ReadLine, LooksLike, Line, Types

\* A missing newline.
LEMMA WriteNoNewlineStep ==
  ASSUME ParserInv, WriteNoNewline
  PROVE  ParserInv'
<1> DEFINE n == Len(written)
           f == Current
           k == Len(f.hunks)
           h == f.hunks[k]
           h2 == [h EXCEPT !.lines[Len(h.lines)].noNewline = TRUE]
           g == [f EXCEPT !.hunks = [f.hunks EXCEPT ![k] = h2]]
           line == Line("\\", None)
           o == ReadNoNewline(parsed.hunk)
<1>1. /\ ~ended /\ ended' = ended /\ written # <<>> /\ f.hunks # <<>> /\ h.lines # <<>>
      /\ written' = [written EXCEPT ![n].hunks[k].lines[Len(h.lines)].noNewline = TRUE]
      /\ parsed' = ReadLines(parsed, <<line>>)
  BY DEF WriteNoNewline, Reading
<1>3. /\ written \in Seq(WrittenFiles) /\ n \in 1 .. n /\ f = written[n] /\ Changed(f)
      /\ f \in WrittenFiles
  BY <1>1, StateFacts
<1>4. k \in 1 .. k /\ h \in WrittenHunks /\ k \in Nat \ {0}
  BY <1>1, <1>3 DEF WrittenFiles
<1>6. LineEnded(h, h2)
  <2> HIDE DEF h
  <2>1. QED
    BY <1>1, <1>4, LineIsEnded
<1>7. h2 \in WrittenHunks
  BY <1>6 DEF LineEnded
<1>8. LineChanged(f, g, h2)
  <2> HIDE DEF f, h2
  <2>1. QED
    BY <1>1, <1>3, <1>7, LineIsChanged
<1>9. written' = [written EXCEPT ![n] = g]
  BY <1>1, <1>3, <1>4
<1>10. parsed' = ReadLine(parsed, line)
  BY <1>1, ReadOne
<1>11. g.hunks[k] = h2 /\ Len(g.hunks) = k /\ g.hunks # <<>> /\ SameFile(f, g)
       /\ \A i \in 1 .. k - 1 : g.hunks[i] = f.hunks[i]
  <2> HIDE DEF g, h2, f
  <2>1. QED
    BY <1>4, <1>8 DEF LineChanged
<1>12. Mimicked(f) => Mimicked(g)
  <2> SUFFICES ASSUME NEW i \in 1 .. k, NEW j \in 1 .. Len(f.hunks[i].lines),
                      Mimics(f.hunks[i].lines[j])
               PROVE  Mimicked(g)
    BY DEF Mimicked
  <2> HIDE DEF f, h, h2, g
  <2>1. CASE i = k
    <3>1. /\ j \in 1 .. Len(h2.lines) /\ h2.lines[j].type = f.hunks[i].lines[j].type
          /\ h2.lines[j].text = f.hunks[i].lines[j].text
      BY <1>6, <2>1 DEF LineEnded, h
    <3>2. Mimics(h2.lines[j])
      BY <3>1 DEF Mimics
    <3>3. QED
      BY <1>4, <1>11, <3>1, <3>2 DEF Mimicked
  <2>2. CASE i \in 1 .. k - 1
    BY <1>4, <1>11, <2>2 DEF Mimicked
  <2>3. QED
    BY <1>4, <2>1, <2>2
<1>15. /\ parsed.draft \in Drafts /\ parsed.draft # None /\ parsed.files \in Seq(DiffFiles)
       /\ parsed.hunk \in OpenHunks /\ parsed.hunk # None /\ parsed \in Parses
       /\ ~Mimicked(f) => parsed.draft = DraftOf(f) /\ parsed.hunk = HunkOf(h)
  BY <1>1, FileFacts, StateFacts
<1>16. parsed' = [parsed EXCEPT !.hunk = o]
  BY <1>10, ReadEndLine
<1>17. o \in OpenHunks /\ o # None
  BY <1>15, ReadNoNewlineType, UnifiedDiffAssumption
<1>18. ~Mimicked(f) => o = HunkOf(h2)
  <2> HIDE DEF h, h2, f
  <2>1. HunkOf(h2) = ReadNoNewline(HunkOf(h))
    BY <1>6, ReadsNoNewline
  <2>2. QED
    BY <1>15, <2>1
<1>19. DraftOf(g) = DraftOf(f)
  <2> HIDE DEF f, g
  <2>1. QED
    BY <1>1, <1>3, <1>11, DraftSame
<1>20. /\ parsed' \in Parses /\ parsed'.files = parsed.files /\ parsed'.draft # None
       /\ parsed'.hunk # None
       /\ ~Mimicked(g) => /\ parsed'.draft = DraftOf(g)
                          /\ parsed'.hunk = HunkOf(g.hunks[Len(g.hunks)])
  <2> HIDE DEF o, g, h2, f
  <2>1. QED
    BY <1>11, <1>12, <1>15, <1>16, <1>17, <1>18, <1>19 DEF Parses
<1>21. QED
  <2> HIDE DEF g
  <2>1. QED
    BY <1>1, <1>9, <1>11, <1>20, StepInFile

\* The file g is the file f with the empty hunk h behind it.
HunkAdded(f, g, h) ==
  /\ SameFile(f, g) /\ h.lines = <<>> /\ g.hunks # <<>>
  /\ Len(f.hunks) \in Nat /\ Len(g.hunks) = Len(f.hunks) + 1
  /\ \A i \in 1 .. Len(f.hunks) : g.hunks[i] = f.hunks[i]
  /\ g.hunks[Len(f.hunks) + 1] = h

\* WriteHunk adds one.
LEMMA HunkIsAdded ==
  ASSUME NEW f \in WrittenFiles, NEW h \in WrittenHunks, h.lines = <<>>
  PROVE  HunkAdded(f, [f EXCEPT !.hunks = Append(@, h)], h)
<1> DEFINE hs == Append(f.hunks, h)
           g == [f EXCEPT !.hunks = hs]
<1>1. f.hunks \in Seq(WrittenHunks) /\ Len(f.hunks) \in Nat
  BY DEF WrittenFiles
<1>2. /\ hs \in Seq(WrittenHunks) /\ Len(hs) = Len(f.hunks) + 1 /\ hs # <<>>
      /\ \A i \in 1 .. Len(f.hunks) : hs[i] = f.hunks[i]
      /\ hs[Len(f.hunks) + 1] = h
  BY <1>1
<1> HIDE DEF hs
<1>3. SameFile(f, g) /\ g.hunks = hs
  BY <1>2 DEF SameFile, WrittenFiles
<1> HIDE DEF g
<1>4. QED
  BY <1>1, <1>2, <1>3 DEF HunkAdded, g, hs

\* A spoilt file stays spoilt.
LEMMA NotMimickedBefore ==
  ASSUME NEW f, NEW g, NEW h, HunkAdded(f, g, h), Mimicked(f)
  PROVE  Mimicked(g)
<1>1. PICK i \in 1 .. Len(f.hunks) :
        \E j \in 1 .. Len(f.hunks[i].lines) : Mimics(f.hunks[i].lines[j])
  BY DEF Mimicked
<1>2. i \in 1 .. Len(g.hunks) /\ g.hunks[i] = f.hunks[i]
  BY DEF HunkAdded
<1>3. QED
  BY <1>1, <1>2 DEF Mimicked

\* Without a line nothing looks like a header.
LEMMA NoHunkNoMimic ==
  ASSUME NEW f, f.hunks = <<>>
  PROVE  ~Mimicked(f)
BY DEF Mimicked

\* When there is a hunk more, the draft has those before it, and the names for certain.
LEMMA DraftGrows ==
  ASSUME NEW f, NEW g, NEW h, HunkAdded(f, g, h)
  PROVE  /\ DraftOf(g).hunks = MeantHunks(f)
         /\ DraftOf(g).names = DraftOf(f).names
         /\ DraftOf(g).old = f.old /\ DraftOf(g).new = f.new
         /\ f.hunks # <<>> => DraftOf(f).old = f.old /\ DraftOf(f).new = f.new
         /\ DraftOf(g).oldMode = DraftOf(f).oldMode /\ DraftOf(g).newMode = DraftOf(f).newMode
         /\ DraftOf(g).similarity = DraftOf(f).similarity
         /\ DraftOf(g).isBinary = DraftOf(f).isBinary
         /\ DraftOf(g).isRename = DraftOf(f).isRename
         /\ DraftOf(g).isNewFile = DraftOf(f).isNewFile
         /\ DraftOf(g).isDeletedFile = DraftOf(f).isDeletedFile
<1>1. [i \in 1 .. Len(g.hunks) - 1 |-> MeantHunk(g.hunks[i])] = MeantHunks(f)
  <2>1. Len(g.hunks) - 1 = Len(f.hunks) /\ \A i \in 1 .. Len(f.hunks) : g.hunks[i] = f.hunks[i]
    BY DEF HunkAdded
  <2>2. QED
    BY <2>1 DEF MeantHunks
<1>2. /\ g.hunks # <<>> /\ g.old = f.old /\ g.new = f.new /\ g.chmod = f.chmod
      /\ g.binary = f.binary /\ g.similarity = f.similarity
  BY DEF HunkAdded, SameFile
<1>3. Meant(g).oldMode = Meant(f).oldMode /\ Meant(g).newMode = Meant(f).newMode
  BY <1>2 DEF Meant
<1>4. QED
  BY <1>1, <1>2, <1>3 DEF DraftOf

\* A hunk header starts a hunk.
LEMMA ReadHunkLine ==
  ASSUME NEW s, NEW start
  PROVE  ReadLine(s, Line("@@", start)) = ReadHunkHeader(s, start)
BY DEF ReadLine, LooksLike, Line, Types

\* Before the first hunk of a file its names are read,
LEMMA FirstHunkRead ==
  ASSUME NEW s \in Parses, s.draft # None, s.hunk = None, NEW f \in WrittenFiles,
         f.hunks = <<>>, NEW start
  PROVE  ReadLines(s, FirstHunkLines(f) \o <<Line("@@", start)>>)
           = [files |-> s.files, draft |-> [[s.draft EXCEPT !.old = f.old] EXCEPT !.new = f.new],
              hunk |-> [old |-> start.old, new |-> start.new, lines |-> <<>>,
                        oldNext |-> start.old, newNext |-> start.new]]
<1> DEFINE minus == Line("---", f.old)
           plus == Line("+++", f.new)
           at == Line("@@", start)
           After(d) == [files |-> s.files, draft |-> d, hunk |-> None]
           d1 == [s.draft EXCEPT !.old = f.old]
           d2 == [d1 EXCEPT !.new = f.new]
<1>1. FirstHunkLines(f) \o <<at>> = <<minus, plus, at>>
  <2>1. FirstHunkLines(f) = <<minus, plus>>
    BY DEF FirstHunkLines
  <2> HIDE DEF minus, plus, at
  <2>2. QED
    BY <2>1, Joined21
<1>2. ReadLines(s, <<minus, plus, at>>) = ReadLine(ReadLine(ReadLine(s, minus), plus), at)
  <2> HIDE DEF minus, plus, at
  <2>1. QED
    BY ReadThree
<1>3. s = After(s.draft)
  BY DEF Parses
<1>4. ReadLine(s, minus) = After(d1)
  <2>1. ReadLine(s, minus) = [s EXCEPT !.draft = ReadHeader(@, minus)]
    BY ReadHeaderLine DEF HeaderKinds
  <2>2. ReadHeader(s.draft, minus) = d1
    BY ReadHeaderCases
  <2> HIDE DEF minus, d1
  <2>3. QED
    BY <1>3, <2>1, <2>2
<1>5. ReadLine(After(d1), plus) = After(d2)
  <2> HIDE DEF d1, After
  <2>1. ReadLine(After(d1), plus) = [After(d1) EXCEPT !.draft = ReadHeader(@, plus)]
    BY ReadHeaderLine DEF HeaderKinds
  <2>2. ReadHeader(d1, plus) = d2
    BY ReadHeaderCases
  <2> HIDE DEF plus, d2
  <2>3. QED
    BY <2>1, <2>2 DEF After
<1>6. ReadLine(After(d2), at) =
        [files |-> s.files, draft |-> d2,
         hunk |-> [old |-> start.old, new |-> start.new, lines |-> <<>>,
                   oldNext |-> start.old, newNext |-> start.new]]
  <2> HIDE DEF d2, After
  <2>1. ReadLine(After(d2), at) = ReadHunkHeader(After(d2), start)
    BY ReadHunkLine
  <2>2. FlushHunk(After(d2)) = After(d2)
    BY DEF FlushHunk, After
  <2>3. QED
    BY <2>1, <2>2 DEF ReadHunkHeader, After
<1>7. QED
  BY <1>1, <1>2, <1>4, <1>5, <1>6

\* and before any other the hunk that is open is finished.
LEMMA NextHunkRead ==
  ASSUME NEW s \in Parses, s.draft # None, s.hunk # None, NEW f, f.hunks # <<>>, NEW start
  PROVE  ReadLines(s, FirstHunkLines(f) \o <<Line("@@", start)>>)
           = [files |-> s.files, draft |-> FlushHunk(s).draft,
              hunk |-> [old |-> start.old, new |-> start.new, lines |-> <<>>,
                        oldNext |-> start.old, newNext |-> start.new]]
<1> DEFINE at == Line("@@", start)
           t == FlushHunk(s)
<1>1. FirstHunkLines(f) \o <<at>> = <<at>>
  <2>1. FirstHunkLines(f) = <<>>
    BY DEF FirstHunkLines
  <2> HIDE DEF at
  <2>2. QED
    BY <2>1, Joined01
<1>2. ReadLines(s, <<at>>) = ReadHunkHeader(s, start)
  BY ReadOne, ReadHunkLine
<1>3. t \in Parses /\ t.files = s.files
  BY FlushTypes
<1>4. ReadHunkHeader(s, start) =
        [t EXCEPT !.hunk = [old |-> start.old, new |-> start.new, lines |-> <<>>,
                            oldNext |-> start.old, newNext |-> start.new]]
  BY DEF ReadHunkHeader
<1> HIDE DEF t, at
<1>5. QED
  BY <1>1, <1>2, <1>3, <1>4 DEF Parses, t, at

\* The next hunk of a file.
LEMMA WriteHunkStep ==
  ASSUME ParserInv, WriteHunk
  PROVE  ParserInv'
<1> DEFINE n == Len(written)
           f == Current
           k == Len(f.hunks)
           before == IF f.hunks = <<>> THEN [old |-> 0, new |-> 0, lines |-> <<>>]
                     ELSE f.hunks[k]
           Behind(start, gone) == start + 5 + Before(before, Len(before.lines) + 1, gone)
           h == IF f.old = None THEN [old |-> 0, new |-> 1, lines |-> <<>>]
                ELSE IF f.new = None THEN [old |-> 1, new |-> 0, lines |-> <<>>]
                ELSE [old |-> Behind(before.old, "add"), new |-> Behind(before.new, "del"),
                      lines |-> <<>>]
           g == [f EXCEPT !.hunks = Append(@, h)]
           start == [old |-> h.old, new |-> h.new]
           open == [old |-> h.old, new |-> h.new, lines |-> <<>>,
                    oldNext |-> h.old, newNext |-> h.new]
<1>1. /\ ~ended /\ ended' = ended /\ written # <<>>
      /\ written' = [written EXCEPT ![n].hunks = Append(@, h)]
      /\ parsed' = ReadLines(parsed, FirstHunkLines(f) \o <<Line("@@", start)>>)
  BY DEF WriteHunk, Reading
<1>2. /\ written \in Seq(WrittenFiles) /\ n \in 1 .. n /\ f = written[n] /\ Changed(f)
      /\ f \in WrittenFiles /\ parsed \in Parses
  BY <1>1, StateFacts
<1>3. h \in WrittenHunks /\ h.lines = <<>>
  <2>1. before.old \in Nat /\ before.new \in Nat /\ Len(before.lines) \in Nat
    <3>1. CASE f.hunks = <<>>
      BY <3>1
    <3>2. CASE f.hunks # <<>>
      <4>1. f.hunks[k] \in WrittenHunks
        BY <1>2, <3>2 DEF WrittenFiles
      <4>2. QED
        BY <3>2, <4>1 DEF WrittenHunks
    <3>3. QED
      BY <3>1, <3>2
  <2> HIDE DEF before
  <2>2. Behind(before.old, "add") \in Nat /\ Behind(before.new, "del") \in Nat
    <3>1. PICK m \in Nat \ {0} : m = Len(before.lines) + 1
      BY <2>1
    <3>2. Before(before, m, "add") \in Nat /\ Before(before, m, "del") \in Nat
      BY BeforeType
    <3>3. QED
      BY <2>1, <3>1, <3>2
  <2>3. <<>> \in Seq(WrittenLines)
    OBVIOUS
  <2> HIDE DEF Behind
  <2>4. QED
    BY <2>2, <2>3 DEF WrittenHunks
<1> HIDE DEF h
<1>4. HunkAdded(f, g, h)
  <2> HIDE DEF f
  <2>1. QED
    BY <1>2, <1>3, HunkIsAdded
<1>5. written' = [written EXCEPT ![n] = g]
  BY <1>1, <1>2
<1>6. /\ SameFile(f, g) /\ g.hunks # <<>> /\ Changed(g) /\ g.hunks[Len(g.hunks)] = h
  <2> HIDE DEF f, g
  <2>1. QED
    BY <1>2, <1>4, StaysChanged DEF HunkAdded
<1>7. open = HunkOf(h) /\ open \in OpenHunks /\ open # None
  BY <1>3, HunkOfNew, HunkOfType, UnifiedDiffAssumption
<1>8. DraftOf(g) \in Drafts
  BY <1>6, DraftOfType
<1>9. /\ parsed.draft \in Drafts /\ parsed.draft # None
      /\ parsed.hunk = None <=> f.hunks = <<>>
      /\ ~Mimicked(f) =>
              /\ parsed.draft = DraftOf(f)
              /\ f.hunks # <<>> => parsed.hunk = HunkOf(f.hunks[k])
  BY <1>1, FileFacts
<1>10. \E d \in Drafts :
         /\ parsed' = [files |-> parsed.files, draft |-> d, hunk |-> open]
         /\ ~Mimicked(g) => d = DraftOf(g)
  <2>1. CASE f.hunks = <<>>
    <3> DEFINE d == [[parsed.draft EXCEPT !.old = f.old] EXCEPT !.new = f.new]
    <3>1. parsed' = [files |-> parsed.files, draft |-> d, hunk |-> open]
      <4> HIDE DEF f
      <4>1. start.old = h.old /\ start.new = h.new
        OBVIOUS
      <4> HIDE DEF start
      <4>2. ReadLines(parsed, FirstHunkLines(f) \o <<Line("@@", start)>>)
              = [files |-> parsed.files, draft |-> d,
                 hunk |-> [old |-> start.old, new |-> start.new, lines |-> <<>>,
                           oldNext |-> start.old, newNext |-> start.new]]
        BY <1>2, <1>9, <2>1, FirstHunkRead
      <4>3. QED
        BY <1>1, <4>1, <4>2
    <3>2. f.old \in Paths \cup {None} /\ f.new \in Paths \cup {None}
      BY <1>2 DEF WrittenFiles
    <3>3. /\ d \in Drafts /\ d.old = f.old /\ d.new = f.new
          /\ d.names = parsed.draft.names /\ d.oldMode = parsed.draft.oldMode
          /\ d.newMode = parsed.draft.newMode /\ d.similarity = parsed.draft.similarity
          /\ d.isBinary = parsed.draft.isBinary /\ d.isRename = parsed.draft.isRename
          /\ d.isNewFile = parsed.draft.isNewFile
          /\ d.isDeletedFile = parsed.draft.isDeletedFile
          /\ d.hunks = parsed.draft.hunks
      BY <1>9, <3>2 DEF Drafts
    <3>4. parsed.draft = DraftOf(f)
      BY <1>9, <2>1, NoHunkNoMimic
    <3>5. DraftOf(f).hunks = <<>> /\ MeantHunks(f) = <<>>
      BY <1>2, <2>1, DraftOfType DEF MeantHunks
    <3> HIDE DEF d, f, g
    <3>6. d = DraftOf(g)
      BY <1>4, <1>8, <3>3, <3>4, <3>5, DraftGrows, DraftEqual
    <3>7. QED
      BY <3>1, <3>3, <3>6
  <2>2. CASE f.hunks # <<>>
    <3> DEFINE d == FlushHunk(parsed).draft
    <3>1. parsed' = [files |-> parsed.files, draft |-> d, hunk |-> open]
      <4> HIDE DEF f
      <4>1. QED
        BY <1>1, <1>2, <1>9, <2>2, NextHunkRead
    <3>2. d \in Drafts
      BY <1>2, <1>9, FlushTypes DEF Parses
    <3>3. ASSUME ~Mimicked(g)
          PROVE  d = DraftOf(g)
      <4>1. ~Mimicked(f)
        <5> HIDE DEF f, g
        <5>1. QED
          BY <1>4, <3>3, NotMimickedBefore
      <4>2. Finished(d, f)
        <5> HIDE DEF f, d
        <5>1. QED
          BY <1>2, <1>9, <2>2, <4>1, FlushedFinished DEF d
      <4>3. DraftOf(f).old = f.old /\ DraftOf(f).new = f.new
        <5> HIDE DEF f, g
        <5>1. QED
          BY <1>4, <2>2, DraftGrows
      <4> HIDE DEF f, g, d
      <4>4. QED
        BY <1>4, <1>8, <3>2, <4>2, <4>3, DraftGrows, DraftEqual DEF Finished
    <3> HIDE DEF d
    <3>4. QED
      BY <3>1, <3>2, <3>3
  <2>3. QED
    BY <2>1, <2>2
<1>11. /\ parsed' \in Parses /\ parsed'.files = parsed.files /\ parsed'.draft # None
       /\ parsed'.hunk # None
       /\ ~Mimicked(g) => /\ parsed'.draft = DraftOf(g)
                          /\ parsed'.hunk = HunkOf(g.hunks[Len(g.hunks)])
  <2>1. PICK d \in Drafts :
         /\ parsed' = [files |-> parsed.files, draft |-> d, hunk |-> open]
         /\ ~Mimicked(g) => d = DraftOf(g)
    BY <1>10
  <2> HIDE DEF g, f, open
  <2>2. d # None
    BY UnifiedDiffAssumption
  <2>3. QED
    BY <1>2, <1>6, <1>7, <2>1, <2>2 DEF Parses
<1>12. QED
  <2> HIDE DEF g
  <2>1. QED
    BY <1>1, <1>5, <1>6, <1>11, StepInFile

\* Whatever git writes next.
LEMMA ParserStep ==
  ASSUME ParserInv, [Next]_vars
  PROVE  ParserInv'
<1>1. CASE UNCHANGED vars
  BY <1>1 DEF vars, ParserInv, ParserType, FilesInv, DraftInv, Current
<1>2. CASE Next
  BY <1>2, WriteFileStep, WriteHunkStep, WriteLineStep, WriteNoNewlineStep, EndStep DEF Next
<1>3. QED
  BY <1>1, <1>2

\* Nothing has been written or read.
LEMMA ParserInit == Init => ParserInv
<1> SUFFICES ASSUME Init PROVE ParserInv
  OBVIOUS
<1>1. /\ written = <<>> /\ parsed = [files |-> <<>>, draft |-> None, hunk |-> None]
      /\ ended = FALSE
  BY DEF Init, NoParse
<1>2. ParserType
  <2>1. <<>> \in Seq(WrittenFiles) /\ <<>> \in Seq(DiffFiles)
    OBVIOUS
  <2>2. parsed \in Parses
    BY <1>1, <2>1 DEF Parses
  <2>3. 1 .. Len(written) = {}
    BY <1>1
  <2>4. QED
    BY <1>1, <2>1, <2>2, <2>3 DEF ParserType
<1>3. QED
  BY <1>1, <1>2 DEF ParserInv, FilesInv, DraftInv

\* The page only shows the diff: it takes no part in the parsing.
LEMMA DiffUnderPage == ReviewSpec => Spec
<1>1. ReviewInit => Init
  BY DEF ReviewInit
<1>2. [ReviewNext]_rvars => [Next]_vars
  <2>1. PageNext => UNCHANGED vars
    BY DEF PageNext, NextReview, Reload, RenderReview, SwitchTab, RerenderFilesPanel,
       PressV, PressJ, PressK, Focus, ClickBox, MarkViewed
  <2>2. QED
    BY <2>1 DEF ReviewNext, rvars
<1>3. QED
  BY <1>1, <1>2, PTL DEF ReviewSpec, Spec

\* The inductive invariant of the parser: its types, that the finished files are as git
\* meant them, and what the draft and the open hunk are in the middle of a file.
THEOREM ParserInvariance == ReviewSpec => []ParserInv
<1>1. QED
  BY DiffUnderPage, ParserInit, ParserStep, PTL DEF Spec

\* Whatever git writes and however much of it has been read, every file that
\* parseUnifiedDiff returns is what git meant, unless one of its lines looks like a
\* file header.
THEOREM ParserIsFaithful == ReviewSpec => []ParsedAsWritten
<1>1. QED
  BY ParserInvariance, InvFaithful, PTL

-----------------------------------------------------------------------------
(* Loops that push.                                                        *)

\* The order in which a loop ends: its body takes it to a smaller place.
Descends(places, piece, next, size) ==
  /\ DOMAIN piece \subseteq places
  /\ \A p \in places : size[p] \in Nat
  /\ \A p \in DOMAIN piece : next[p] \in places /\ size[next[p]] < size[p]

\* What the loop pushes from each place on.
Pushes(places, piece, next, out) ==
  out = [p \in places |-> IF p \in DOMAIN piece THEN piece[p] \o out[next[p]] ELSE <<>>]

\* What is pushed from the places that are smaller than n on,
PushesBelow(places, piece, next, size, n, out) ==
  Pushes({p \in places : size[p] < n}, piece, next, out)

\* The loop can be followed from every place that is small enough.
LEMMA PushesExist ==
  ASSUME NEW places, NEW piece, NEW next, NEW size, Descends(places, piece, next, size),
         NEW n \in Nat
  PROVE  \E out : PushesBelow(places, piece, next, size, n, out)
<1> DEFINE S == {m \in Nat : \E out : PushesBelow(places, piece, next, size, m, out)}
<1>0. /\ \A p \in places : size[p] \in Nat
      /\ \A p \in DOMAIN piece : p \in places /\ next[p] \in places /\ size[next[p]] < size[p]
  BY DEF Descends
<1>1. 0 \in S
  <2>1. {p \in places : size[p] < 0} = {}
    BY <1>0
  <2>2. PushesBelow(places, piece, next, size, 0, [p \in {} |-> <<>>])
    BY <2>1 DEF PushesBelow, Pushes
  <2>3. QED
    BY <2>2
<1>2. ASSUME NEW m \in Nat, m \in S
      PROVE  m + 1 \in S
  <2> DEFINE D == {p \in places : size[p] < m}
             E == {p \in places : size[p] < m + 1}
  <2>1. PICK g : Pushes(D, piece, next, g)
    BY <1>2 DEF PushesBelow
  <2> DEFINE Next1(p) == IF p \in DOMAIN piece THEN piece[p] \o g[next[p]] ELSE <<>>
             h == [p \in E |-> Next1(p)]
  <2>2. \A p \in D : g[p] = Next1(p)
    BY <2>1 DEF Pushes
  <2>3. D \subseteq E /\ \A p \in E : p \in DOMAIN piece => next[p] \in D
    <3>1. \A p \in E : p \in DOMAIN piece => next[p] \in places /\ size[next[p]] < size[p] /\ size[next[p]] \in Nat /\ size[p] \in Nat
      BY <1>0
    <3>2. QED
      BY <1>0, <3>1
  <2> HIDE DEF D, E, Next1
  <2>4. \A p \in D : h[p] = g[p]
    BY <2>2, <2>3
  <2>5. ASSUME NEW p \in E
        PROVE  h[p] = IF p \in DOMAIN piece THEN piece[p] \o h[next[p]] ELSE <<>>
    <3>1. h[p] = Next1(p)
      OBVIOUS
    <3>2. p \in DOMAIN piece => h[next[p]] = g[next[p]]
      BY <2>3, <2>4
    <3> HIDE DEF h
    <3>3. QED
      BY <3>1, <3>2 DEF Next1
  <2>6. Pushes(E, piece, next, h)
    <3>1. h = [p \in E |-> h[p]]
      OBVIOUS
    <3> HIDE DEF h
    <3>2. QED
      BY <2>5, <3>1 DEF Pushes
  <2>7. QED
    BY <2>6 DEF PushesBelow, E
<1>3. QED
  <2> HIDE DEF S
  <2>1. n \in S
    BY <1>1, <1>2, NatSetInduction
  <2>2. QED
    BY <2>1 DEF S

\* So what it pushes is what its body pushes, and what it pushes from the next place on.
LEMMA PushedUnfolds ==
  ASSUME NEW places, NEW piece, NEW next, NEW size, Descends(places, piece, next, size),
         NEW n \in Nat, \A p \in places : size[p] < n,
         NEW start \in places
  PROVE  Pushed(places, piece, next, start) =
           IF start \in DOMAIN piece
           THEN piece[start] \o Pushed(places, piece, next, next[start]) ELSE <<>>
<1>1. {p \in places : size[p] < n} = places
  OBVIOUS
<1>2. \E out : Pushes(places, piece, next, out)
  BY <1>1, PushesExist DEF PushesBelow
<1> DEFINE out == CHOOSE out : Pushes(places, piece, next, out)
<1>3. Pushes(places, piece, next, out)
  BY <1>2
<1>4. \A p : Pushed(places, piece, next, p) = out[p]
  BY DEF Pushed, Pushes
<1>5. out[start] = IF start \in DOMAIN piece THEN piece[start] \o out[next[start]] ELSE <<>>
  <2> HIDE DEF out
  <2>1. QED
    BY <1>3 DEF Pushes
<1> HIDE DEF out
<1>6. /\ Pushed(places, piece, next, start) = out[start]
      /\ Pushed(places, piece, next, next[start]) = out[next[start]]
  BY <1>4
<1>7. QED
  BY <1>5, <1>6

\* The least of some naturals.
LEMMA LeastNat ==
  ASSUME NEW S, S \subseteq Nat, S # {}
  PROVE  \E x \in S : \A y \in S : x <= y
<1>1. PICK x \in S : \A y \in S : ~(<<y, x>> \in Below)
  BY WFMin, BelowWellFounded
<1>2. \A y \in S : ~(y < x)
  BY <1>1 DEF Below
<1>3. QED
  BY <1>2

\* Where a run of lines ends.
LEMMA RunEndIs ==
  ASSUME NEW lines, Len(lines) \in Nat, NEW i \in 1 .. Len(lines) + 1, NEW type
  PROVE  /\ RunEnd(lines, i, type) \in i .. Len(lines) + 1
         /\ \A j \in i .. RunEnd(lines, i, type) - 1 : lines[j].type = type
         /\ RunEnd(lines, i, type) = Len(lines) + 1 \/ lines[RunEnd(lines, i, type)].type # type
<1> DEFINE n == Len(lines)
           S == {e \in i .. n + 1 : e = n + 1 \/ lines[e].type # type}
<1>1. n + 1 \in S /\ S \subseteq Nat
  OBVIOUS
<1>2. PICK e \in S : \A f \in S : e <= f
  BY <1>1, LeastNat
<1>3. \A j \in i .. e - 1 : lines[j].type = type
  <2>1. \A j \in i .. e - 1 : j \in i .. n + 1 /\ ~(e <= j) /\ j # n + 1
    BY <1>2
  <2>2. QED
    BY <1>2, <2>1
<1>4. \E x \in i .. Len(lines) + 1 :
         /\ \A j \in i .. x - 1 : lines[j].type = type
         /\ x = Len(lines) + 1 \/ lines[x].type # type
  BY <1>2, <1>3
<1>5. QED
  BY <1>4 DEF RunEnd

\* A line is in the run of its type.
LEMMA RunNotEmpty ==
  ASSUME NEW lines, Len(lines) \in Nat, NEW i \in 1 .. Len(lines)
  PROVE  RunEnd(lines, i, lines[i].type) > i
<1>1. RunEnd(lines, i, lines[i].type) \in i .. Len(lines) + 1
      /\ (RunEnd(lines, i, lines[i].type) = Len(lines) + 1
            \/ lines[RunEnd(lines, i, lines[i].type)].type # lines[i].type)
  BY RunEndIs
<1>2. QED
  BY <1>1

\* The run of deleted lines from i to mid, and that of added lines behind it.
IsRun(lines, i, mid, end) ==
  /\ mid \in i + 1 .. Len(lines) + 1 /\ end \in mid .. Len(lines) + 1
  /\ \A j \in i .. mid - 1 : lines[j].type = "del"
  /\ \A j \in mid .. end - 1 : lines[j].type = "add"

\* RunEnd finds the two.
LEMMA RunIs ==
  ASSUME NEW lines, Len(lines) \in Nat, NEW i \in 1 .. Len(lines), lines[i].type = "del"
  PROVE  IsRun(lines, i, RunEnd(lines, i, "del"), RunEnd(lines, RunEnd(lines, i, "del"), "add"))
<1> DEFINE mid == RunEnd(lines, i, "del")
           end == RunEnd(lines, mid, "add")
<1>1. mid \in i .. Len(lines) + 1 /\ mid > i /\ \A j \in i .. mid - 1 : lines[j].type = "del"
  BY RunEndIs, RunNotEmpty
<1> HIDE DEF mid
<1>2. mid \in 1 .. Len(lines) + 1
  BY <1>1
<1>3. end \in mid .. Len(lines) + 1 /\ \A j \in mid .. end - 1 : lines[j].type = "add"
  BY <1>2, RunEndIs
<1> HIDE DEF end
<1>4. QED
  BY <1>1, <1>3 DEF IsRun, mid, end

\* The loop over a hunk goes on towards its end.
LEMMA NextRunIs ==
  ASSUME NEW lines, Len(lines) \in Nat, NEW i \in 1 .. Len(lines)
  PROVE  NextRun(lines, i) \in i + 1 .. Len(lines) + 1
<1>1. CASE lines[i].type = "del"
  BY <1>1, RunIs DEF NextRun, IsRun
<1>2. CASE lines[i].type # "del"
  BY <1>2 DEF NextRun
<1>3. QED
  BY <1>1, <1>2

\* What the loop over a hunk makes of its lines from i on.
RunFrom(lines, piece, i) ==
  Pushed(1 .. Len(lines) + 1, piece, [k \in 1 .. Len(lines) |-> NextRun(lines, k)], i)

\* It is what its body makes of the run at i, and what it makes of the rest.
LEMMA RunFromUnfolds ==
  ASSUME NEW lines, Len(lines) \in Nat, NEW piece, DOMAIN piece = 1 .. Len(lines)
  PROVE  /\ RunByRun(lines, piece) = RunFrom(lines, piece, 1)
         /\ RunFrom(lines, piece, Len(lines) + 1) = <<>>
         /\ \A i \in 1 .. Len(lines) :
              RunFrom(lines, piece, i) = piece[i] \o RunFrom(lines, piece, NextRun(lines, i))
<1> DEFINE n == Len(lines)
           places == 1 .. n + 1
           next == [k \in 1 .. n |-> NextRun(lines, k)]
           size == [p \in places |-> n + 1 - p]
<1>1. \A p \in places : size[p] \in Nat /\ size[p] < n + 2
  OBVIOUS
<1>2. \A p \in 1 .. n : p \in places /\ next[p] = NextRun(lines, p) /\ next[p] \in places
                        /\ size[next[p]] < size[p]
  BY NextRunIs
<1>3. Descends(places, piece, next, size)
  BY <1>1, <1>2 DEF Descends
<1> HIDE DEF places, next, size
<1>4. \A start \in places :
        Pushed(places, piece, next, start) =
           IF start \in DOMAIN piece
           THEN piece[start] \o Pushed(places, piece, next, next[start]) ELSE <<>>
  <2> TAKE start \in places
  <2>1. n + 2 \in Nat
    OBVIOUS
  <2>2. QED
    BY <1>1, <1>3, <2>1, PushedUnfolds
<1>5. n + 1 \in places /\ n + 1 \notin 1 .. n
  BY DEF places
<1>6. \A p : RunFrom(lines, piece, p) = Pushed(places, piece, next, p)
  BY DEF RunFrom, places, next
<1>7. RunFrom(lines, piece, n + 1) = <<>>
  BY <1>4, <1>5, <1>6
<1>8. ASSUME NEW i \in 1 .. n
      PROVE  RunFrom(lines, piece, i) = piece[i] \o RunFrom(lines, piece, NextRun(lines, i))
  BY <1>2, <1>4, <1>6
<1>9. QED
  BY <1>7, <1>8 DEF RunByRun, RunFrom

-----------------------------------------------------------------------------
(* The split view.                                                         *)

\* The smaller and the larger of two numbers.
LEMMA MinMax ==
  /\ \A a, b \in Int : Min({a, b}) \in {a, b} /\ Min({a, b}) <= a /\ Min({a, b}) <= b
  /\ \A a, b \in Int : Max({a, b}) \in {a, b} /\ Max({a, b}) >= a /\ Max({a, b}) >= b
<1>1. ASSUME NEW a \in Int, NEW b \in Int
      PROVE  \E x \in {a, b} : \A y \in {a, b} : x <= y
  BY <1>1
<1>2. ASSUME NEW a \in Int, NEW b \in Int
      PROVE  \E x \in {a, b} : \A y \in {a, b} : x >= y
  BY <1>2
<1>3. ASSUME NEW a \in Int, NEW b \in Int
      PROVE  Min({a, b}) \in {a, b} /\ \A y \in {a, b} : Min({a, b}) <= y
  BY <1>1, <1>3 DEF Min
<1>4. ASSUME NEW a \in Int, NEW b \in Int
      PROVE  Max({a, b}) \in {a, b} /\ \A y \in {a, b} : Max({a, b}) >= y
  BY <1>2, <1>4 DEF Max
<1>5. QED
  BY <1>3, <1>4

\* Rows of the split view.
Rows == [left : Nat \cup {None}, right : Nat \cup {None}]

\* What Shows says of one side,
SideShows(lines, rows, i, n, side) ==
  /\ \A x \in 1 .. Len(rows) :
       rows[x][side] # None =>
         /\ rows[x][side] \in i .. n - 1
         /\ lines[rows[x][side]].type \in Sides[side]
         /\ lines[rows[x][side]].type = "context" => rows[x].left = rows[x].right
         /\ \A y \in x + 1 .. Len(rows) : rows[y][side] # None => rows[x][side] < rows[y][side]
  /\ \A j \in i .. n - 1 :
       lines[j].type \in Sides[side] => \E x \in 1 .. Len(rows) : rows[x][side] = j

\* and of a row.
NoneBlank(rows) == \A x \in 1 .. Len(rows) : rows[x].left # None \/ rows[x].right # None

\* So Shows is what it says of either side, and that no row is blank.
LEMMA ShowsBySide ==
  ASSUME NEW lines, NEW rows, NEW i, NEW n
  PROVE  Shows(lines, rows, i, n) <=>
           /\ SideShows(lines, rows, i, n, "left") /\ SideShows(lines, rows, i, n, "right")
           /\ NoneBlank(rows)
<1>1. DOMAIN Sides = {"left", "right"}
  BY DEF Sides
<1>2. Shows(lines, rows, i, n) <=>
         /\ \A side \in {"left", "right"} : SideShows(lines, rows, i, n, side)
         /\ NoneBlank(rows)
  BY <1>1 DEF Shows, SideShows, NoneBlank
<1>3. QED
  BY <1>2

\* Rows that show a stretch of lines, and rows that show the next one, show both,
LEMMA SideShowsJoin ==
  ASSUME NEW lines, NEW i \in Nat, NEW m \in Nat, NEW n \in Nat, i <= m, m <= n,
         NEW r \in Seq(Rows), NEW s \in Seq(Rows), NEW side \in {"left", "right"},
         SideShows(lines, r, i, m, side), SideShows(lines, s, m, n, side)
  PROVE  SideShows(lines, r \o s, i, n, side)
<1> DEFINE t == r \o s
           a == Len(r)
           b == Len(s)
<1>1. /\ a \in Nat /\ b \in Nat /\ Len(t) = a + b /\ t \in Seq(Rows)
      /\ \A x \in 1 .. a : t[x] = r[x]
      /\ \A x \in a + 1 .. a + b : x - a \in 1 .. b /\ t[x] = s[x - a]
      /\ \A x \in 1 .. b : x + a \in a + 1 .. a + b /\ t[x + a] = s[x]
  <2>1. \A x \in 1 .. b : x + a \in a + 1 .. a + b /\ x + a - a = x
    OBVIOUS
  <2>2. QED
    BY <2>1, ConcatProperties
<1> HIDE DEF t
<1>2. ASSUME NEW x \in 1 .. a + b, t[x][side] # None
      PROVE  /\ t[x][side] \in i .. n - 1
             /\ lines[t[x][side]].type \in Sides[side]
             /\ lines[t[x][side]].type = "context" => t[x].left = t[x].right
             /\ \A y \in x + 1 .. a + b : t[y][side] # None => t[x][side] < t[y][side]
  <2>1. CASE x \in 1 .. a
    <3>1. r[x][side] # None /\ t[x] = r[x]
      BY <1>1, <1>2, <2>1
    <3>2. /\ r[x][side] \in i .. m - 1
          /\ lines[r[x][side]].type \in Sides[side]
          /\ lines[r[x][side]].type = "context" => r[x].left = r[x].right
          /\ \A y \in x + 1 .. a : r[y][side] # None => r[x][side] < r[y][side]
      BY <2>1, <3>1 DEF SideShows
    <3>3. ASSUME NEW y \in x + 1 .. a + b, t[y][side] # None
          PROVE  t[x][side] < t[y][side]
      <4>1. CASE y \in x + 1 .. a
        <5>1. t[y] = r[y]
          BY <1>1, <2>1, <4>1
        <5>2. QED
          BY <3>1, <3>2, <3>3, <4>1, <5>1
      <4>2. CASE y \in a + 1 .. a + b
        <5>1. t[y] = s[y - a] /\ y - a \in 1 .. b
          BY <1>1, <4>2
        <5>2. s[y - a][side] \in m .. n - 1
          BY <3>3, <5>1 DEF SideShows
        <5>3. r[x][side] \in i .. m - 1 /\ t[x][side] = r[x][side] /\ t[y][side] = s[y - a][side]
          BY <3>1, <3>2, <5>1
        <5>4. t[x][side] \in i .. m - 1 /\ t[y][side] \in m .. n - 1
          BY <5>2, <5>3
        <5>5. \A p \in i .. m - 1, q \in m .. n - 1 : p < q
          OBVIOUS
        <5>6. QED
          BY <5>4, <5>5
      <4>3. QED
        BY <1>1, <2>1, <4>1, <4>2
    <3>4. QED
      BY <3>1, <3>2, <3>3
  <2>2. CASE x \in a + 1 .. a + b
    <3>1. s[x - a][side] # None /\ t[x] = s[x - a] /\ x - a \in 1 .. b
      BY <1>1, <1>2, <2>2
    <3>2. /\ s[x - a][side] \in m .. n - 1
          /\ lines[s[x - a][side]].type \in Sides[side]
          /\ lines[s[x - a][side]].type = "context" => s[x - a].left = s[x - a].right
          /\ \A y \in x - a + 1 .. b : s[y][side] # None => s[x - a][side] < s[y][side]
      BY <3>1 DEF SideShows
    <3>3. ASSUME NEW y \in x + 1 .. a + b, t[y][side] # None
          PROVE  t[x][side] < t[y][side]
      <4>1. y \in a + 1 .. a + b /\ y - a \in x - a + 1 .. b
        BY <1>1, <2>2
      <4>2. t[y] = s[y - a]
        BY <1>1, <4>1
      <4>3. QED
        BY <3>1, <3>2, <3>3, <4>1, <4>2
    <3>4. QED
      BY <3>1, <3>2, <3>3
  <2>3. QED
    BY <1>1, <2>1, <2>2
<1>3. ASSUME NEW j \in i .. n - 1, lines[j].type \in Sides[side]
      PROVE  \E x \in 1 .. a + b : t[x][side] = j
  <2>1. CASE j \in i .. m - 1
    <3>1. PICK x \in 1 .. a : r[x][side] = j
      BY <1>3, <2>1 DEF SideShows
    <3>2. QED
      BY <1>1, <3>1
  <2>2. CASE j \in m .. n - 1
    <3>1. PICK x \in 1 .. b : s[x][side] = j
      BY <1>3, <2>2 DEF SideShows
    <3>2. x + a \in 1 .. a + b /\ t[x + a] = s[x]
      BY <1>1
    <3>3. QED
      BY <3>1, <3>2
  <2>3. QED
    BY <2>1, <2>2
<1>4. QED
  BY <1>1, <1>2, <1>3 DEF SideShows, t

\* on both sides.
LEMMA ShowsJoin ==
  ASSUME NEW lines, NEW i \in Nat, NEW m \in Nat, NEW n \in Nat, i <= m, m <= n,
         NEW r \in Seq(Rows), NEW s \in Seq(Rows),
         Shows(lines, r, i, m), Shows(lines, s, m, n)
  PROVE  r \o s \in Seq(Rows) /\ Shows(lines, r \o s, i, n)
<1>1. NoneBlank(r) /\ NoneBlank(s)
  BY ShowsBySide
<1>2. NoneBlank(r \o s)
  <2> DEFINE t == r \o s
  <2>1. /\ Len(r) \in Nat /\ Len(s) \in Nat /\ Len(t) = Len(r) + Len(s)
        /\ \A x \in 1 .. Len(r) : t[x] = r[x]
        /\ \A x \in Len(r) + 1 .. Len(r) + Len(s) :
             x - Len(r) \in 1 .. Len(s) /\ t[x] = s[x - Len(r)]
    BY ConcatProperties
  <2> HIDE DEF t
  <2>2. QED
    BY <1>1, <2>1 DEF NoneBlank, t
<1>3. /\ SideShows(lines, r, i, m, "left") /\ SideShows(lines, s, m, n, "left")
      /\ SideShows(lines, r, i, m, "right") /\ SideShows(lines, s, m, n, "right")
  BY ShowsBySide
<1>4. SideShows(lines, r \o s, i, n, "left") /\ SideShows(lines, r \o s, i, n, "right")
  BY <1>3, SideShowsJoin
<1>5. QED
  BY <1>2, <1>4, ShowsBySide

\* The heart of the argument: a run of deleted lines and the run of added lines beside
\* it are shown by as many rows as the longer one has lines.
LEMMA RowsAtShows ==
  ASSUME NEW lines \in Seq(DiffLines), NEW i \in 1 .. Len(lines)
  PROVE  RowsAt(lines, i) \in Seq(Rows) /\ Shows(lines, RowsAt(lines, i), i, NextRun(lines, i))
<1>0. /\ Len(lines) \in Nat /\ DOMAIN lines = 1 .. Len(lines)
      /\ \A j \in 1 .. Len(lines) : lines[j].type \in {"context", "add", "del"}
      /\ None \notin Nat
  <2>1. \A j \in 1 .. Len(lines) : lines[j] \in DiffLines
    OBVIOUS
  <2>2. \A l \in DiffLines : l.type \in {"context", "add", "del"}
    BY DEF DiffLines, Types
  <2>3. None \notin Nat
    BY UnifiedDiffAssumption
  <2>4. QED
    BY <2>1, <2>2, <2>3
<1>1. CASE lines[i].type = "context"
  <2> DEFINE rows == <<[left |-> i, right |-> i]>>
  <2>1. RowsAt(lines, i) = rows /\ NextRun(lines, i) = i + 1
    BY <1>1 DEF RowsAt, NextRun
  <2>2. rows \in Seq(Rows) /\ Len(rows) = 1 /\ rows[1].left = i /\ rows[1].right = i
        /\ \A side \in {"left", "right"} : rows[1][side] = i
    BY <1>0 DEF Rows
  <2> HIDE DEF rows
  <2>3. Shows(lines, rows, i, i + 1)
    BY <1>0, <1>1, <2>2 DEF Shows, Sides
  <2>4. QED
    BY <2>1, <2>2, <2>3
<1>2. CASE lines[i].type = "add"
  <2> DEFINE rows == <<[left |-> None, right |-> i]>>
  <2>1. RowsAt(lines, i) = rows /\ NextRun(lines, i) = i + 1
    BY <1>2 DEF RowsAt, NextRun
  <2>2. rows \in Seq(Rows) /\ Len(rows) = 1 /\ rows[1].left = None /\ rows[1].right = i
    BY <1>0 DEF Rows
  <2> HIDE DEF rows
  <2>3. Shows(lines, rows, i, i + 1)
    BY <1>0, <1>2, <2>2 DEF Shows, Sides
  <2>4. QED
    BY <2>1, <2>2, <2>3
<1>3. CASE lines[i].type = "del"
  <2> DEFINE mid == RunEnd(lines, i, "del")
             end == RunEnd(lines, mid, "add")
             count == Max({mid - i, end - mid})
             rows == [k \in 1 .. count |-> [left |-> At(i + k - 1, mid), right |-> At(mid + k - 1, end)]]
  <2>1. RowsAt(lines, i) = rows /\ NextRun(lines, i) = end
    BY <1>3 DEF RowsAt, NextRun
  <2>2. IsRun(lines, i, mid, end)
    BY <1>0, <1>3, RunIs
  <2> HIDE DEF mid, end
  <2>3. /\ mid \in i + 1 .. Len(lines) + 1 /\ end \in mid .. Len(lines) + 1
        /\ \A j \in i .. mid - 1 : lines[j].type = "del"
        /\ \A j \in mid .. end - 1 : lines[j].type = "add"
    BY <2>2 DEF IsRun
  <2>4. count \in Nat /\ count >= mid - i /\ count >= end - mid /\ count \in {mid - i, end - mid}
    <3>1. mid - i \in Nat /\ end - mid \in Nat /\ mid - i \in Int /\ end - mid \in Int
      BY <2>3
    <3> HIDE DEF count
    <3>2. count \in {mid - i, end - mid} /\ count >= mid - i /\ count >= end - mid
      BY <3>1, MinMax DEF count
    <3>3. QED
      BY <3>1, <3>2
  <2> HIDE DEF count
  <2>5. \A k \in 1 .. count :
          /\ rows[k].left = IF i + k - 1 < mid THEN i + k - 1 ELSE None
          /\ rows[k].right = IF mid + k - 1 < end THEN mid + k - 1 ELSE None
          /\ rows[k] \in Rows
    <3>1. \A k \in 1 .. count : rows[k] = [left |-> At(i + k - 1, mid), right |-> At(mid + k - 1, end)]
      OBVIOUS
    <3> HIDE DEF rows
    <3>2. ASSUME NEW k \in 1 .. count
          PROVE  /\ At(i + k - 1, mid) = IF i + k - 1 < mid THEN i + k - 1 ELSE None
                 /\ At(mid + k - 1, end) = IF mid + k - 1 < end THEN mid + k - 1 ELSE None
                 /\ At(i + k - 1, mid) \in Nat \cup {None}
                 /\ At(mid + k - 1, end) \in Nat \cup {None}
      <4>1. i + k - 1 \in Nat /\ mid + k - 1 \in Nat
        BY <2>3, <2>4
      <4>2. QED
        BY <4>1 DEF At
    <3>3. ASSUME NEW k \in 1 .. count
          PROVE  rows[k] \in Rows
      <4>1. [left |-> At(i + k - 1, mid), right |-> At(mid + k - 1, end)] \in Rows
        BY <3>2 DEF Rows
      <4>2. QED
        BY <3>1, <4>1
    <3>4. ASSUME NEW k \in 1 .. count
          PROVE  rows[k].left = At(i + k - 1, mid) /\ rows[k].right = At(mid + k - 1, end)
      <4> DEFINE l == At(i + k - 1, mid)
                 r == At(mid + k - 1, end)
      <4>1. rows[k] = [left |-> l, right |-> r]
        BY <3>1
      <4> HIDE DEF l, r
      <4>2. rows[k].left = l /\ rows[k].right = r
        BY <4>1
      <4>3. QED
        BY <4>2 DEF l, r
    <3>5. QED
      BY <3>2, <3>3, <3>4
  <2>6. rows \in Seq(Rows) /\ Len(rows) = count
    <3>1. rows \in [1 .. count -> Rows]
      BY <2>5
    <3>2. QED
      BY <2>4, <3>1
  <2> HIDE DEF rows
  <2>7. SideShows(lines, rows, i, end, "left")
    <3>1. ASSUME NEW x \in 1 .. Len(rows), rows[x].left # None
          PROVE  /\ rows[x].left \in i .. end - 1
                 /\ lines[rows[x].left].type = "del"
                 /\ \A y \in x + 1 .. Len(rows) : rows[y].left # None => rows[x].left < rows[y].left
      <4>1. rows[x].left = i + x - 1 /\ i + x - 1 < mid /\ x \in 1 .. count
        BY <2>5, <2>6, <3>1
      <4>2. \A y \in x + 1 .. Len(rows) : rows[y].left # None => rows[y].left = i + y - 1
        BY <2>4, <2>5, <2>6
      <4>3. QED
        BY <2>3, <4>1, <4>2
    <3>2. ASSUME NEW j \in i .. end - 1, lines[j].type \in {"context", "del"}
          PROVE  \E x \in 1 .. Len(rows) : rows[x].left = j
      <4>1. j < mid
        BY <2>3, <3>2
      <4>2. j - i + 1 \in 1 .. count /\ i + (j - i + 1) - 1 = j
        BY <2>3, <2>4, <4>1
      <4>3. rows[j - i + 1].left = j
        BY <2>5, <4>1, <4>2
      <4>4. QED
        BY <2>6, <4>2, <4>3
    <3>3. QED
      BY <3>1, <3>2 DEF SideShows, Sides
  <2>8. SideShows(lines, rows, i, end, "right")
    <3>1. ASSUME NEW x \in 1 .. Len(rows), rows[x].right # None
          PROVE  /\ rows[x].right \in i .. end - 1
                 /\ lines[rows[x].right].type = "add"
                 /\ \A y \in x + 1 .. Len(rows) : rows[y].right # None => rows[x].right < rows[y].right
      <4>1. rows[x].right = mid + x - 1 /\ mid + x - 1 < end /\ x \in 1 .. count
        BY <2>5, <2>6, <3>1
      <4>2. \A y \in x + 1 .. Len(rows) : rows[y].right # None => rows[y].right = mid + y - 1
        BY <2>4, <2>5, <2>6
      <4>3. mid + x - 1 \in mid .. end - 1 /\ mid + x - 1 \in i .. end - 1
            /\ \A y \in x + 1 .. Len(rows) : mid + x - 1 < mid + y - 1
        BY <2>3, <2>4, <2>6, <4>1
      <4>4. lines[mid + x - 1].type = "add"
        BY <2>3, <4>3
      <4>5. QED
        BY <4>1, <4>2, <4>3, <4>4
    <3>2. ASSUME NEW j \in i .. end - 1, lines[j].type \in {"context", "add"}
          PROVE  \E x \in 1 .. Len(rows) : rows[x].right = j
      <4>1. j >= mid
        BY <2>3, <3>2
      <4> DEFINE x == j - mid + 1
      <4>2. x \in 1 .. count /\ mid + x - 1 = j /\ j < end
        BY <2>3, <2>4, <4>1
      <4> HIDE DEF x
      <4>3. rows[x].right = j
        BY <2>5, <4>2
      <4>4. QED
        BY <2>6, <4>2, <4>3
    <3>3. QED
      BY <3>1, <3>2 DEF SideShows, Sides
  <2>9. NoneBlank(rows)
    <3>1. ASSUME NEW x \in 1 .. Len(rows)
          PROVE  rows[x].left # None \/ rows[x].right # None
      <4>1. CASE i + x - 1 < mid
        BY <1>0, <2>3, <2>5, <2>6, <4>1
      <4>2. CASE mid + x - 1 < end
        BY <1>0, <2>3, <2>5, <2>6, <4>2
      <4>3. QED
        BY <2>3, <2>4, <2>6, <4>1, <4>2
    <3>2. QED
      BY <3>1 DEF NoneBlank
  <2>10. QED
    BY <2>1, <2>6, <2>7, <2>8, <2>9, ShowsBySide
<1>4. QED
  BY <1>0, <1>1, <1>2, <1>3

\* By induction from the end of the hunk backwards.
LEMMA SplitRowsShow ==
  ASSUME NEW lines \in Seq(DiffLines)
  PROVE  SplitRows(lines) \in Seq(Rows) /\ Shows(lines, SplitRows(lines), 1, Len(lines) + 1)
<1> DEFINE n == Len(lines)
           piece == [i \in 1 .. n |-> RowsAt(lines, i)]
           Good(i) == RunFrom(lines, piece, i) \in Seq(Rows)
                      /\ Shows(lines, RunFrom(lines, piece, i), i, n + 1)
           S == {k \in Nat : \A i \in 1 .. n + 1 : n + 1 - i <= k => Good(i)}
<1>0. n \in Nat
  OBVIOUS
<1>1. /\ RunByRun(lines, piece) = RunFrom(lines, piece, 1)
      /\ RunFrom(lines, piece, n + 1) = <<>>
      /\ \A i \in 1 .. n : RunFrom(lines, piece, i) = RowsAt(lines, i) \o RunFrom(lines, piece, NextRun(lines, i))
  BY <1>0, RunFromUnfolds
<1> HIDE DEF piece
<1>2. Good(n + 1)
  <2>1. <<>> \in Seq(Rows)
    OBVIOUS
  <2>2. Shows(lines, <<>>, n + 1, n + 1)
    BY <1>0 DEF Shows
  <2>3. QED
    BY <1>1, <2>1, <2>2
<1>3. 0 \in S
  <2>1. \A i \in 1 .. n + 1 : n + 1 - i <= 0 => i = n + 1
    BY <1>0
  <2> HIDE DEF Good
  <2>2. QED
    BY <1>2, <2>1
<1>4. ASSUME NEW k \in Nat, k \in S
      PROVE  k + 1 \in S
  <2>1. ASSUME NEW i \in 1 .. n, n + 1 - i <= k + 1
        PROVE  Good(i)
    <3> DEFINE m == NextRun(lines, i)
    <3>1. m \in i + 1 .. n + 1
      BY <1>0, NextRunIs
    <3>2. Good(m)
      <4> HIDE DEF Good, m
      <4>1. m \in 1 .. n + 1 /\ n + 1 - m <= k
        BY <1>0, <2>1, <3>1
      <4>2. QED
        BY <1>4, <4>1
    <3>3. RowsAt(lines, i) \in Seq(Rows) /\ Shows(lines, RowsAt(lines, i), i, m)
      BY RowsAtShows
    <3>4. RunFrom(lines, piece, i) = RowsAt(lines, i) \o RunFrom(lines, piece, m)
      BY <1>1
    <3> HIDE DEF m
    <3>5. i \in Nat /\ m \in Nat /\ n + 1 \in Nat /\ i <= m /\ m <= n + 1
      BY <1>0, <3>1
    <3>6. QED
      BY <3>2, <3>3, <3>4, <3>5, ShowsJoin
  <2>2. \A i \in 1 .. n + 1 : i = n + 1 \/ i \in 1 .. n
    BY <1>0
  <2> HIDE DEF Good
  <2>3. QED
    BY <1>2, <2>1, <2>2
<1>5. Good(1)
  <2> HIDE DEF Good
  <2>1. n \in S
    <3> HIDE DEF S
    <3>1. QED
      BY <1>0, <1>3, <1>4, NatSetInduction
  <2>2. QED
    BY <1>0, <2>1
<1>6. QED
  BY <1>1, <1>5 DEF SplitRows, piece

\* The hunks that the page is given are those of the parser.
LEMMA HunksTyped == ParserInv => Hunks \subseteq DiffHunks
<1> SUFFICES ASSUME ParserInv PROVE Hunks \subseteq DiffHunks
  OBVIOUS
<1>1. FlushDraft(Trimmed(parsed)) \in Parses
  BY TrimmedType, FlushTypes
<1>2. Files \in Seq(DiffFiles)
  BY <1>1 DEF Files, Parses
<1>3. ASSUME NEW i \in 1 .. Len(Files), NEW k \in 1 .. Len(Files[i].hunks)
      PROVE  Files[i].hunks[k] \in DiffHunks
  <2>1. Files[i] \in DiffFiles
    BY <1>2
  <2>2. Files[i].hunks \in Seq(DiffHunks)
    BY <2>1 DEF DiffFiles
  <2>3. QED
    BY <2>2
<1>4. QED
  BY <1>3 DEF Hunks

\* For every hunk that the parser may make, of any length, the split view shows each
\* line of each side once and in order, and each unchanged line beside itself.
THEOREM SplitIsComplete == ReviewSpec => []SplitShowsTheHunk
<1>1. ParserInv => SplitShowsTheHunk
  <2> SUFFICES ASSUME ParserInv, NEW h \in Hunks
               PROVE  Shows(h.lines, SplitRows(h.lines), 1, Len(h.lines) + 1)
    BY DEF SplitShowsTheHunk
  <2>1. h.lines \in Seq(DiffLines)
    BY HunksTyped DEF DiffHunks
  <2>2. QED
    BY <2>1, SplitRowsShow
<1>2. QED
  BY <1>1, ParserInvariance, PTL

-----------------------------------------------------------------------------
(* The highlighted words.                                                  *)

\* How far a pair of places is from the ends of the two texts.
Left(a, b) == [p \in Places(a, b) |-> (Len(a) + 1 - p[1]) + (Len(b) + 1 - p[2])]

\* What a pair of places is.
LEMMA PlacesAre ==
  ASSUME NEW a, NEW b, Len(a) \in Nat, Len(b) \in Nat
  PROVE  /\ \A p \in Places(a, b) : /\ p = <<p[1], p[2]>>
                                    /\ p[1] \in 1 .. Len(a) + 1 /\ p[2] \in 1 .. Len(b) + 1
                                    /\ Left(a, b)[p] \in Nat
                                    /\ Left(a, b)[p] = (Len(a) + 1 - p[1]) + (Len(b) + 1 - p[2])
         /\ \A i \in 1 .. Len(a) + 1, j \in 1 .. Len(b) + 1 :
              /\ <<i, j>> \in Places(a, b) /\ <<i, j>>[1] = i /\ <<i, j>>[2] = j
              /\ Left(a, b)[<<i, j>>] = (Len(a) + 1 - i) + (Len(b) + 1 - j)
<1>1. \A p \in Places(a, b) : /\ p = <<p[1], p[2]>>
                              /\ p[1] \in 1 .. Len(a) + 1 /\ p[2] \in 1 .. Len(b) + 1
  BY DEF Places
<1>2. \A p \in Places(a, b) : /\ Left(a, b)[p] \in Nat
                              /\ Left(a, b)[p] = (Len(a) + 1 - p[1]) + (Len(b) + 1 - p[2])
  BY <1>1 DEF Left
<1>3. \A i \in 1 .. Len(a) + 1, j \in 1 .. Len(b) + 1 :
        <<i, j>> \in Places(a, b) /\ <<i, j>>[1] = i /\ <<i, j>>[2] = j
  BY DEF Places
<1>4. QED
  BY <1>1, <1>2, <1>3

\* What the loop writes at a place of dp.
Longest(a, b, dp, p) ==
  IF p[1] > Len(a) \/ p[2] > Len(b) THEN 0
  ELSE IF a[p[1]] = b[p[2]] THEN dp[<<p[1] + 1, p[2] + 1>>] + 1
  ELSE Max({dp[<<p[1] + 1, p[2]>>], dp[<<p[1], p[2] + 1>>]})

\* dp as far as it is filled.
Filled(a, b, S, dp) == dp = [p \in S |-> Longest(a, b, dp, p)]

\* The places it looks at.
LEMMA Looks ==
  ASSUME NEW a, NEW b, Len(a) \in Nat, Len(b) \in Nat, NEW p \in Places(a, b),
         ~(p[1] > Len(a) \/ p[2] > Len(b))
  PROVE  \A q \in {<<p[1] + 1, p[2] + 1>>, <<p[1] + 1, p[2]>>, <<p[1], p[2] + 1>>} :
           q \in Places(a, b) /\ Left(a, b)[q] < Left(a, b)[p]
<1> DEFINE i == p[1]
           j == p[2]
<1>1. /\ i \in 1 .. Len(a) /\ j \in 1 .. Len(b)
      /\ Left(a, b)[p] = (Len(a) + 1 - i) + (Len(b) + 1 - j)
  BY PlacesAre
<1> HIDE DEF i, j
<1>2. /\ i \in 1 .. Len(a) + 1 /\ i + 1 \in 1 .. Len(a) + 1
      /\ j \in 1 .. Len(b) + 1 /\ j + 1 \in 1 .. Len(b) + 1
  BY <1>1
<1>3. /\ <<i + 1, j + 1>> \in Places(a, b)
      /\ Left(a, b)[<<i + 1, j + 1>>] = (Len(a) + 1 - (i + 1)) + (Len(b) + 1 - (j + 1))
  BY <1>2, PlacesAre
<1>4. /\ <<i + 1, j>> \in Places(a, b)
      /\ Left(a, b)[<<i + 1, j>>] = (Len(a) + 1 - (i + 1)) + (Len(b) + 1 - j)
  BY <1>2, PlacesAre
<1>5. /\ <<i, j + 1>> \in Places(a, b)
      /\ Left(a, b)[<<i, j + 1>>] = (Len(a) + 1 - i) + (Len(b) + 1 - (j + 1))
  BY <1>2, PlacesAre
<1>6. /\ Left(a, b)[<<i + 1, j + 1>>] < Left(a, b)[p]
      /\ Left(a, b)[<<i + 1, j>>] < Left(a, b)[p]
      /\ Left(a, b)[<<i, j + 1>>] < Left(a, b)[p]
  BY <1>1, <1>3, <1>4, <1>5
<1>7. QED
  BY <1>3, <1>4, <1>5, <1>6 DEF i, j

\* So two tables that agree there give the same.
LEMMA LongestSame ==
  ASSUME NEW a, NEW b, NEW p, NEW dp, NEW dq,
         ~(p[1] > Len(a) \/ p[2] > Len(b)) =>
           \A q \in {<<p[1] + 1, p[2] + 1>>, <<p[1] + 1, p[2]>>, <<p[1], p[2] + 1>>} : dp[q] = dq[q]
  PROVE  Longest(a, b, dp, p) = Longest(a, b, dq, p)
BY DEF Longest

\* The table can be filled from the ends of the texts on.
LEMMA FilledExists ==
  ASSUME NEW a, NEW b, Len(a) \in Nat, Len(b) \in Nat, NEW n \in Nat
  PROVE  \E dp : Filled(a, b, {p \in Places(a, b) : Left(a, b)[p] < n}, dp)
<1> DEFINE D(k) == {p \in Places(a, b) : Left(a, b)[p] < k}
           S == {k \in Nat : \E dp : Filled(a, b, D(k), dp)}
<1>1. 0 \in S
  <2>1. D(0) = {}
    BY PlacesAre
  <2>2. Filled(a, b, D(0), [p \in {} |-> 0])
    BY <2>1 DEF Filled
  <2> HIDE DEF D
  <2>3. QED
    BY <2>2
<1>2. ASSUME NEW k \in Nat, k \in S
      PROVE  k + 1 \in S
  <2>1. PICK g : Filled(a, b, D(k), g)
    BY <1>2
  <2> DEFINE h == [p \in D(k + 1) |-> Longest(a, b, g, p)]
  <2>2. \A p \in D(k) : g[p] = Longest(a, b, g, p)
    <3> HIDE DEF D
    <3>1. QED
      BY <2>1 DEF Filled
  <2>3. D(k) \subseteq D(k + 1)
    BY PlacesAre
  <2>4. ASSUME NEW p \in D(k + 1), ~(p[1] > Len(a) \/ p[2] > Len(b)),
               NEW q \in {<<p[1] + 1, p[2] + 1>>, <<p[1] + 1, p[2]>>, <<p[1], p[2] + 1>>}
        PROVE  q \in D(k)
    <3>1. p \in Places(a, b) /\ Left(a, b)[p] \in Nat /\ Left(a, b)[p] < k + 1
      BY PlacesAre
    <3>2. q \in Places(a, b) /\ Left(a, b)[q] < Left(a, b)[p]
      <4>1. \A r \in {<<p[1] + 1, p[2] + 1>>, <<p[1] + 1, p[2]>>, <<p[1], p[2] + 1>>} :
              r \in Places(a, b) /\ Left(a, b)[r] < Left(a, b)[p]
        <5> HIDE DEF D
        <5>1. p \in Places(a, b) /\ ~(p[1] > Len(a) \/ p[2] > Len(b))
          BY <2>4, <3>1
        <5>2. QED
          BY <5>1, Looks
      <4>2. QED
        BY <4>1
    <3>3. Left(a, b)[q] \in Nat
      BY <3>2, PlacesAre
    <3>4. QED
      BY <3>1, <3>2, <3>3
  <2> HIDE DEF D
  <2>5. \A p \in D(k) : h[p] = g[p]
    BY <2>2, <2>3
  <2>6. ASSUME NEW p \in D(k + 1)
        PROVE  h[p] = Longest(a, b, h, p)
    <3>1. h[p] = Longest(a, b, g, p)
      OBVIOUS
    <3>2. ~(p[1] > Len(a) \/ p[2] > Len(b)) =>
           \A q \in {<<p[1] + 1, p[2] + 1>>, <<p[1] + 1, p[2]>>, <<p[1], p[2] + 1>>} : g[q] = h[q]
      BY <2>4, <2>5
    <3> HIDE DEF h
    <3>3. Longest(a, b, g, p) = Longest(a, b, h, p)
      BY <3>2, LongestSame
    <3>4. QED
      BY <3>1, <3>3
  <2>7. Filled(a, b, D(k + 1), h)
    <3>1. h = [p \in D(k + 1) |-> h[p]]
      OBVIOUS
    <3> HIDE DEF h
    <3>2. QED
      BY <2>6, <3>1 DEF Filled
  <2>8. QED
    BY <2>7
<1>3. n \in S
  <2> HIDE DEF S
  <2>1. QED
    BY <1>1, <1>2, NatSetInduction
<1>4. QED
  BY <1>3

\* dp is such a table, at every pair of places.
LEMMA CommonFromIs ==
  ASSUME NEW a, NEW b, Len(a) \in Nat, Len(b) \in Nat
  PROVE  \A p \in Places(a, b) : CommonFrom(a, b)[p] = Longest(a, b, CommonFrom(a, b), p)
<1> DEFINE n == Len(a) + Len(b) + 3
           P == Places(a, b)
<1>1. {p \in P : Left(a, b)[p] < n} = P /\ n \in Nat
  <2>1. \A p \in P : Left(a, b)[p] < n
    BY PlacesAre
  <2>2. QED
    BY <2>1
<1>2. \E dp : Filled(a, b, P, dp)
  <2>0. \A k \in Nat : \E dp : Filled(a, b, {p \in Places(a, b) : Left(a, b)[p] < k}, dp)
    <3> HIDE DEF n, P
    <3>1. QED
      BY FilledExists
  <2> HIDE DEF n
  <2>1. \E dp : Filled(a, b, {p \in Places(a, b) : Left(a, b)[p] < n}, dp)
    BY <1>1, <2>0
  <2>2. QED
    BY <1>1, <2>1 DEF P
<1> DEFINE dp == CHOOSE dp : Filled(a, b, P, dp)
<1>3. Filled(a, b, P, dp)
  BY <1>2
<1>4. CommonFrom(a, b) = dp
  BY DEF CommonFrom, Filled, Longest
<1> HIDE DEF dp, P
<1>5. \A p \in P : dp[p] = Longest(a, b, dp, p)
  BY <1>3 DEF Filled
<1>6. QED
  BY <1>4, <1>5 DEF P

\* One of the two texts is at its end.
AtEnd(a, b, p) == p[1] > Len(a) \/ p[2] > Len(b)

\* Otherwise both have a token there.
LEMMA NotAtEnd ==
  ASSUME NEW a, NEW b, Len(a) \in Nat, Len(b) \in Nat, NEW p \in Places(a, b)
  PROVE  /\ p = <<p[1], p[2]>> /\ p[1] \in 1 .. Len(a) + 1 /\ p[2] \in 1 .. Len(b) + 1
         /\ ~AtEnd(a, b, p) => p[1] \in 1 .. Len(a) /\ p[2] \in 1 .. Len(b)
BY PlacesAre DEF AtEnd

\* The three cases of the loop: at an end,
LEMMA CommonAtEnd ==
  ASSUME NEW a, NEW b, Len(a) \in Nat, Len(b) \in Nat, NEW p \in Places(a, b)
  PROVE  AtEnd(a, b, p) => CommonFrom(a, b)[p] = 0
BY CommonFromIs DEF Longest, AtEnd

\* at two tokens that are the same,
LEMMA CommonIfSame ==
  ASSUME NEW a, NEW b, Len(a) \in Nat, Len(b) \in Nat, NEW p \in Places(a, b),
         ~AtEnd(a, b, p), a[p[1]] = b[p[2]]
  PROVE  CommonFrom(a, b)[p] = CommonFrom(a, b)[<<p[1] + 1, p[2] + 1>>] + 1
<1>1. CommonFrom(a, b)[p] = Longest(a, b, CommonFrom(a, b), p)
  BY CommonFromIs
<1>2. Longest(a, b, CommonFrom(a, b), p) = CommonFrom(a, b)[<<p[1] + 1, p[2] + 1>>] + 1
  BY DEF Longest, AtEnd
<1>3. QED
  BY <1>1, <1>2

\* and at two others.
LEMMA CommonIfOther ==
  ASSUME NEW a, NEW b, Len(a) \in Nat, Len(b) \in Nat, NEW p \in Places(a, b),
         ~AtEnd(a, b, p), a[p[1]] # b[p[2]]
  PROVE  CommonFrom(a, b)[p] = Max({CommonFrom(a, b)[<<p[1] + 1, p[2]>>],
                                    CommonFrom(a, b)[<<p[1], p[2] + 1>>]})
<1>1. CommonFrom(a, b)[p] = Longest(a, b, CommonFrom(a, b), p)
  BY CommonFromIs
<1>2. Longest(a, b, CommonFrom(a, b), p) = Max({CommonFrom(a, b)[<<p[1] + 1, p[2]>>],
                                               CommonFrom(a, b)[<<p[1], p[2] + 1>>]})
  BY DEF Longest, AtEnd
<1>3. QED
  BY <1>1, <1>2

\* A common subsequence without its first token.
LEMMA CommonRest ==
  ASSUME NEW a, NEW b, NEW S \in SUBSET Nat, NEW T \in SUBSET Nat,
         NEW f, Onto(f, S, T), \A x \in S : a[x] = b[f[x]],
         NEW least \in S, \A x \in S : least <= x
  PROVE  /\ f[least] \in T /\ \A y \in T : f[least] <= y
         /\ Common(a, b, S \ {least}, T \ {f[least]})
<1> DEFINE R == S \ {least}
           Q == T \ {f[least]}
           g == [x \in R |-> f[x]]
<1>1. /\ f \in [S -> T] /\ \A x, y \in S : x < y => f[x] < f[y]
      /\ \A y \in T : \E x \in S : f[x] = y
  BY DEF Onto
<1>2. \A x \in R : x \in S /\ least < x /\ f[least] < f[x] /\ f[x] \in T
  <2>1. \A x \in R : x \in S /\ x \in Nat /\ least \in Nat /\ least # x /\ least <= x
    OBVIOUS
  <2>2. \A x \in R : least < x
    BY <2>1
  <2>3. QED
    BY <1>1, <2>1, <2>2
<1>3. f[least] \in T /\ f[least] \in Nat /\ T \subseteq Nat
  BY <1>1
<1>4. \A x \in R : f[x] \in Q
  <2>1. \A x \in R : f[x] # f[least]
    BY <1>2, <1>3
  <2>2. QED
    BY <1>2, <2>1
<1>5. \A y \in Q : \E x \in R : f[x] = y
  BY <1>1
<1>6. \A y \in T : f[least] <= y
  <2> TAKE y \in T
  <2>1. PICK x \in S : f[x] = y
    BY <1>1
  <2>2. CASE x = least
    BY <1>3, <2>1, <2>2
  <2>3. CASE x \in R
    BY <1>2, <1>3, <2>1, <2>3
  <2>4. QED
    BY <2>2, <2>3
<1>7. \A x \in R : g[x] = f[x]
  OBVIOUS
<1>8. g \in [R -> Q]
  BY <1>4
<1> HIDE DEF g
<1>9. Onto(g, R, Q)
  <2>1. \A x, y \in R : x < y => g[x] < g[y]
    BY <1>1, <1>7
  <2>2. \A y \in Q : \E x \in R : g[x] = y
    BY <1>5, <1>7
  <2>3. QED
    BY <1>8, <2>1, <2>2 DEF Onto
<1>10. \A x \in R : a[x] = b[g[x]]
  BY <1>7
<1>11. Common(a, b, R, Q)
  BY <1>8, <1>9, <1>10 DEF Common
<1>12. QED
  BY <1>3, <1>6, <1>11

\* No common subsequence from p on is longer than dp says.
NoneLonger(a, b, p) ==
  /\ CommonFrom(a, b)[p] \in Nat
  /\ \A S \in SUBSET (p[1] .. Len(a)), T \in SUBSET (p[2] .. Len(b)) :
       Common(a, b, S, T) => Cardinality(S) <= CommonFrom(a, b)[p]

\* This is so at an end,
LEMMA NoneLongerAtEnd ==
  ASSUME NEW a, NEW b, Len(a) \in Nat, Len(b) \in Nat, NEW p \in Places(a, b),
         AtEnd(a, b, p)
  PROVE  NoneLonger(a, b, p)
<1>1. CommonFrom(a, b)[p] = 0
  BY CommonAtEnd
<1>2. ASSUME NEW S \in SUBSET (p[1] .. Len(a)), NEW T \in SUBSET (p[2] .. Len(b)),
             Common(a, b, S, T)
      PROVE  Cardinality(S) = 0
  <2>1. p[1] \in 1 .. Len(a) + 1 /\ p[2] \in 1 .. Len(b) + 1
    BY PlacesAre
  <2>2. p[1] .. Len(a) = {} \/ p[2] .. Len(b) = {}
    BY <2>1 DEF AtEnd
  <2>3. S = {} \/ T = {}
    BY <2>2
  <2>4. S = {}
    BY <1>2, <2>3 DEF Common
  <2>5. QED
    BY <2>4, FS_EmptySet
<1>3. QED
  BY <1>1, <1>2 DEF NoneLonger

\* it is so at two tokens that are the same if it is so behind both: the first token of a
\* common subsequence can be dropped,
LEMMA NoneLongerSame ==
  ASSUME NEW a, NEW b, Len(a) \in Nat, Len(b) \in Nat, NEW p \in Places(a, b),
         ~AtEnd(a, b, p), a[p[1]] = b[p[2]],
         NoneLonger(a, b, <<p[1] + 1, p[2] + 1>>)
  PROVE  NoneLonger(a, b, p)
<1>0. /\ p[1] \in 1 .. Len(a) /\ p[2] \in 1 .. Len(b)
      /\ CommonFrom(a, b)[p] = CommonFrom(a, b)[<<p[1] + 1, p[2] + 1>>] + 1
  BY NotAtEnd, CommonIfSame
<1> DEFINE i == p[1]
           j == p[2]
           d == CommonFrom(a, b)[<<i + 1, j + 1>>]
<1>1. i \in 1 .. Len(a) /\ j \in 1 .. Len(b)
  BY <1>0
<1>2. CommonFrom(a, b)[p] = d + 1
  BY <1>0
<1>3. /\ d \in Nat
      /\ \A S \in SUBSET (i + 1 .. Len(a)), T \in SUBSET (j + 1 .. Len(b)) :
           Common(a, b, S, T) => Cardinality(S) <= d
  BY DEF NoneLonger
<1> HIDE DEF i, j, d
<1>4. ASSUME NEW S \in SUBSET (i .. Len(a)), NEW T \in SUBSET (j .. Len(b)),
             Common(a, b, S, T)
      PROVE  Cardinality(S) <= d + 1
  <2>1. CASE S = {}
    BY <1>3, <2>1, FS_EmptySet
  <2>2. CASE S # {}
    <3>1. S \in SUBSET Nat /\ T \in SUBSET Nat
      BY <1>1
    <3>2. PICK f \in [S -> T] : Onto(f, S, T) /\ \A x \in S : a[x] = b[f[x]]
      BY <1>4 DEF Common
    <3>3. PICK least \in S : \A x \in S : least <= x
      BY <2>2, <3>1, LeastNat
    <3>4. /\ f[least] \in T /\ \A y \in T : f[least] <= y
          /\ Common(a, b, S \ {least}, T \ {f[least]})
      BY <3>1, <3>2, <3>3, CommonRest
    <3>5. S \ {least} \in SUBSET (i + 1 .. Len(a))
      <4>1. \A x \in S \ {least} : x \in i .. Len(a) /\ least \in i .. Len(a) /\ least <= x /\ x # least
        BY <3>3
      <4>2. QED
        BY <1>1, <4>1
    <3>6. T \ {f[least]} \in SUBSET (j + 1 .. Len(b))
      <4> DEFINE z == f[least]
      <4>1. z \in j .. Len(b) /\ \A y \in T : y \in j .. Len(b) /\ z <= y
        BY <3>4
      <4> HIDE DEF z
      <4>2. \A y \in T : y # z => y \in j + 1 .. Len(b)
        BY <1>1, <4>1
      <4>3. QED
        BY <4>2 DEF z
    <3>7. Cardinality(S \ {least}) <= d
      BY <1>3, <3>4, <3>5, <3>6
    <3>8. IsFiniteSet(S)
      <4>1. IsFiniteSet(i .. Len(a))
        BY <1>1, FS_Interval
      <4>2. QED
        BY <4>1, FS_Subset
    <3>9. Cardinality(S \ {least}) = Cardinality(S) - 1 /\ Cardinality(S) \in Nat
      BY <3>8, FS_RemoveElement, FS_CardinalityType
    <3>10. QED
      BY <1>3, <3>7, <3>9
  <2>3. QED
    BY <2>1, <2>2
<1>5. QED
  BY <1>2, <1>3, <1>4 DEF NoneLonger, i, j, d

\* and at two others if it is so behind either: a common subsequence leaves out one of them.
LEMMA NoneLongerOther ==
  ASSUME NEW a, NEW b, Len(a) \in Nat, Len(b) \in Nat, NEW p \in Places(a, b),
         ~AtEnd(a, b, p), a[p[1]] # b[p[2]],
         NoneLonger(a, b, <<p[1] + 1, p[2]>>), NoneLonger(a, b, <<p[1], p[2] + 1>>)
  PROVE  /\ NoneLonger(a, b, p)
         /\ CommonFrom(a, b)[p] = IF CommonFrom(a, b)[<<p[1] + 1, p[2]>>]
                                       >= CommonFrom(a, b)[<<p[1], p[2] + 1>>]
                                  THEN CommonFrom(a, b)[<<p[1] + 1, p[2]>>]
                                  ELSE CommonFrom(a, b)[<<p[1], p[2] + 1>>]
<1>0. /\ p[1] \in 1 .. Len(a) /\ p[2] \in 1 .. Len(b)
      /\ CommonFrom(a, b)[p] = Max({CommonFrom(a, b)[<<p[1] + 1, p[2]>>],
                                    CommonFrom(a, b)[<<p[1], p[2] + 1>>]})
  BY NotAtEnd, CommonIfOther
<1> DEFINE i == p[1]
           j == p[2]
           d == CommonFrom(a, b)[<<i + 1, j>>]
           e == CommonFrom(a, b)[<<i, j + 1>>]
           c == CommonFrom(a, b)[p]
<1>1. i \in 1 .. Len(a) /\ j \in 1 .. Len(b) /\ a[i] # b[j]
  BY <1>0
<1>2. c = Max({d, e})
  BY <1>0
<1>3. /\ d \in Nat
      /\ \A S \in SUBSET (i + 1 .. Len(a)), T \in SUBSET (j .. Len(b)) :
           Common(a, b, S, T) => Cardinality(S) <= d
  BY DEF NoneLonger
<1>4. /\ e \in Nat
      /\ \A S \in SUBSET (i .. Len(a)), T \in SUBSET (j + 1 .. Len(b)) :
           Common(a, b, S, T) => Cardinality(S) <= e
  BY DEF NoneLonger
<1> HIDE DEF i, j, d, e, c
<1>5. c \in Nat /\ c >= d /\ c >= e /\ c = IF d >= e THEN d ELSE e
  <2>1. c \in {d, e} /\ c >= d /\ c >= e
    <3>1. d \in Int /\ e \in Int
      BY <1>3, <1>4
    <3>2. QED
      BY <1>2, <3>1, MinMax
  <2>2. QED
    BY <1>3, <1>4, <2>1
<1>6. ASSUME NEW S \in SUBSET (i .. Len(a)), NEW T \in SUBSET (j .. Len(b)),
             Common(a, b, S, T)
      PROVE  Cardinality(S) <= c
  <2>0. Cardinality(S) \in Nat
    <3>1. IsFiniteSet(i .. Len(a))
      BY <1>1, FS_Interval
    <3>2. IsFiniteSet(S)
      BY <3>1, FS_Subset
    <3>3. QED
      BY <3>2, FS_CardinalityType
  <2>1. CASE i \notin S
    <3>1. S \in SUBSET (i + 1 .. Len(a))
      BY <1>1, <2>1
    <3>2. Cardinality(S) <= d
      BY <1>3, <1>6, <3>1
    <3>3. QED
      BY <1>3, <1>5, <2>0, <3>2
  <2>2. CASE i \in S
    <3>1. PICK f \in [S -> T] : Onto(f, S, T) /\ \A x \in S : a[x] = b[f[x]]
      BY <1>6 DEF Common
    <3>2. f[i] \in T /\ f[i] # j /\ f[i] \in j .. Len(b)
      BY <1>1, <2>2, <3>1
    <3>3. j \notin T
      <4> SUFFICES ASSUME j \in T PROVE FALSE
        OBVIOUS
      <4>1. PICK x \in S : f[x] = j
        BY <3>1 DEF Onto
      <4>2. x # i /\ x \in i .. Len(a)
        BY <3>2, <4>1
      <4>3. i < x
        BY <1>1, <4>2
      <4>4. f[i] < j
        BY <2>2, <3>1, <4>1, <4>3 DEF Onto
      <4>5. QED
        BY <1>1, <3>2, <4>4
    <3>4. T \in SUBSET (j + 1 .. Len(b))
      BY <1>1, <3>3
    <3>5. Cardinality(S) <= e
      BY <1>4, <1>6, <3>4
    <3>6. QED
      BY <1>4, <1>5, <2>0, <3>5
  <2>3. QED
    BY <2>1, <2>2
<1>7. QED
  BY <1>5, <1>6 DEF NoneLonger, i, j, d, e, c

\* By induction, dp is an upper bound everywhere.
LEMMA CommonIsLongest ==
  ASSUME NEW a, NEW b, Len(a) \in Nat, Len(b) \in Nat
  PROVE  \A p \in Places(a, b) : NoneLonger(a, b, p)
<1> DEFINE S == {k \in Nat : \A p \in Places(a, b) : Left(a, b)[p] < k => NoneLonger(a, b, p)}
<1>1. 0 \in S
  BY PlacesAre
<1>2. ASSUME NEW k \in Nat, k \in S
      PROVE  k + 1 \in S
  <2>1. ASSUME NEW p \in Places(a, b), Left(a, b)[p] < k + 1
        PROVE  NoneLonger(a, b, p)
    <3>1. CASE AtEnd(a, b, p)
      BY <3>1, NoneLongerAtEnd
    <3>2. CASE ~AtEnd(a, b, p)
      <4>1. \A q \in {<<p[1] + 1, p[2] + 1>>, <<p[1] + 1, p[2]>>, <<p[1], p[2] + 1>>} :
              q \in Places(a, b) /\ Left(a, b)[q] < Left(a, b)[p]
        BY <3>2, Looks DEF AtEnd
      <4>2. \A q \in Places(a, b) : Left(a, b)[q] \in Nat
        BY PlacesAre
      <4>3. \A q \in {<<p[1] + 1, p[2] + 1>>, <<p[1] + 1, p[2]>>, <<p[1], p[2] + 1>>} :
              NoneLonger(a, b, q)
        BY <1>2, <2>1, <4>1, <4>2
      <4>4. CASE a[p[1]] = b[p[2]]
        BY <3>2, <4>3, <4>4, NoneLongerSame
      <4>5. CASE a[p[1]] # b[p[2]]
        BY <3>2, <4>3, <4>5, NoneLongerOther
      <4>6. QED
        BY <4>4, <4>5
    <3>3. QED
      BY <3>1, <3>2
  <2>2. QED
    BY <2>1
<1>3. ASSUME NEW p \in Places(a, b)
      PROVE  NoneLonger(a, b, p)
  <2>1. Left(a, b)[p] \in Nat /\ Left(a, b)[p] + 1 \in Nat /\ Left(a, b)[p] < Left(a, b)[p] + 1
    BY PlacesAre
  <2> HIDE DEF S
  <2>2. Nat \subseteq S
    BY <1>1, <1>2, NatSetInduction
  <2>3. Left(a, b)[p] + 1 \in S
    BY <2>1, <2>2
  <2>4. QED
    BY <2>1, <2>3 DEF S
<1>4. QED
  BY <1>3

\* What a token can be.
Kinds == {"same", "del", "add"}

\* The text a from i on, token by token.
SideOf(r, a, i, kinds) ==
  /\ r \in Segments
  /\ Len(r) = Len(a) + 1 - i
  /\ \A x \in 1 .. Len(r) : r[x].token = a[i + x - 1] /\ r[x].kind \in kinds

\* The places of the tokens that are kept.
KeptFrom(r, a, i) == {y \in i .. Len(a) : r[y - i + 1].kind = "same"}

\* The segment of one token.
Token(kind, token) == <<[kind |-> kind, token |-> token]>>

\* One more token in front.
LEMMA SideGrows ==
  ASSUME NEW a \in Seq(STRING), NEW i \in 1 .. Len(a), NEW kinds \in SUBSET Kinds, NEW k \in kinds,
         NEW r, SideOf(r, a, i + 1, kinds)
  PROVE  /\ SideOf(Token(k, a[i]) \o r, a, i, kinds)
         /\ k = "same" => KeptFrom(Token(k, a[i]) \o r, a, i)
                            = {i} \cup KeptFrom(r, a, i + 1)
         /\ k # "same" => KeptFrom(Token(k, a[i]) \o r, a, i)
                            = KeptFrom(r, a, i + 1)
<1> DEFINE seg == [kind |-> k, token |-> a[i]]
           t == <<seg>> \o r
           n == Len(a)
<1>1. /\ n \in Nat /\ a[i] \in STRING /\ seg.kind = k /\ seg.token = a[i]
      /\ seg \in [kind : {"same", "del", "add"}, token : STRING]
  BY DEF Kinds
<1>2. /\ r \in Seq([kind : {"same", "del", "add"}, token : STRING]) /\ Len(r) = n - i
      /\ \A x \in 1 .. n - i : r[x].token = a[i + x] /\ r[x].kind \in kinds
  <2>1. Len(r) = n + 1 - (i + 1) /\ n + 1 - (i + 1) = n - i
    BY <1>1 DEF SideOf
  <2>2. \A x \in 1 .. n - i : i + 1 + x - 1 = i + x
    BY <1>1
  <2>3. QED
    BY <2>1, <2>2 DEF SideOf, Segments
<1> HIDE DEF seg
<1>3. /\ t \in Seq([kind : {"same", "del", "add"}, token : STRING])
      /\ Len(t) = n - i + 1 /\ t[1] = seg
      /\ \A x \in 2 .. n - i + 1 : t[x] = r[x - 1]
  <2> DEFINE Seg == [kind : {"same", "del", "add"}, token : STRING]
             u == <<seg>>
  <2>1. u \in Seq(Seg) /\ Len(u) = 1 /\ u[1] = seg
    BY <1>1
  <2>2. r \in Seq(Seg) /\ Len(r) = n - i
    BY <1>2
  <2> HIDE DEF u, Seg
  <2>3. /\ u \o r \in Seq(Seg) /\ Len(u \o r) = 1 + (n - i)
        /\ (u \o r)[1] = seg
        /\ \A x \in 2 .. 1 + (n - i) : (u \o r)[x] = r[x - 1]
    <3>1. u \o r \in Seq(Seg) /\ Len(u \o r) = Len(u) + Len(r)
          /\ \A x \in 1 .. Len(u) + Len(r) : (u \o r)[x] = IF x <= Len(u) THEN u[x] ELSE r[x - Len(u)]
      BY <2>1, <2>2, ConcatProperties
    <3>2. 1 \in 1 .. 1 + (n - i) /\ \A x \in 2 .. 1 + (n - i) : x \in 1 .. 1 + (n - i) /\ ~(x <= 1)
      BY <1>1
    <3>3. QED
      BY <2>1, <2>2, <3>1, <3>2
  <2>4. 1 + (n - i) = n - i + 1
    BY <1>1
  <2>5. QED
    BY <2>3, <2>4 DEF u, Seg
<1> HIDE DEF t
<1>4. \A x \in 1 .. n - i + 1 : t[x].token = a[i + x - 1] /\ t[x].kind \in kinds
  <2> TAKE x \in 1 .. n - i + 1
  <2>1. CASE x = 1
    BY <1>1, <1>3, <2>1
  <2>2. CASE x # 1
    <3>1. x - 1 \in 1 .. n - i /\ i + (x - 1) = i + x - 1 /\ x \in 2 .. n - i + 1
      BY <1>1, <2>2
    <3>2. r[x - 1].token = a[i + x - 1] /\ r[x - 1].kind \in kinds
      BY <1>2, <3>1
    <3>3. QED
      BY <1>3, <3>1, <3>2
  <2>3. QED
    BY <2>1, <2>2
<1>5. SideOf(t, a, i, kinds)
  <2>1. n - i + 1 = n + 1 - i
    BY <1>1
  <2>2. QED
    BY <1>3, <1>4, <2>1 DEF SideOf, Segments
<1>6. \A y \in i + 1 .. n : t[y - i + 1] = r[y - (i + 1) + 1]
  <2> TAKE y \in i + 1 .. n
  <2>1. y - i + 1 \in 2 .. n - i + 1 /\ y - i + 1 - 1 = y - (i + 1) + 1
    BY <1>1
  <2>2. QED
    BY <1>3, <2>1
<1>7. t[i - i + 1].kind = k
  <2>1. i - i + 1 = 1
    OBVIOUS
  <2>2. QED
    BY <1>1, <1>3, <2>1
<1>8. \A y \in i .. n : y = i \/ y \in i + 1 .. n
  BY <1>1
<1>9. i \in i .. n /\ i \notin i + 1 .. n /\ i + 1 .. n \subseteq i .. n
  BY <1>1
<1>10. \A y : y \in KeptFrom(t, a, i) <=> (y = i /\ k = "same") \/ y \in KeptFrom(r, a, i + 1)
  BY <1>6, <1>7, <1>8, <1>9 DEF KeptFrom
<1>11. /\ k = "same" => KeptFrom(t, a, i) = {i} \cup KeptFrom(r, a, i + 1)
       /\ k # "same" => KeptFrom(t, a, i) = KeptFrom(r, a, i + 1)
  BY <1>10
<1>12. QED
  BY <1>5, <1>11 DEF t, seg, Token

\* It is one to keep,
KeepsMore(t, r, a, i, kinds) ==
  SideOf(t, a, i, kinds) /\ KeptFrom(t, a, i) = {i} \cup KeptFrom(r, a, i + 1)

\* if it is the same in both texts;
LEMMA SideSame ==
  ASSUME NEW a \in Seq(STRING), NEW i \in 1 .. Len(a), NEW kinds \in SUBSET Kinds,
         "same" \in kinds, NEW r, SideOf(r, a, i + 1, kinds)
  PROVE  KeepsMore(Token("same", a[i]) \o r, r, a, i, kinds)
BY SideGrows DEF KeepsMore

\* otherwise it is not.
LEMMA SideOther ==
  ASSUME NEW a \in Seq(STRING), NEW i \in 1 .. Len(a), NEW kinds \in SUBSET Kinds,
         NEW k \in kinds, k # "same", NEW r, SideOf(r, a, i + 1, kinds)
  PROVE  /\ SideOf(Token(k, a[i]) \o r, a, i, kinds)
         /\ KeptFrom(Token(k, a[i]) \o r, a, i) = KeptFrom(r, a, i + 1)
<1>1. SideOf(Token(k, a[i]) \o r, a, i, kinds)
  BY SideGrows
<1>2. KeptFrom(Token(k, a[i]) \o r, a, i) = KeptFrom(r, a, i + 1)
  BY SideGrows
<1>3. QED
  BY <1>1, <1>2

\* A common subsequence with a token in front that is the same in both texts.
LEMMA CommonMore ==
  ASSUME NEW a, NEW b, NEW i \in Nat, NEW j \in Nat, a[i] = b[j],
         NEW n \in Nat, NEW m \in Nat,
         NEW S \in SUBSET (i + 1 .. n), NEW T \in SUBSET (j + 1 .. m), Common(a, b, S, T)
  PROVE  /\ Common(a, b, {i} \cup S, {j} \cup T)
         /\ Cardinality({i} \cup S) = Cardinality(S) + 1 /\ Cardinality(S) \in Nat
<1> DEFINE R == {i} \cup S
           Q == {j} \cup T
<1>1. PICK f \in [S -> T] : Onto(f, S, T) /\ \A x \in S : a[x] = b[f[x]]
  BY DEF Common
<1> DEFINE g == [x \in R |-> IF x = i THEN j ELSE f[x]]
<1>2. \A x \in S : x > i /\ x \in Nat /\ x # i /\ f[x] \in T /\ f[x] > j /\ f[x] \in Nat
  <2>1. \A x \in S : f[x] \in T
    BY <1>1
  <2>2. \A x \in S : x \in i + 1 .. n
    OBVIOUS
  <2>3. \A y \in T : y \in j + 1 .. m
    OBVIOUS
  <2>4. \A x \in S : x > i /\ x \in Nat /\ x # i
    BY <2>2
  <2>5. \A y \in T : y > j /\ y \in Nat
    BY <2>3
  <2>6. QED
    BY <2>1, <2>4, <2>5
<1>3. g[i] = j /\ \A x \in S : g[x] = f[x]
  BY <1>2
<1>4. g \in [R -> Q]
  BY <1>2
<1> HIDE DEF g
<1>5. \A x, y \in R : x < y => g[x] < g[y]
  <2> SUFFICES ASSUME NEW x \in R, NEW y \in R, x < y PROVE g[x] < g[y]
    OBVIOUS
  <2>1. y \in S
    BY <1>2
  <2>2. CASE x = i
    BY <1>2, <1>3, <2>1, <2>2
  <2>3. CASE x \in S
    BY <1>1, <1>3, <2>1, <2>3 DEF Onto
  <2>4. QED
    BY <2>2, <2>3
<1>6. \A y \in Q : \E x \in R : g[x] = y
  BY <1>1, <1>3 DEF Onto
<1>7. \A x \in R : a[x] = b[g[x]]
  BY <1>1, <1>3
<1>8. Common(a, b, R, Q)
  BY <1>4, <1>5, <1>6, <1>7 DEF Common, Onto
<1>9. IsFiniteSet(S)
  <2>1. IsFiniteSet(i + 1 .. n)
    BY FS_Interval
  <2>2. QED
    BY <2>1, FS_Subset
<1>10. Cardinality(S \cup {i}) = Cardinality(S) + 1 /\ Cardinality(S) \in Nat
  BY <1>2, <1>9, FS_AddElement, FS_CardinalityType
<1>11. S \cup {i} = R
  OBVIOUS
<1>12. QED
  BY <1>8, <1>10, <1>11

\* What the walk has found out when it has gone from the places i and j to the ends.
Walked(a, b, i, j, r, s) ==
  /\ SideOf(r, a, i, {"same", "del"}) /\ SideOf(s, b, j, {"same", "add"})
  /\ Common(a, b, KeptFrom(r, a, i), KeptFrom(s, b, j))
  /\ Cardinality(KeptFrom(r, a, i)) = CommonFrom(a, b)[<<i, j>>]

\* A step of the walk over two tokens that are the same,
LEMMA WalkSame ==
  ASSUME NEW a \in Seq(STRING), NEW b \in Seq(STRING), NEW i \in 1 .. Len(a), NEW j \in 1 .. Len(b),
         a[i] = b[j], CommonFrom(a, b)[<<i, j>>] = CommonFrom(a, b)[<<i + 1, j + 1>>] + 1,
         NEW r, NEW s, Walked(a, b, i + 1, j + 1, r, s)
  PROVE  Walked(a, b, i, j, Token("same", a[i]) \o r, Token("same", b[j]) \o s)
<1>1. /\ SideOf(Token("same", a[i]) \o r, a, i, {"same", "del"})
      /\ KeptFrom(Token("same", a[i]) \o r, a, i) = {i} \cup KeptFrom(r, a, i + 1)
  <2>1. {"same", "del"} \in SUBSET Kinds /\ "same" \in {"same", "del"}
    BY DEF Kinds
  <2>2. SideOf(r, a, i + 1, {"same", "del"})
    BY DEF Walked
  <2>3. KeepsMore(Token("same", a[i]) \o r, r, a, i, {"same", "del"})
    BY <2>1, <2>2, SideSame
  <2>4. QED
    BY <2>3 DEF KeepsMore
<1>2. /\ SideOf(Token("same", b[j]) \o s, b, j, {"same", "add"})
      /\ KeptFrom(Token("same", b[j]) \o s, b, j) = {j} \cup KeptFrom(s, b, j + 1)
  <2>1. {"same", "add"} \in SUBSET Kinds /\ "same" \in {"same", "add"}
    BY DEF Kinds
  <2>2. SideOf(s, b, j + 1, {"same", "add"})
    BY DEF Walked
  <2>3. KeepsMore(Token("same", b[j]) \o s, s, b, j, {"same", "add"})
    BY <2>1, <2>2, SideSame
  <2>4. QED
    BY <2>3 DEF KeepsMore
<1> DEFINE t == Token("same", a[i]) \o r
           u == Token("same", b[j]) \o s
           S == KeptFrom(r, a, i + 1)
           T == KeptFrom(s, b, j + 1)
<1>3. Common(a, b, S, T) /\ Cardinality(S) = CommonFrom(a, b)[<<i + 1, j + 1>>]
  BY DEF Walked
<1> HIDE DEF t, u
<1>4. S \in SUBSET (i + 1 .. Len(a)) /\ T \in SUBSET (j + 1 .. Len(b))
  BY DEF KeptFrom
<1>9. /\ SideOf(t, a, i, {"same", "del"}) /\ KeptFrom(t, a, i) = {i} \cup S
      /\ SideOf(u, b, j, {"same", "add"}) /\ KeptFrom(u, b, j) = {j} \cup T
  BY <1>1, <1>2 DEF t, u
<1> HIDE DEF S, T
<1>5. i \in Nat /\ j \in Nat /\ Len(a) \in Nat /\ Len(b) \in Nat
  OBVIOUS
<1>6. /\ Common(a, b, {i} \cup S, {j} \cup T)
      /\ Cardinality({i} \cup S) = Cardinality(S) + 1 /\ Cardinality(S) \in Nat
  BY <1>3, <1>4, <1>5, CommonMore
<1>7. Cardinality({i} \cup S) = CommonFrom(a, b)[<<i, j>>]
  BY <1>3, <1>6
<1>8. Walked(a, b, i, j, t, u)
  BY <1>6, <1>7, <1>9 DEF Walked
<1>10. QED
  BY <1>8 DEF t, u

\* over a deleted one,
LEMMA WalkDel ==
  ASSUME NEW a \in Seq(STRING), NEW b \in Seq(STRING), NEW i \in 1 .. Len(a), NEW j,
         CommonFrom(a, b)[<<i, j>>] = CommonFrom(a, b)[<<i + 1, j>>],
         NEW r, NEW s, Walked(a, b, i + 1, j, r, s)
  PROVE  Walked(a, b, i, j, Token("del", a[i]) \o r, <<>> \o s)
<1> DEFINE t == Token("del", a[i]) \o r
<1>1. SideOf(t, a, i, {"same", "del"}) /\ KeptFrom(t, a, i) = KeptFrom(r, a, i + 1)
  <2>1. {"same", "del"} \in SUBSET Kinds /\ "del" \in {"same", "del"} /\ "del" # "same"
    BY DEF Kinds
  <2>2. SideOf(r, a, i + 1, {"same", "del"})
    BY DEF Walked
  <2>3. QED
    BY <2>1, <2>2, SideOther
<1> HIDE DEF t
<1>2. <<>> \o s = s
  BY ConcatEmptySeq DEF Walked, SideOf, Segments
<1>3. Walked(a, b, i, j, t, s)
  BY <1>1 DEF Walked
<1>4. QED
  BY <1>2, <1>3 DEF t

\* and over an added one.
LEMMA WalkAdd ==
  ASSUME NEW a \in Seq(STRING), NEW b \in Seq(STRING), NEW i, NEW j \in 1 .. Len(b),
         CommonFrom(a, b)[<<i, j>>] = CommonFrom(a, b)[<<i, j + 1>>],
         NEW r, NEW s, Walked(a, b, i, j + 1, r, s)
  PROVE  Walked(a, b, i, j, <<>> \o r, Token("add", b[j]) \o s)
<1> DEFINE t == Token("add", b[j]) \o s
<1>1. SideOf(t, b, j, {"same", "add"}) /\ KeptFrom(t, b, j) = KeptFrom(s, b, j + 1)
  <2>1. {"same", "add"} \in SUBSET Kinds /\ "add" \in {"same", "add"} /\ "add" # "same"
    BY DEF Kinds
  <2>2. SideOf(s, b, j + 1, {"same", "add"})
    BY DEF Walked
  <2>3. QED
    BY <2>1, <2>2, SideOther
<1> HIDE DEF t
<1>2. <<>> \o r = r
  BY ConcatEmptySeq DEF Walked, SideOf, Segments
<1>3. Walked(a, b, i, j, r, t)
  BY <1>1 DEF Walked
<1>4. QED
  BY <1>2, <1>3 DEF t

\* The walk of tokenDiff, taken apart.
Walks(a, b) == Places(a, b) \ {<<Len(a) + 1, Len(b) + 1>>}

\* The step at each pair of places,
Moves(a, b) == [p \in Walks(a, b) |-> Move(a, b, p)]

\* where it leads,
NextPlaces(a, b) ==
  [p \in Walks(a, b) |-> <<IF Moves(a, b)[p] = "add" THEN p[1] ELSE p[1] + 1,
                           IF Moves(a, b)[p] = "del" THEN p[2] ELSE p[2] + 1>>]

\* and what it pushes for the one text
OldPieces(a, b) ==
  [p \in Walks(a, b) |-> IF Moves(a, b)[p] = "add" THEN <<>>
                         ELSE <<[kind |-> Moves(a, b)[p], token |-> a[p[1]]]>>]

\* and for the other.
NewPieces(a, b) ==
  [p \in Walks(a, b) |-> IF Moves(a, b)[p] = "del" THEN <<>>
                         ELSE <<[kind |-> Moves(a, b)[p], token |-> b[p[2]]]>>]

\* What is pushed from a pair of places on.
OldFrom(a, b, p) == Pushed(Places(a, b), OldPieces(a, b), NextPlaces(a, b), p)

\* The same for the other text.
NewFrom(a, b, p) == Pushed(Places(a, b), NewPieces(a, b), NextPlaces(a, b), p)

\* tokenDiff in these terms.
LEMMA TokenDiffIs ==
  ASSUME NEW a, NEW b
  PROVE  TokenDiff(a, b) =
           IF Len(a) > TokenCap \/ Len(b) > TokenCap
           THEN [old |-> Whole(a, "del"), new |-> Whole(b, "add")]
           ELSE [old |-> OldFrom(a, b, <<1, 1>>), new |-> NewFrom(a, b, <<1, 1>>)]
BY DEF TokenDiff, OldFrom, NewFrom, OldPieces, NewPieces, NextPlaces, Moves, Walks

\* What each step tells of the tokens at its places.
LEMMA MoveIs ==
  ASSUME NEW a, NEW b, Len(a) \in Nat, Len(b) \in Nat, NEW p \in Walks(a, b)
  PROVE  /\ p[1] \in 1 .. Len(a) + 1 /\ p[2] \in 1 .. Len(b) + 1 /\ p = <<p[1], p[2]>>
         /\ Move(a, b, p) \in Kinds
         /\ Move(a, b, p) = "same" => ~AtEnd(a, b, p) /\ a[p[1]] = b[p[2]]
         /\ Move(a, b, p) = "del" =>
              /\ p[1] \in 1 .. Len(a)
              /\ ~AtEnd(a, b, p) => /\ a[p[1]] # b[p[2]]
                                    /\ CommonFrom(a, b)[<<p[1] + 1, p[2]>>]
                                         >= CommonFrom(a, b)[<<p[1], p[2] + 1>>]
         /\ Move(a, b, p) = "add" =>
              /\ p[2] \in 1 .. Len(b)
              /\ ~AtEnd(a, b, p) => /\ a[p[1]] # b[p[2]]
                                    /\ ~(CommonFrom(a, b)[<<p[1] + 1, p[2]>>]
                                           >= CommonFrom(a, b)[<<p[1], p[2] + 1>>])
<1>1. p \in Places(a, b) /\ p # <<Len(a) + 1, Len(b) + 1>>
  BY DEF Walks
<1>2. /\ p = <<p[1], p[2]>> /\ p[1] \in 1 .. Len(a) + 1 /\ p[2] \in 1 .. Len(b) + 1
      /\ ~AtEnd(a, b, p) => p[1] \in 1 .. Len(a) /\ p[2] \in 1 .. Len(b)
  BY <1>1, NotAtEnd
<1>3. p[1] \in 1 .. Len(a) \/ p[2] \in 1 .. Len(b)
  BY <1>1, <1>2
<1>4. Move(a, b, p) = IF p[1] <= Len(a) /\ p[2] <= Len(b) /\ a[p[1]] = b[p[2]] THEN "same"
                      ELSE IF p[1] <= Len(a) /\ (\/ p[2] > Len(b)
                                                 \/ CommonFrom(a, b)[<<p[1] + 1, p[2]>>]
                                                      >= CommonFrom(a, b)[<<p[1], p[2] + 1>>])
                      THEN "del" ELSE "add"
  BY DEF Move
<1>5. (p[1] <= Len(a) /\ p[2] <= Len(b)) <=> ~AtEnd(a, b, p)
  BY <1>2 DEF AtEnd
<1>6. (p[1] <= Len(a) <=> p[1] \in 1 .. Len(a)) /\ (p[2] <= Len(b) <=> p[2] \in 1 .. Len(b))
      /\ (p[2] > Len(b) <=> p[2] \notin 1 .. Len(b))
  BY <1>2
<1>7. QED
  BY <1>2, <1>3, <1>4, <1>5, <1>6 DEF Kinds

\* Where it leads,
LEMMA NextIs ==
  ASSUME NEW a, NEW b, Len(a) \in Nat, Len(b) \in Nat, NEW p \in Walks(a, b)
  PROVE  /\ Move(a, b, p) = "same" => /\ NextPlaces(a, b)[p] = <<p[1] + 1, p[2] + 1>>
                                      /\ OldPieces(a, b)[p] = Token("same", a[p[1]])
                                      /\ NewPieces(a, b)[p] = Token("same", b[p[2]])
         /\ Move(a, b, p) = "del" => /\ NextPlaces(a, b)[p] = <<p[1] + 1, p[2]>>
                                     /\ OldPieces(a, b)[p] = Token("del", a[p[1]])
                                     /\ NewPieces(a, b)[p] = <<>>
         /\ Move(a, b, p) = "add" => /\ NextPlaces(a, b)[p] = <<p[1], p[2] + 1>>
                                     /\ OldPieces(a, b)[p] = <<>>
                                     /\ NewPieces(a, b)[p] = Token("add", b[p[2]])
<1>1. Moves(a, b)[p] = Move(a, b, p)
  BY DEF Moves
<1>2. NextPlaces(a, b)[p] = <<IF Moves(a, b)[p] = "add" THEN p[1] ELSE p[1] + 1,
                              IF Moves(a, b)[p] = "del" THEN p[2] ELSE p[2] + 1>>
  BY DEF NextPlaces
<1>3. OldPieces(a, b)[p] = IF Moves(a, b)[p] = "add" THEN <<>>
                           ELSE Token(Moves(a, b)[p], a[p[1]])
  BY DEF OldPieces, Token
<1>4. NewPieces(a, b)[p] = IF Moves(a, b)[p] = "del" THEN <<>>
                           ELSE Token(Moves(a, b)[p], b[p[2]])
  BY DEF NewPieces, Token
<1>5. QED
  BY <1>1, <1>2, <1>3, <1>4

\* which is closer to the ends.
LEMMA NextInside ==
  ASSUME NEW a, NEW b, Len(a) \in Nat, Len(b) \in Nat, NEW p \in Walks(a, b)
  PROVE  NextPlaces(a, b)[p] \in Places(a, b) /\ Left(a, b)[NextPlaces(a, b)[p]] < Left(a, b)[p]
<1> DEFINE i == p[1]
           j == p[2]
           q == NextPlaces(a, b)[p]
<1>1. /\ i \in 1 .. Len(a) + 1 /\ j \in 1 .. Len(b) + 1
      /\ Move(a, b, p) \in {"same", "del", "add"}
  BY MoveIs DEF Kinds
<1>2. Move(a, b, p) = "same" => i \in 1 .. Len(a) /\ j \in 1 .. Len(b)
  <2>1. Move(a, b, p) = "same" => ~AtEnd(a, b, p)
    BY MoveIs
  <2>2. p \in Places(a, b)
    BY DEF Walks
  <2>3. QED
    BY <2>1, <2>2, NotAtEnd
<1>3. Move(a, b, p) = "del" => i \in 1 .. Len(a)
  BY MoveIs
<1>4. Move(a, b, p) = "add" => j \in 1 .. Len(b)
  BY MoveIs
<1>5. /\ Move(a, b, p) = "same" => q = <<i + 1, j + 1>>
      /\ Move(a, b, p) = "del" => q = <<i + 1, j>>
      /\ Move(a, b, p) = "add" => q = <<i, j + 1>>
  BY NextIs
<1>6. Left(a, b)[p] = (Len(a) + 1 - i) + (Len(b) + 1 - j)
  <2>1. p \in Places(a, b)
    BY DEF Walks
  <2>2. QED
    BY <2>1, PlacesAre
<1>7. \A x \in 1 .. Len(a) + 1, y \in 1 .. Len(b) + 1 :
        <<x, y>> \in Places(a, b) /\ Left(a, b)[<<x, y>>] = (Len(a) + 1 - x) + (Len(b) + 1 - y)
  BY DEF Places, Left
<1> HIDE DEF i, j, q
<1>8. CASE Move(a, b, p) = "same"
  <2>1. i + 1 \in 1 .. Len(a) + 1 /\ j + 1 \in 1 .. Len(b) + 1
    BY <1>2, <1>8
  <2>2. q \in Places(a, b) /\ Left(a, b)[q] = (Len(a) + 1 - (i + 1)) + (Len(b) + 1 - (j + 1))
    BY <1>5, <1>7, <1>8, <2>1
  <2>3. QED
    BY <1>1, <1>6, <2>2 DEF q
<1>9. CASE Move(a, b, p) = "del"
  <2>1. i + 1 \in 1 .. Len(a) + 1
    BY <1>3, <1>9
  <2>2. q \in Places(a, b) /\ Left(a, b)[q] = (Len(a) + 1 - (i + 1)) + (Len(b) + 1 - j)
    BY <1>1, <1>5, <1>7, <1>9, <2>1
  <2>3. QED
    BY <1>1, <1>6, <2>2 DEF q
<1>10. CASE Move(a, b, p) = "add"
  <2>1. j + 1 \in 1 .. Len(b) + 1
    BY <1>4, <1>10
  <2>2. q \in Places(a, b) /\ Left(a, b)[q] = (Len(a) + 1 - i) + (Len(b) + 1 - (j + 1))
    BY <1>1, <1>5, <1>7, <1>10, <2>1
  <2>3. QED
    BY <1>1, <1>6, <2>2 DEF q
<1>11. QED
  BY <1>1, <1>8, <1>9, <1>10

\* So the walk is a step and the rest of the walk.
LEMMA WalkUnfolds ==
  ASSUME NEW a, NEW b, Len(a) \in Nat, Len(b) \in Nat
  PROVE  /\ \A p \in Walks(a, b) :
              /\ OldFrom(a, b, p) = OldPieces(a, b)[p] \o OldFrom(a, b, NextPlaces(a, b)[p])
              /\ NewFrom(a, b, p) = NewPieces(a, b)[p] \o NewFrom(a, b, NextPlaces(a, b)[p])
         /\ OldFrom(a, b, <<Len(a) + 1, Len(b) + 1>>) = <<>>
         /\ NewFrom(a, b, <<Len(a) + 1, Len(b) + 1>>) = <<>>
<1> DEFINE n == Len(a) + Len(b) + 3
           end == <<Len(a) + 1, Len(b) + 1>>
<1>1. /\ \A p \in Places(a, b) : Left(a, b)[p] \in Nat
      /\ \A p \in Places(a, b) : Left(a, b)[p] < n
  BY PlacesAre
<1>2. n \in Nat
  OBVIOUS
<1>3. end \in Places(a, b) /\ end \notin Walks(a, b)
  BY DEF Places, Walks
<1> HIDE DEF n, end
<1>4. Walks(a, b) \subseteq Places(a, b)
  BY DEF Walks
<1>5. DOMAIN OldPieces(a, b) = Walks(a, b) /\ DOMAIN NewPieces(a, b) = Walks(a, b)
  BY DEF OldPieces, NewPieces
<1>6. \A p \in Walks(a, b) :
        NextPlaces(a, b)[p] \in Places(a, b) /\ Left(a, b)[NextPlaces(a, b)[p]] < Left(a, b)[p]
  BY NextInside
<1>7. /\ Descends(Places(a, b), OldPieces(a, b), NextPlaces(a, b), Left(a, b))
      /\ Descends(Places(a, b), NewPieces(a, b), NextPlaces(a, b), Left(a, b))
  BY <1>1, <1>4, <1>5, <1>6 DEF Descends
<1>8. \A p \in Places(a, b) :
        OldFrom(a, b, p) = IF p \in Walks(a, b)
                           THEN OldPieces(a, b)[p] \o OldFrom(a, b, NextPlaces(a, b)[p]) ELSE <<>>
  BY <1>1, <1>2, <1>5, <1>7, PushedUnfolds DEF OldFrom
<1>9. \A p \in Places(a, b) :
        NewFrom(a, b, p) = IF p \in Walks(a, b)
                           THEN NewPieces(a, b)[p] \o NewFrom(a, b, NextPlaces(a, b)[p]) ELSE <<>>
  BY <1>1, <1>2, <1>5, <1>7, PushedUnfolds DEF NewFrom
<1>10. QED
  BY <1>3, <1>4, <1>8, <1>9 DEF end

\* What the walk finds out from a place on.
WalkedFrom(a, b, p) == Walked(a, b, p[1], p[2], OldFrom(a, b, p), NewFrom(a, b, p))

\* A step of the walk keeps what it has found out.
LEMMA WalkStep ==
  ASSUME NEW a \in Seq(STRING), NEW b \in Seq(STRING), NEW p \in Walks(a, b),
         WalkedFrom(a, b, NextPlaces(a, b)[p])
  PROVE  WalkedFrom(a, b, p)
<1> DEFINE i == p[1]
           j == p[2]
           q == NextPlaces(a, b)[p]
           r == OldFrom(a, b, q)
           s == NewFrom(a, b, q)
<1>0. Len(a) \in Nat /\ Len(b) \in Nat
  OBVIOUS
<1>1. /\ p = <<i, j>> /\ p \in Places(a, b) /\ i \in 1 .. Len(a) + 1 /\ j \in 1 .. Len(b) + 1
      /\ Move(a, b, p) \in {"same", "del", "add"}
  BY <1>0, MoveIs DEF Kinds, Walks
<1>2. OldFrom(a, b, p) = OldPieces(a, b)[p] \o r /\ NewFrom(a, b, p) = NewPieces(a, b)[p] \o s
  BY <1>0, WalkUnfolds
<1>3. Walked(a, b, q[1], q[2], r, s)
  BY DEF WalkedFrom
<1>4. CASE Move(a, b, p) = "same"
  <2>1. ~AtEnd(a, b, p) /\ a[i] = b[j]
    <3>1. ~AtEnd(a, b, p)
      BY <1>0, <1>4, MoveIs
    <3>2. a[p[1]] = b[p[2]]
      BY <1>4 DEF Move
    <3>3. QED
      BY <3>1, <3>2
  <2>2. i \in 1 .. Len(a) /\ j \in 1 .. Len(b)
    BY <1>0, <1>1, <2>1, NotAtEnd
  <2>3. CommonFrom(a, b)[p] = CommonFrom(a, b)[<<i + 1, j + 1>>] + 1
    <3>1. p \in Places(a, b) /\ a[p[1]] = b[p[2]]
      BY <1>1, <2>1
    <3>2. CommonFrom(a, b)[p] = CommonFrom(a, b)[<<p[1] + 1, p[2] + 1>>] + 1
      BY <1>0, <2>1, <3>1, CommonIfSame
    <3>3. QED
      BY <3>2
  <2>4. q = <<i + 1, j + 1>> /\ OldPieces(a, b)[p] = Token("same", a[i])
        /\ NewPieces(a, b)[p] = Token("same", b[j])
    BY <1>0, <1>4, NextIs
  <2> HIDE DEF i, j, q, r, s
  <2>5. CommonFrom(a, b)[<<i, j>>] = CommonFrom(a, b)[<<i + 1, j + 1>>] + 1
    BY <1>1, <2>3
  <2>6. Walked(a, b, i + 1, j + 1, r, s)
    BY <1>3, <2>4
  <2>7. Walked(a, b, i, j, Token("same", a[i]) \o r, Token("same", b[j]) \o s)
    BY <2>1, <2>2, <2>5, <2>6, WalkSame
  <2>8. QED
    BY <1>2, <2>4, <2>7 DEF WalkedFrom, i, j
<1>5. CASE Move(a, b, p) = "del"
  <2>1. i \in 1 .. Len(a)
    BY <1>0, <1>5, MoveIs
  <2>2. CommonFrom(a, b)[p] = CommonFrom(a, b)[<<i + 1, j>>]
    <3>1. CASE AtEnd(a, b, p)
      <4>1. j > Len(b) /\ <<i + 1, j>> \in Places(a, b) /\ <<i + 1, j>>[2] = j
        BY <1>0, <1>1, <2>1, <3>1 DEF AtEnd, Places
      <4>2. AtEnd(a, b, <<i + 1, j>>)
        BY <4>1 DEF AtEnd
      <4>3. CommonFrom(a, b)[p] = 0
        BY <1>0, <1>1, <3>1, CommonAtEnd
      <4>4. CommonFrom(a, b)[<<i + 1, j>>] = 0
        <5> HIDE DEF i, j
        <5>1. QED
          BY <1>0, <4>1, <4>2, CommonAtEnd
      <4>5. QED
        BY <4>3, <4>4
    <3>2. CASE ~AtEnd(a, b, p)
      <4>1. /\ a[p[1]] # b[p[2]]
            /\ CommonFrom(a, b)[<<p[1] + 1, p[2]>>] >= CommonFrom(a, b)[<<p[1], p[2] + 1>>]
        BY <1>0, <1>5, <3>2, MoveIs
      <4>2. NoneLonger(a, b, <<p[1] + 1, p[2]>>) /\ NoneLonger(a, b, <<p[1], p[2] + 1>>)
        <5>1. <<p[1] + 1, p[2]>> \in Places(a, b) /\ <<p[1], p[2] + 1>> \in Places(a, b)
          BY <1>0, <1>1, <3>2, Looks DEF AtEnd
        <5>2. QED
          BY <1>0, <5>1, CommonIsLongest
      <4>3. CommonFrom(a, b)[p] = CommonFrom(a, b)[<<p[1] + 1, p[2]>>]
        BY <1>0, <1>1, <3>2, <4>1, <4>2, NoneLongerOther
      <4>4. QED
        BY <4>3
    <3>3. QED
      BY <3>1, <3>2
  <2>4. q = <<i + 1, j>> /\ OldPieces(a, b)[p] = Token("del", a[i]) /\ NewPieces(a, b)[p] = <<>>
    BY <1>0, <1>5, NextIs
  <2> HIDE DEF i, j, q, r, s
  <2>5. CommonFrom(a, b)[<<i, j>>] = CommonFrom(a, b)[<<i + 1, j>>]
    BY <1>1, <2>2
  <2>6. Walked(a, b, i + 1, j, r, s)
    BY <1>3, <2>4
  <2>7. Walked(a, b, i, j, Token("del", a[i]) \o r, <<>> \o s)
    BY <2>1, <2>5, <2>6, WalkDel
  <2>8. QED
    BY <1>2, <2>4, <2>7 DEF WalkedFrom, i, j
<1>6. CASE Move(a, b, p) = "add"
  <2>1. j \in 1 .. Len(b)
    BY <1>0, <1>6, MoveIs
  <2>2. CommonFrom(a, b)[p] = CommonFrom(a, b)[<<i, j + 1>>]
    <3>1. CASE AtEnd(a, b, p)
      <4>1. i > Len(a) /\ <<i, j + 1>> \in Places(a, b) /\ <<i, j + 1>>[1] = i
        BY <1>0, <1>1, <2>1, <3>1 DEF AtEnd, Places
      <4>2. AtEnd(a, b, <<i, j + 1>>)
        BY <4>1 DEF AtEnd
      <4>3. CommonFrom(a, b)[p] = 0
        BY <1>0, <1>1, <3>1, CommonAtEnd
      <4>4. CommonFrom(a, b)[<<i, j + 1>>] = 0
        <5> HIDE DEF i, j
        <5>1. QED
          BY <1>0, <4>1, <4>2, CommonAtEnd
      <4>5. QED
        BY <4>3, <4>4
    <3>2. CASE ~AtEnd(a, b, p)
      <4>1. /\ a[p[1]] # b[p[2]]
            /\ ~(CommonFrom(a, b)[<<p[1] + 1, p[2]>>] >= CommonFrom(a, b)[<<p[1], p[2] + 1>>])
        BY <1>0, <1>6, <3>2, MoveIs
      <4>2. NoneLonger(a, b, <<p[1] + 1, p[2]>>) /\ NoneLonger(a, b, <<p[1], p[2] + 1>>)
        <5>1. <<p[1] + 1, p[2]>> \in Places(a, b) /\ <<p[1], p[2] + 1>> \in Places(a, b)
          BY <1>0, <1>1, <3>2, Looks DEF AtEnd
        <5>2. QED
          BY <1>0, <5>1, CommonIsLongest
      <4>3. CommonFrom(a, b)[p] = CommonFrom(a, b)[<<p[1], p[2] + 1>>]
        BY <1>0, <1>1, <3>2, <4>1, <4>2, NoneLongerOther
      <4>4. QED
        BY <4>3
    <3>3. QED
      BY <3>1, <3>2
  <2>4. q = <<i, j + 1>> /\ OldPieces(a, b)[p] = <<>> /\ NewPieces(a, b)[p] = Token("add", b[j])
    BY <1>0, <1>6, NextIs
  <2> HIDE DEF i, j, q, r, s
  <2>5. CommonFrom(a, b)[<<i, j>>] = CommonFrom(a, b)[<<i, j + 1>>]
    BY <1>1, <2>2
  <2>6. Walked(a, b, i, j + 1, r, s)
    BY <1>3, <2>4
  <2>7. Walked(a, b, i, j, <<>> \o r, Token("add", b[j]) \o s)
    BY <2>1, <2>5, <2>6, WalkAdd
  <2>8. QED
    BY <1>2, <2>4, <2>7 DEF WalkedFrom, i, j
<1>7. QED
  BY <1>1, <1>4, <1>5, <1>6

\* By induction, it does so from everywhere: the walk keeps as many tokens as dp says.
LEMMA WalkedEverywhere ==
  ASSUME NEW a \in Seq(STRING), NEW b \in Seq(STRING)
  PROVE  \A p \in Places(a, b) : WalkedFrom(a, b, p)
<1> DEFINE S == {k \in Nat : \A p \in Places(a, b) : Left(a, b)[p] < k => WalkedFrom(a, b, p)}
           end == <<Len(a) + 1, Len(b) + 1>>
<1>0. Len(a) \in Nat /\ Len(b) \in Nat
  OBVIOUS
<1>1. 0 \in S
  BY <1>0, PlacesAre
<1>2. WalkedFrom(a, b, end)
  <2> DEFINE i == Len(a) + 1
             j == Len(b) + 1
  <2>1. OldFrom(a, b, end) = <<>> /\ NewFrom(a, b, end) = <<>>
    BY <1>0, WalkUnfolds
  <2>2. SideOf(<<>>, a, i, {"same", "del"}) /\ SideOf(<<>>, b, j, {"same", "add"})
    <3>1. <<>> \in Segments /\ Len(<<>>) = 0
      BY DEF Segments
    <3>2. QED
      BY <1>0, <3>1 DEF SideOf
  <2>3. KeptFrom(<<>>, a, i) = {} /\ KeptFrom(<<>>, b, j) = {}
    BY <1>0 DEF KeptFrom
  <2>4. Common(a, b, {}, {})
    <3>1. [x \in {} |-> 0] \in [{} -> {}]
      OBVIOUS
    <3>2. QED
      BY <3>1 DEF Common, Onto
  <2>5. Cardinality({}) = 0
    BY FS_EmptySet
  <2>6. end \in Places(a, b) /\ end[1] = i /\ end[2] = j /\ AtEnd(a, b, end)
    BY <1>0 DEF Places, AtEnd
  <2> HIDE DEF end
  <2>7. CommonFrom(a, b)[end] = 0
    BY <1>0, <2>6, CommonAtEnd
  <2>8. CommonFrom(a, b)[<<i, j>>] = 0
    BY <2>7 DEF end
  <2> HIDE DEF i, j
  <2>9. Walked(a, b, i, j, <<>>, <<>>)
    BY <2>2, <2>3, <2>4, <2>5, <2>8 DEF Walked
  <2>10. QED
    BY <2>1, <2>6, <2>9 DEF WalkedFrom
<1>3. ASSUME NEW k \in Nat, k \in S
      PROVE  k + 1 \in S
  <2>1. ASSUME NEW p \in Places(a, b), Left(a, b)[p] < k + 1
        PROVE  WalkedFrom(a, b, p)
    <3>1. CASE p = end
      BY <1>2, <3>1
    <3>2. CASE p # end
      <4> DEFINE q == NextPlaces(a, b)[p]
      <4>1. p \in Walks(a, b)
        BY <3>2 DEF Walks
      <4>2. q \in Places(a, b) /\ Left(a, b)[q] < Left(a, b)[p]
        BY <1>0, <4>1, NextInside
      <4> HIDE DEF q
      <4>3. Left(a, b)[q] \in Nat /\ Left(a, b)[p] \in Nat
        BY <1>0, <4>2, PlacesAre
      <4>4. Left(a, b)[q] < k
        BY <2>1, <4>2, <4>3
      <4>5. WalkedFrom(a, b, q)
        BY <1>3, <4>2, <4>4
      <4>6. QED
        BY <4>1, <4>5, WalkStep DEF q
    <3>3. QED
      BY <3>1, <3>2
  <2> HIDE DEF end
  <2>2. QED
    BY <2>1
<1>4. ASSUME NEW p \in Places(a, b)
      PROVE  WalkedFrom(a, b, p)
  <2>1. Left(a, b)[p] \in Nat /\ Left(a, b)[p] + 1 \in Nat /\ Left(a, b)[p] < Left(a, b)[p] + 1
    BY <1>0, PlacesAre
  <2> HIDE DEF S
  <2>2. Nat \subseteq S
    BY <1>1, <1>3, NatSetInduction
  <2>3. Left(a, b)[p] + 1 \in S
    BY <2>1, <2>2
  <2>4. QED
    BY <2>1, <2>3 DEF S
<1>5. QED
  BY <1>4

\* tokenDiff cuts both texts up without a loss; what it keeps is common to both, and, up
\* to the cap, no common subsequence is longer.
LEMMA TokenDiffExact ==
  ASSUME NEW a \in Seq(STRING), NEW b \in Seq(STRING)
  PROVE  /\ Exact(a, b, TokenDiff(a, b).old, TokenDiff(a, b).new)
         /\ TokenDiff(a, b).old \in Segments /\ TokenDiff(a, b).new \in Segments
<1>0. Len(a) \in Nat /\ Len(b) \in Nat
  OBVIOUS
<1>1. CASE Len(a) > TokenCap \/ Len(b) > TokenCap
  <2> DEFINE r == Whole(a, "del")
             s == Whole(b, "add")
  <2>1. TokenDiff(a, b).old = r /\ TokenDiff(a, b).new = s
    BY <1>1, TokenDiffIs
  <2>2. /\ r \in Segments /\ Len(r) = Len(a)
        /\ \A x \in 1 .. Len(a) : r[x].token = a[x] /\ r[x].kind = "del"
    <3> DEFINE Seg == [kind : {"same", "del", "add"}, token : STRING]
    <3>1. r = [k \in 1 .. Len(a) |-> [kind |-> "del", token |-> a[k]]]
      BY DEF Whole
    <3>2. \A k \in 1 .. Len(a) : [kind |-> "del", token |-> a[k]] \in Seg
      OBVIOUS
    <3>3. r \in [1 .. Len(a) -> Seg]
      BY <3>1, <3>2
    <3>4. r \in Seq(Seg) /\ Len(r) = Len(a)
      <4> HIDE DEF r, Seg
      <4>1. QED
        BY <1>0, <3>3
    <3>5. \A x \in 1 .. Len(a) : r[x].token = a[x] /\ r[x].kind = "del"
      BY <3>1
    <3>6. QED
      BY <3>4, <3>5 DEF Segments
  <2>3. /\ s \in Segments /\ Len(s) = Len(b)
        /\ \A x \in 1 .. Len(b) : s[x].token = b[x] /\ s[x].kind = "add"
    <3> DEFINE Seg == [kind : {"same", "del", "add"}, token : STRING]
    <3>1. s = [k \in 1 .. Len(b) |-> [kind |-> "add", token |-> b[k]]]
      BY DEF Whole
    <3>2. \A k \in 1 .. Len(b) : [kind |-> "add", token |-> b[k]] \in Seg
      OBVIOUS
    <3>3. s \in [1 .. Len(b) -> Seg]
      BY <3>1, <3>2
    <3>4. s \in Seq(Seg) /\ Len(s) = Len(b)
      <4> HIDE DEF s, Seg
      <4>1. QED
        BY <1>0, <3>3
    <3>5. \A x \in 1 .. Len(b) : s[x].token = b[x] /\ s[x].kind = "add"
      BY <3>1
    <3>6. QED
      BY <3>4, <3>5 DEF Segments
  <2> HIDE DEF r, s
  <2>4. Cuts(r, a, {"same", "del"}) /\ Cuts(s, b, {"same", "add"})
    BY <2>2, <2>3 DEF Cuts
  <2>5. Kept(r) = {} /\ Kept(s) = {}
    BY <2>2, <2>3 DEF Kept
  <2>6. Common(a, b, {}, {})
    <3>1. [x \in {} |-> 0] \in [{} -> {}]
      OBVIOUS
    <3>2. QED
      BY <3>1 DEF Common, Onto
  <2>7. ~(Len(a) <= TokenCap /\ Len(b) <= TokenCap)
    BY <1>0, <1>1, ReviewAssumption
  <2>8. Exact(a, b, r, s)
    BY <2>4, <2>5, <2>6, <2>7 DEF Exact
  <2>9. r \in Segments /\ s \in Segments
    BY <2>2, <2>3
  <2>10. QED
    BY <2>1, <2>8, <2>9
<1>2. CASE ~(Len(a) > TokenCap \/ Len(b) > TokenCap)
  <2> DEFINE r == OldFrom(a, b, <<1, 1>>)
             s == NewFrom(a, b, <<1, 1>>)
  <2>1. TokenDiff(a, b).old = r /\ TokenDiff(a, b).new = s
    BY <1>2, TokenDiffIs
  <2>2. <<1, 1>> \in Places(a, b) /\ <<1, 1>>[1] = 1 /\ <<1, 1>>[2] = 1
    BY <1>0 DEF Places
  <2>3. Walked(a, b, 1, 1, r, s)
    BY <2>2, WalkedEverywhere DEF WalkedFrom
  <2>4. NoneLonger(a, b, <<1, 1>>)
    BY <1>0, <2>2, CommonIsLongest
  <2> HIDE DEF r, s
  <2>5. /\ SideOf(r, a, 1, {"same", "del"}) /\ SideOf(s, b, 1, {"same", "add"})
        /\ Common(a, b, KeptFrom(r, a, 1), KeptFrom(s, b, 1))
        /\ Cardinality(KeptFrom(r, a, 1)) = CommonFrom(a, b)[<<1, 1>>]
    BY <2>3 DEF Walked
  <2>6. /\ r \in Segments /\ Len(r) = Len(a)
        /\ \A x \in 1 .. Len(a) : r[x].token = a[x] /\ r[x].kind \in {"same", "del"}
    <3>1. Len(a) + 1 - 1 = Len(a) /\ \A x \in 1 .. Len(a) : 1 + x - 1 = x
      BY <1>0
    <3>2. QED
      BY <2>5, <3>1 DEF SideOf
  <2>7. /\ s \in Segments /\ Len(s) = Len(b)
        /\ \A x \in 1 .. Len(b) : s[x].token = b[x] /\ s[x].kind \in {"same", "add"}
    <3>1. Len(b) + 1 - 1 = Len(b) /\ \A x \in 1 .. Len(b) : 1 + x - 1 = x
      BY <1>0
    <3>2. QED
      BY <2>5, <3>1 DEF SideOf
  <2>8. Kept(r) = KeptFrom(r, a, 1) /\ Kept(s) = KeptFrom(s, b, 1)
    <3>1. \A x \in 1 .. Len(a) : x - 1 + 1 = x
      BY <1>0
    <3>2. \A x \in 1 .. Len(b) : x - 1 + 1 = x
      BY <1>0
    <3>3. QED
      BY <2>6, <2>7, <3>1, <3>2 DEF Kept, KeptFrom
  <2>9. Cuts(r, a, {"same", "del"}) /\ Cuts(s, b, {"same", "add"})
    BY <2>6, <2>7 DEF Cuts
  <2>10. \A S \in SUBSET (1 .. Len(a)), T \in SUBSET (1 .. Len(b)) :
           Common(a, b, S, T) => Cardinality(S) <= CommonFrom(a, b)[<<1, 1>>]
    BY <2>2, <2>4 DEF NoneLonger
  <2>11. Exact(a, b, r, s)
    BY <2>5, <2>8, <2>9, <2>10 DEF Exact
  <2>12. r \in Segments /\ s \in Segments
    BY <2>6, <2>7
  <2>13. QED
    BY <2>1, <2>11, <2>12
<1>3. QED
  BY <1>1, <1>2

\* The deleted lines from i up to the one before n that are highlighted,
Dels(lines, segs, i, n) == {y \in i .. n - 1 : segs[y - i + 1] # None /\ lines[y].type = "del"}

\* and the added ones.
Adds(lines, segs, i, n) == {y \in i .. n - 1 : segs[y - i + 1] # None /\ lines[y].type = "add"}

\* The highlights of the lines from i to n pair those of D with those of A.
Pairs(lines, segs, i, D, A, mate) ==
  /\ Onto(mate, D, A)
  /\ \A y \in D :
       Exact(lines[y].text, lines[mate[y]].text, segs[y - i + 1], segs[mate[y] - i + 1])

\* What HighlightsAreExact says, of the lines from i up to the one before n.
LitUp(lines, segs, i, n) ==
  /\ segs \in Seq(Segments \cup {None}) /\ Len(segs) = n - i
  /\ \A y \in i .. n - 1 : segs[y - i + 1] # None => lines[y].type \in {"del", "add"}
  /\ \E mate \in [Dels(lines, segs, i, n) -> Adds(lines, segs, i, n)] :
       Pairs(lines, segs, i, Dels(lines, segs, i, n), Adds(lines, segs, i, n), mate)

\* The pairs of two stretches of lines together.
Joins(f, D1, A1, g, D2, A2) ==
  \E h : /\ Onto(h, D1 \cup D2, A1 \cup A2)
         /\ \A y \in D1 : h[y] = f[y] /\ f[y] \in A1
         /\ \A y \in D2 : h[y] = g[y] /\ g[y] \in A2

\* They are in order when one stretch is behind the other.
LEMMA OntoJoin ==
  ASSUME NEW m \in Nat,
         NEW D1, NEW A1, NEW D2, NEW A2,
         \A y \in D1 \cup A1 : y \in Nat /\ y < m, \A y \in D2 \cup A2 : y \in Nat /\ y >= m,
         NEW f, Onto(f, D1, A1), NEW g, Onto(g, D2, A2)
  PROVE  Joins(f, D1, A1, g, D2, A2)
<1> DEFINE D == D1 \cup D2
           A == A1 \cup A2
           h == [y \in D |-> IF y \in D1 THEN f[y] ELSE g[y]]
<1>1. /\ f \in [D1 -> A1] /\ \A x, y \in D1 : x < y => f[x] < f[y]
      /\ \A y \in A1 : \E x \in D1 : f[x] = y
  BY DEF Onto
<1>2. /\ g \in [D2 -> A2] /\ \A x, y \in D2 : x < y => g[x] < g[y]
      /\ \A y \in A2 : \E x \in D2 : g[x] = y
  BY DEF Onto
<1>3. \A y \in D2 : y \notin D1
  <2> SUFFICES ASSUME NEW y \in D2, y \in D1 PROVE FALSE
    OBVIOUS
  <2>1. y \in Nat /\ y < m /\ y >= m
    OBVIOUS
  <2>2. QED
    BY <2>1
<1>4. \A y \in D1 : h[y] = f[y] /\ f[y] \in A1
  BY <1>1
<1>5. \A y \in D2 : h[y] = g[y] /\ g[y] \in A2
  BY <1>2, <1>3
<1>6. h \in [D -> A]
  <2>1. h = [y \in D |-> h[y]]
    OBVIOUS
  <2> HIDE DEF h
  <2>2. \A y \in D : h[y] \in A
    BY <1>4, <1>5
  <2>3. QED
    BY <2>1, <2>2
<1> HIDE DEF h
<1>7. \A x, y \in D : x < y => h[x] < h[y]
  <2> SUFFICES ASSUME NEW x \in D, NEW y \in D, x < y PROVE h[x] < h[y]
    OBVIOUS
  <2>1. CASE x \in D1 /\ y \in D1
    BY <1>1, <1>4, <2>1
  <2>2. CASE x \in D2 /\ y \in D2
    BY <1>2, <1>5, <2>2
  <2>3. CASE x \in D1 /\ y \in D2
    <3>1. h[x] \in A1 /\ h[y] \in A2
      BY <1>4, <1>5, <2>3
    <3>2. h[x] \in Nat /\ h[x] < m /\ h[y] \in Nat /\ h[y] >= m
      BY <3>1
    <3>3. QED
      BY <3>2
  <2>4. CASE x \in D2 /\ y \in D1
    <3>1. x \in Nat /\ x >= m /\ y \in Nat /\ y < m
      BY <2>4
    <3>2. QED
      BY <3>1
  <2>5. QED
    BY <2>1, <2>2, <2>3, <2>4
<1>8. \A y \in A : \E x \in D : h[x] = y
  <2> SUFFICES ASSUME NEW y \in A PROVE \E x \in D : h[x] = y
    OBVIOUS
  <2>1. CASE y \in A1
    BY <1>1, <1>4, <2>1
  <2>2. CASE y \in A2
    BY <1>2, <1>5, <2>2
  <2>3. QED
    BY <2>1, <2>2
<1>9. Onto(h, D, A)
  BY <1>6, <1>7, <1>8 DEF Onto
<1>10. QED
  BY <1>4, <1>5, <1>9 DEF Joins

\* So two stretches can be put together.
LEMMA LitUpJoin ==
  ASSUME NEW lines, NEW i \in Nat, NEW m \in Nat, NEW n \in Nat, i <= m, m <= n,
         NEW r, NEW s, LitUp(lines, r, i, m), LitUp(lines, s, m, n)
  PROVE  LitUp(lines, r \o s, i, n)
<1> DEFINE t == r \o s
           D1 == Dels(lines, r, i, m)
           A1 == Adds(lines, r, i, m)
           D2 == Dels(lines, s, m, n)
           A2 == Adds(lines, s, m, n)
<1>1. /\ r \in Seq(Segments \cup {None}) /\ Len(r) = m - i
      /\ s \in Seq(Segments \cup {None}) /\ Len(s) = n - m
  BY DEF LitUp
<1>2. t \in Seq(Segments \cup {None}) /\ Len(t) = Len(r) + Len(s)
      /\ \A x \in 1 .. Len(r) + Len(s) : t[x] = IF x <= Len(r) THEN r[x] ELSE s[x - Len(r)]
  BY <1>1, ConcatProperties
<1> HIDE DEF t
<1>3. Len(t) = n - i
  BY <1>1, <1>2
<1>4. \A y \in i .. m - 1 : y \in i .. n - 1 /\ t[y - i + 1] = r[y - i + 1]
  <2> TAKE y \in i .. m - 1
  <2>1. y - i + 1 \in 1 .. Len(r) + Len(s) /\ y - i + 1 <= Len(r) /\ y \in i .. n - 1
    BY <1>1
  <2>2. QED
    BY <1>2, <2>1
<1>5. \A y \in m .. n - 1 : y \in i .. n - 1 /\ t[y - i + 1] = s[y - m + 1]
  <2> TAKE y \in m .. n - 1
  <2> DEFINE x == y - i + 1
  <2>1. /\ x \in 1 .. Len(r) + Len(s) /\ ~(x <= Len(r)) /\ y \in i .. n - 1
        /\ x - Len(r) = y - m + 1
    BY <1>1
  <2> HIDE DEF x
  <2>2. t[x] = s[y - m + 1]
    BY <1>2, <2>1
  <2>3. QED
    BY <2>1, <2>2 DEF x
<1>6. \A y \in i .. n - 1 : y \in i .. m - 1 \/ y \in m .. n - 1
  OBVIOUS
<1>7. \A y \in i .. n - 1 : t[y - i + 1] # None => lines[y].type \in {"del", "add"}
  BY <1>4, <1>5, <1>6 DEF LitUp
<1>8. Dels(lines, t, i, n) = D1 \cup D2
  BY <1>4, <1>5, <1>6 DEF Dels
<1>9. Adds(lines, t, i, n) = A1 \cup A2
  BY <1>4, <1>5, <1>6 DEF Adds
<1>10. (\A y \in D1 \cup A1 : y \in i .. m - 1) /\ (\A y \in D2 \cup A2 : y \in m .. n - 1)
  BY DEF Dels, Adds
<1>11. PICK f : Pairs(lines, r, i, D1, A1, f)
  BY DEF LitUp
<1>12. PICK g : Pairs(lines, s, m, D2, A2, g)
  BY DEF LitUp
<1> HIDE DEF D1, D2, A1, A2
<1>13. PICK h : /\ Onto(h, D1 \cup D2, A1 \cup A2)
                /\ \A y \in D1 : h[y] = f[y] /\ f[y] \in A1
                /\ \A y \in D2 : h[y] = g[y] /\ g[y] \in A2
  <2>1. \A y \in D1 \cup A1 : y \in Nat /\ y < m
    BY <1>10
  <2>2. \A y \in D2 \cup A2 : y \in Nat /\ y >= m
    BY <1>10
  <2>3. Onto(f, D1, A1)
    BY <1>11 DEF Pairs
  <2>4. Onto(g, D2, A2)
    BY <1>12 DEF Pairs
  <2>5. Joins(f, D1, A1, g, D2, A2)
    BY <2>1, <2>2, <2>3, <2>4, OntoJoin
  <2>6. QED
    BY <2>5 DEF Joins
<1>14. ASSUME NEW y \in D1 \cup D2
       PROVE  Exact(lines[y].text, lines[h[y]].text, t[y - i + 1], t[h[y] - i + 1])
  <2>1. CASE y \in D1
    <3>1. Exact(lines[y].text, lines[f[y]].text, r[y - i + 1], r[f[y] - i + 1])
      BY <1>11, <2>1 DEF Pairs
    <3>2. h[y] = f[y] /\ f[y] \in i .. m - 1 /\ y \in i .. m - 1
      BY <1>10, <1>13, <2>1
    <3>3. t[y - i + 1] = r[y - i + 1] /\ t[f[y] - i + 1] = r[f[y] - i + 1]
      BY <1>4, <3>2
    <3>4. QED
      BY <3>1, <3>2, <3>3
  <2>2. CASE y \in D2
    <3>1. Exact(lines[y].text, lines[g[y]].text, s[y - m + 1], s[g[y] - m + 1])
      BY <1>12, <2>2 DEF Pairs
    <3>2. h[y] = g[y] /\ g[y] \in m .. n - 1 /\ y \in m .. n - 1
      BY <1>10, <1>13, <2>2
    <3>3. t[y - i + 1] = s[y - m + 1] /\ t[g[y] - i + 1] = s[g[y] - m + 1]
      BY <1>5, <3>2
    <3>4. QED
      BY <3>1, <3>2, <3>3
  <2>3. QED
    BY <2>1, <2>2
<1>15. Pairs(lines, t, i, Dels(lines, t, i, n), Adds(lines, t, i, n), h)
  BY <1>8, <1>9, <1>13, <1>14 DEF Pairs
<1>16. h \in [Dels(lines, t, i, n) -> Adds(lines, t, i, n)]
  BY <1>15 DEF Pairs, Onto
<1>17. LitUp(lines, t, i, n)
  BY <1>2, <1>3, <1>7, <1>15, <1>16 DEF LitUp
<1>18. QED
  BY <1>17 DEF t

\* Lines without any highlight.
LEMMA NoneLit ==
  ASSUME NEW lines, NEW i \in Nat, NEW n \in Nat, i <= n,
         NEW segs \in Seq(Segments \cup {None}), Len(segs) = n - i,
         \A x \in 1 .. n - i : segs[x] = None
  PROVE  LitUp(lines, segs, i, n)
<1>1. \A y \in i .. n - 1 : segs[y - i + 1] = None
  <2> TAKE y \in i .. n - 1
  <2> DEFINE x == y - i + 1
  <2>1. x \in 1 .. n - i
    OBVIOUS
  <2> HIDE DEF x
  <2>2. segs[x] = None
    BY <2>1
  <2>3. QED
    BY <2>2 DEF x
<1>2. Dels(lines, segs, i, n) = {} /\ Adds(lines, segs, i, n) = {}
  BY <1>1 DEF Dels, Adds
<1>3. [y \in {} |-> 0] \in [{} -> {}]
  OBVIOUS
<1>4. Pairs(lines, segs, i, {}, {}, [y \in {} |-> 0])
  BY <1>3 DEF Pairs, Onto
<1>5. QED
  BY <1>1, <1>2, <1>3, <1>4 DEF LitUp

\* The text of a line.
LEMMA LinesAre ==
  ASSUME NEW lines \in Seq(DiffLines)
  PROVE  /\ Len(lines) \in Nat
         /\ \A j \in 1 .. Len(lines) : lines[j].text \in Seq(STRING)
<1>1. \A j \in 1 .. Len(lines) : lines[j] \in DiffLines
  OBVIOUS
<1>2. QED
  BY <1>1 DEF DiffLines

\* A run of deleted lines, and one of as many added lines.
LEMMA RunsLit ==
  ASSUME NEW lines \in Seq(DiffLines), NEW i \in 1 .. Len(lines), NEW mid, NEW end,
         IsRun(lines, i, mid, end), end - mid = mid - i,
         NEW segs, segs = [k \in 1 .. end - i |->
                             IF k <= mid - i
                             THEN TokenDiff(lines[i + k - 1].text, lines[mid + k - 1].text).old
                             ELSE TokenDiff(lines[i + (k - (mid - i)) - 1].text,
                                            lines[mid + (k - (mid - i)) - 1].text).new]
  PROVE  LitUp(lines, segs, i, end)
<1> DEFINE c == mid - i
           D == i .. mid - 1
           A == mid .. end - 1
           Diff(y) == TokenDiff(lines[y].text, lines[y + c].text)
<1>1. /\ mid \in i + 1 .. Len(lines) + 1 /\ end \in mid .. Len(lines) + 1
      /\ \A j \in D : lines[j].type = "del"
      /\ \A j \in A : lines[j].type = "add"
  BY DEF IsRun
<1>2. /\ c \in Nat /\ i \in Nat /\ mid \in Nat /\ end \in Nat /\ Len(lines) \in Nat
      /\ mid = i + c /\ end = mid + c /\ end - i \in Nat
  BY <1>1
<1>3. \A y \in D : /\ Exact(lines[y].text, lines[y + c].text, Diff(y).old, Diff(y).new)
                   /\ Diff(y).old \in Segments /\ Diff(y).new \in Segments
  <2> TAKE y \in D
  <2>1. y \in 1 .. Len(lines) /\ y + c \in 1 .. Len(lines)
    BY <1>1, <1>2
  <2>2. lines[y].text \in Seq(STRING) /\ lines[y + c].text \in Seq(STRING)
    BY <2>1, LinesAre
  <2>3. QED
    BY <2>2, TokenDiffExact
<1>4. \A k \in 1 .. end - i :
        segs[k] = IF k <= c THEN TokenDiff(lines[i + k - 1].text, lines[mid + k - 1].text).old
                  ELSE TokenDiff(lines[i + (k - c) - 1].text, lines[mid + (k - c) - 1].text).new
  OBVIOUS
<1>5. \A y \in D : segs[y - i + 1] = Diff(y).old
  <2> TAKE y \in D
  <2>1. /\ y - i + 1 \in 1 .. end - i /\ y - i + 1 <= c
        /\ i + (y - i + 1) - 1 = y /\ mid + (y - i + 1) - 1 = y + c
    BY <1>2
  <2>2. QED
    BY <1>4, <2>1
<1>6. \A y \in A : y - c \in D /\ segs[y - i + 1] = Diff(y - c).new
  <2> TAKE y \in A
  <2> DEFINE x == y - i + 1
             v == i + (x - c) - 1
             w == mid + (x - c) - 1
  <2>1. x \in 1 .. end - i /\ ~(x <= c) /\ y - c \in D
    BY <1>2
  <2>2. v = y - c /\ w = y - c + c
    BY <1>2
  <2>3. segs[x] = TokenDiff(lines[v].text, lines[w].text).new
    <3> HIDE DEF x
    <3>1. QED
      BY <1>4, <2>1
  <2> HIDE DEF v, w
  <2>4. segs[x] = Diff(y - c).new
    BY <2>2, <2>3
  <2>5. QED
    BY <2>1, <2>4
<1>7. \A y \in i .. end - 1 : y \in D \/ y \in A
  BY <1>2
<1>8. \A y \in i .. end - 1 : segs[y - i + 1] \in Segments
  BY <1>3, <1>5, <1>6, <1>7
<1>9. segs \in Seq(Segments \cup {None}) /\ Len(segs) = end - i
  <2>1. \A k \in 1 .. end - i : segs[k] \in Segments
    <3> TAKE k \in 1 .. end - i
    <3> DEFINE y == i + k - 1
    <3>1. y \in i .. end - 1 /\ y - i + 1 = k
      <4>1. i \in Nat /\ end \in Nat
        BY <1>2
      <4>2. QED
        BY <4>1
    <3> HIDE DEF y
    <3>2. segs[y - i + 1] \in Segments
      BY <1>8, <3>1
    <3>3. QED
      BY <3>1, <3>2
  <2> DEFINE m == end - i
             Marks == Segments \cup {None}
  <2>2. m \in Nat
    BY <1>2 DEF m
  <2>3. \A k \in 1 .. m : segs[k] \in Marks
    BY <2>1
  <2>4. segs = [k \in 1 .. m |-> segs[k]]
    OBVIOUS
  <2> HIDE DEF m, Marks
  <2>5. segs \in [1 .. m -> Marks]
    BY <2>3, <2>4
  <2>6. segs \in Seq(Marks) /\ Len(segs) = m
    BY <2>2, <2>5, ListsAre
  <2>7. QED
    BY <2>6 DEF m, Marks
<1>10. \A y \in i .. end - 1 : segs[y - i + 1] # None
  BY <1>8, ReviewAssumption
<1>11. Dels(lines, segs, i, end) = D /\ Adds(lines, segs, i, end) = A
  <2>1. \A y \in D : y \in i .. end - 1 /\ lines[y].type = "del" /\ lines[y].type # "add"
    BY <1>1, <1>2
  <2>2. \A y \in A : y \in i .. end - 1 /\ lines[y].type = "add" /\ lines[y].type # "del"
    BY <1>1, <1>2
  <2> HIDE DEF D, A
  <2>3. QED
    BY <1>7, <1>10, <2>1, <2>2 DEF Dels, Adds
<1> DEFINE mate == [y \in D |-> y + c]
<1>12. Onto(mate, D, A)
  <2>1. mate \in [D -> A] /\ \A x, y \in D : x < y => mate[x] < mate[y]
    BY <1>2
  <2>2. \A y \in A : y - c \in D /\ mate[y - c] = y
    BY <1>2
  <2> HIDE DEF mate, D, A
  <2>3. QED
    BY <2>1, <2>2 DEF Onto
<1>13. \A y \in D : mate[y] = y + c /\ y + c \in A
  BY <1>2
<1> HIDE DEF mate
<1>14. ASSUME NEW y \in D
       PROVE  Exact(lines[y].text, lines[mate[y]].text, segs[y - i + 1], segs[mate[y] - i + 1])
  <2> DEFINE z == y + c
  <2>1. mate[y] = z /\ z \in A /\ z - c = y
    <3>1. mate[y] = y + c /\ y + c \in A
      BY <1>13
    <3>2. y \in Int /\ c \in Int
      BY <1>2
    <3> HIDE DEF D, A, c
    <3>3. mate[y] = z /\ z \in A
      BY <3>1
    <3>4. z - c = y
      BY <3>2
    <3>5. QED
      BY <3>3, <3>4
  <2>2. segs[z - i + 1] = Diff(z - c).new
    BY <1>6, <2>1
  <2>3. Exact(lines[y].text, lines[z].text, Diff(y).old, Diff(y).new)
    BY <1>3
  <2>4. segs[y - i + 1] = Diff(y).old
    BY <1>5
  <2> HIDE DEF Diff, D, A, z
  <2>5. segs[z - i + 1] = Diff(y).new
    BY <2>1, <2>2
  <2>6. QED
    BY <2>1, <2>3, <2>4, <2>5
<1>15. Pairs(lines, segs, i, D, A, mate)
  BY <1>12, <1>14 DEF Pairs
<1>16. \A y \in i .. end - 1 : lines[y].type \in {"del", "add"}
  BY <1>1, <1>7
<1>17. mate \in [D -> A]
  BY <1>12 DEF Onto
<1>18. QED
  BY <1>9, <1>11, <1>15, <1>16, <1>17 DEF LitUp

\* The body of the loop.
LEMMA HighlightsAtLit ==
  ASSUME NEW lines \in Seq(DiffLines), NEW i \in 1 .. Len(lines)
  PROVE  LitUp(lines, HighlightsAt(lines, i), i, NextRun(lines, i))
<1>0. Len(lines) \in Nat /\ i \in Nat
  OBVIOUS
<1>1. CASE lines[i].type # "del"
  <2> DEFINE one == <<None>>
             m == i + 1
  <2>1. HighlightsAt(lines, i) = one /\ NextRun(lines, i) = m
    BY <1>1 DEF HighlightsAt, NextRun
  <2>2. one \in Seq(Segments \cup {None}) /\ Len(one) = 1 /\ one[1] = None
    OBVIOUS
  <2>3. m \in Nat /\ i <= m /\ m - i = 1
    BY <1>0
  <2> HIDE DEF one, m
  <2>4. \A x \in 1 .. m - i : one[x] = None
    BY <2>2, <2>3
  <2>5. LitUp(lines, one, i, m)
    BY <1>0, <2>2, <2>3, <2>4, NoneLit
  <2>6. QED
    BY <2>1, <2>5
<1>2. CASE lines[i].type = "del"
  <2> DEFINE mid == RunEnd(lines, i, "del")
             end == RunEnd(lines, mid, "add")
             none == [k \in 1 .. end - i |-> None]
             segs == [k \in 1 .. end - i |->
                        IF k <= mid - i
                        THEN TokenDiff(lines[i + k - 1].text, lines[mid + k - 1].text).old
                        ELSE TokenDiff(lines[i + (k - (mid - i)) - 1].text,
                                       lines[mid + (k - (mid - i)) - 1].text).new]
  <2>1. HighlightsAt(lines, i) = (IF end - mid # mid - i THEN none ELSE segs)
        /\ NextRun(lines, i) = end
    BY <1>2 DEF HighlightsAt, NextRun
  <2>2. IsRun(lines, i, mid, end)
    BY <1>0, <1>2, RunIs
  <2> HIDE DEF mid, end
  <2>3. mid \in Nat /\ end \in Nat /\ i <= end /\ end - i \in Nat
    BY <1>0, <2>2 DEF IsRun
  <2>4. CASE end - mid # mid - i
    <3>1. none \in [1 .. end - i -> Segments \cup {None}] /\ \A x \in 1 .. end - i : none[x] = None
      OBVIOUS
    <3> HIDE DEF none
    <3>2. none \in Seq(Segments \cup {None}) /\ Len(none) = end - i
      BY <2>3, <3>1
    <3>3. LitUp(lines, none, i, end)
      BY <1>0, <2>3, <3>1, <3>2, NoneLit
    <3>4. QED
      BY <2>1, <2>4, <3>3
  <2>5. CASE end - mid = mid - i
    <3>1. LitUp(lines, segs, i, end)
      BY <2>2, <2>5, RunsLit
    <3>2. QED
      BY <2>1, <2>5, <3>1
  <2>6. QED
    BY <2>4, <2>5
<1>3. QED
  BY <1>1, <1>2

\* By induction from the end of the hunk backwards.
LEMMA HighlightsLit ==
  ASSUME NEW lines \in Seq(DiffLines)
  PROVE  LitUp(lines, Highlights(lines), 1, Len(lines) + 1)
<1> DEFINE n == Len(lines)
           piece == [i \in 1 .. n |-> HighlightsAt(lines, i)]
           Good(i) == LitUp(lines, RunFrom(lines, piece, i), i, n + 1)
           S == {k \in Nat : \A i \in 1 .. n + 1 : n + 1 - i <= k => Good(i)}
<1>0. n \in Nat
  OBVIOUS
<1>1. /\ RunByRun(lines, piece) = RunFrom(lines, piece, 1)
      /\ RunFrom(lines, piece, n + 1) = <<>>
      /\ \A i \in 1 .. n :
           RunFrom(lines, piece, i) = HighlightsAt(lines, i) \o RunFrom(lines, piece, NextRun(lines, i))
  BY <1>0, RunFromUnfolds
<1> HIDE DEF piece
<1>2. Good(n + 1)
  <2>1. <<>> \in Seq(Segments \cup {None}) /\ Len(<<>>) = 0
    OBVIOUS
  <2>2. n + 1 \in Nat /\ n + 1 <= n + 1 /\ n + 1 - (n + 1) = 0 /\ \A x \in 1 .. 0 : <<>>[x] = None
    BY <1>0
  <2>3. LitUp(lines, <<>>, n + 1, n + 1)
    <3> DEFINE m == n + 1
    <3>1. m \in Nat /\ m <= m /\ m - m = 0
      BY <2>2
    <3> HIDE DEF m
    <3>2. \A x \in 1 .. m - m : <<>>[x] = None
      BY <2>2, <3>1
    <3>3. LitUp(lines, <<>>, m, m)
      BY <2>1, <3>1, <3>2, NoneLit
    <3>4. QED
      BY <3>3 DEF m
  <2>4. QED
    BY <1>1, <2>3
<1>3. 0 \in S
  <2>1. \A i \in 1 .. n + 1 : n + 1 - i <= 0 => i = n + 1
    BY <1>0
  <2> HIDE DEF Good
  <2>2. QED
    BY <1>2, <2>1
<1>4. ASSUME NEW k \in Nat, k \in S
      PROVE  k + 1 \in S
  <2>1. ASSUME NEW i \in 1 .. n, n + 1 - i <= k + 1
        PROVE  Good(i)
    <3> DEFINE m == NextRun(lines, i)
    <3>1. m \in i + 1 .. n + 1
      BY <1>0, NextRunIs
    <3>2. Good(m)
      <4> HIDE DEF Good, m
      <4>1. m \in 1 .. n + 1 /\ n + 1 - m <= k
        BY <1>0, <2>1, <3>1
      <4>2. QED
        BY <1>4, <4>1
    <3>3. LitUp(lines, HighlightsAt(lines, i), i, m)
      BY HighlightsAtLit
    <3>4. RunFrom(lines, piece, i) = HighlightsAt(lines, i) \o RunFrom(lines, piece, m)
      BY <1>1
    <3> HIDE DEF m
    <3>5. i \in Nat /\ m \in Nat /\ n + 1 \in Nat /\ i <= m /\ m <= n + 1
      BY <1>0, <3>1
    <3>6. LitUp(lines, HighlightsAt(lines, i) \o RunFrom(lines, piece, m), i, n + 1)
      BY <3>2, <3>3, <3>5, LitUpJoin
    <3>7. QED
      BY <3>4, <3>6
  <2>2. \A i \in 1 .. n + 1 : i = n + 1 \/ i \in 1 .. n
    BY <1>0
  <2> HIDE DEF Good
  <2>3. QED
    BY <1>2, <2>1, <2>2
<1>5. Good(1)
  <2> HIDE DEF Good
  <2>1. n \in S
    <3> HIDE DEF S
    <3>1. QED
      BY <1>0, <1>3, <1>4, NatSetInduction
  <2>2. QED
    BY <1>0, <2>1
<1>6. QED
  BY <1>1, <1>5 DEF Highlights, piece

\* The whole hunk.
LEMMA LitOfLines ==
  ASSUME NEW lines, Len(lines) \in Nat, NEW segs, LitUp(lines, segs, 1, Len(lines) + 1)
  PROVE  /\ Len(segs) = Len(lines)
         /\ \A x \in 1 .. Len(segs) :
              segs[x] # None => x \in Lit(lines, segs, "del") \cup Lit(lines, segs, "add")
         /\ \E mate \in [Lit(lines, segs, "del") -> Lit(lines, segs, "add")] :
              /\ Onto(mate, Lit(lines, segs, "del"), Lit(lines, segs, "add"))
              /\ \A x \in Lit(lines, segs, "del") :
                   Exact(lines[x].text, lines[mate[x]].text, segs[x], segs[mate[x]])
<1> DEFINE n == Len(lines) + 1
           D == Lit(lines, segs, "del")
           A == Lit(lines, segs, "add")
<1>1. Len(segs) = Len(lines) /\ n - 1 = Len(lines)
  BY DEF LitUp
<1>2. \A x \in 1 .. Len(segs) : x - 1 + 1 = x
  BY <1>1
<1>3. Dels(lines, segs, 1, n) = D /\ Adds(lines, segs, 1, n) = A
  BY <1>1, <1>2 DEF Dels, Adds, Lit
<1>4. \A x \in 1 .. Len(segs) : segs[x] # None => x \in D \cup A
  <2>1. \A x \in 1 .. n - 1 : segs[x - 1 + 1] # None => lines[x].type \in {"del", "add"}
    BY DEF LitUp
  <2>2. \A x \in 1 .. Len(segs) : segs[x] # None => lines[x].type \in {"del", "add"}
    BY <1>1, <1>2, <2>1
  <2>3. QED
    BY <2>2 DEF Lit
<1>5. PICK mate \in [D -> A] : Pairs(lines, segs, 1, D, A, mate)
  <2> HIDE DEF D, A
  <2>1. QED
    BY <1>3 DEF LitUp
<1>6. \A x \in D : x \in 1 .. Len(segs) /\ mate[x] \in A
  BY DEF Lit
<1>7. \A x \in A : x \in 1 .. Len(segs)
  BY DEF Lit
<1> HIDE DEF D, A
<1>8. \A x \in D : Exact(lines[x].text, lines[mate[x]].text, segs[x], segs[mate[x]])
  <2> TAKE x \in D
  <2>1. Exact(lines[x].text, lines[mate[x]].text, segs[x - 1 + 1], segs[mate[x] - 1 + 1])
    BY <1>5 DEF Pairs
  <2>2. x - 1 + 1 = x /\ mate[x] - 1 + 1 = mate[x]
    BY <1>2, <1>6, <1>7
  <2>3. QED
    BY <2>1, <2>2
<1>9. Onto(mate, D, A)
  BY <1>5 DEF Pairs
<1>10. QED
  BY <1>1, <1>4, <1>8, <1>9 DEF D, A

\* Whatever the texts of a hunk's lines are: the highlighted words of a line and the
\* others are the line, deleted and added lines are highlighted in pairs, and in a pair
\* the words that are not highlighted are the same in both, and (up to the cap) as many
\* as any two texts like these have in common.
THEOREM HighlightsExact == ReviewSpec => []HighlightsAreExact
<1>1. ParserInv => HighlightsAreExact
  <2> SUFFICES ASSUME ParserInv, NEW h \in Hunks
               PROVE  /\ Len(Highlights(h.lines)) = Len(h.lines)
                      /\ \A x \in 1 .. Len(Highlights(h.lines)) :
                           Highlights(h.lines)[x] # None =>
                             x \in Lit(h.lines, Highlights(h.lines), "del")
                                     \cup Lit(h.lines, Highlights(h.lines), "add")
                      /\ \E mate \in [Lit(h.lines, Highlights(h.lines), "del") ->
                                        Lit(h.lines, Highlights(h.lines), "add")] :
                           /\ Onto(mate, Lit(h.lines, Highlights(h.lines), "del"),
                                   Lit(h.lines, Highlights(h.lines), "add"))
                           /\ \A x \in Lit(h.lines, Highlights(h.lines), "del") :
                                Exact(h.lines[x].text, h.lines[mate[x]].text,
                                      Highlights(h.lines)[x], Highlights(h.lines)[mate[x]])
    BY DEF HighlightsAreExact
  <2>1. h.lines \in Seq(DiffLines)
    BY HunksTyped DEF DiffHunks
  <2>2. LitUp(h.lines, Highlights(h.lines), 1, Len(h.lines) + 1) /\ Len(h.lines) \in Nat
    BY <2>1, HighlightsLit
  <2>3. QED
    BY <2>2, LitOfLines
<1>2. QED
  BY <1>1, ParserInvariance, PTL

-----------------------------------------------------------------------------
(* The marks of viewed files, whatever the parser has made of the diff.    *)

\* While a request is on the page, its files stay the same.
LEMMA FilesStay ==
  ASSUME IInv, [ReviewNext]_rvars, request # 0
  PROVE  UNCHANGED <<parsed, ended>>
<1>1. ended
  BY DEF IInv, MarkedInv
<1>2. CASE Next
  BY <1>1, <1>2 DEF Next, WriteFile, WriteHunk, WriteLine, WriteNoNewline, End
<1>3. CASE PageNext
  BY <1>3 DEF PageNext, NextReview, Reload, RenderReview, SwitchTab, RerenderFilesPanel,
     PressV, PressJ, PressK, Focus, ClickBox, MarkViewed, vars
<1>4. QED
  BY <1>2, <1>3 DEF ReviewNext, rvars, vars

\* Nobody marks a file before there is a request.
LEMMA DiffStep ==
  ASSUME IInv, Next, UNCHANGED page
  PROVE  IInv'
<1>1. ~ended
  BY DEF Next, WriteFile, WriteHunk, WriteLine, WriteNoNewline, End
<1>2. request = 0 /\ viewed = {} /\ marked = {} /\ storage = {} /\ active = 1
  BY <1>1 DEF IInv, MarkedInv
<1>3. UNCHANGED <<request, viewed, marked, storage, active>>
  BY DEF page
<1>4. QED
  BY <1>2, <1>3, FS_EmptySet DEF IInv, MarkedInv, ViewedInv

\* A request that is new on the page has no marks yet, and none in the storage.
LEMMA NextReviewStep ==
  ASSUME IInv, NextReview
  PROVE  IInv'
<1>1. /\ ended' /\ request' = request + 1 /\ request' \in Nat \ {0}
      /\ marked' = {} /\ active' = 1 /\ FileCount' = FileCount
      /\ storage' = storage \/ storage' \in {{}, None}
      /\ request = 0 => storage' \in {{}, None}
  BY DEF IInv, MarkedInv, NextReview, RenderReview, FileCount, vars
<1>2. Stored(request + 1) = {}
  BY DEF IInv, ViewedInv, MarkedInv, Stored
<1>3. viewed' = {}
  BY <1>2 DEF NextReview, RenderReview
<1>4. MarkedInv'
  BY <1>1, FS_EmptySet DEF MarkedInv
<1>5. ViewedInv'
  BY <1>1, <1>3 DEF IInv, ViewedInv, MarkedInv
<1>6. QED
  BY <1>4, <1>5 DEF IInv

\* A page that is loaded again counts as viewed what the storage has.
LEMMA ReloadStep ==
  ASSUME IInv, Reload
  PROVE  IInv'
<1>1. /\ request # 0 /\ UNCHANGED <<request, ended, parsed, storage, marked>>
      /\ viewed' = Stored(request) /\ active' = 1
  BY DEF Reload, RenderReview, vars
<1>2. MarkedKeys' = MarkedKeys /\ FileCount' = FileCount
  BY <1>1 DEF MarkedKeys, FileKey, FileCount
<1>3. Stored(request) \subseteq MarkedKeys
  BY DEF IInv, ViewedInv, Stored
<1>4. QED
  BY <1>1, <1>2, <1>3 DEF IInv, ViewedInv, MarkedInv

\* Marking a file, or taking the mark back, keeps the marks and what they are kept as
\* in step.
LEMMA MarkStep ==
  ASSUME IInv, request # 0, NEW i, FileCount \in Nat => i \in 1 .. FileCount,
         NEW on \in BOOLEAN, MarkViewed(i, on)
  PROVE  IInv'
<1>1. /\ UNCHANGED <<request, ended, parsed, active>>
      /\ viewed' = Marked(viewed, FileKey(i), on)
      /\ marked' = Marked(marked, i, on)
      /\ storage' = IF storage = None THEN None
                    ELSE Marked(storage, <<request, FileKey(i)>>, on)
  BY DEF MarkViewed, vars
<1>2. FileCount' = FileCount /\ \A j : FileKey(j)' = FileKey(j)
  BY <1>1 DEF FileCount, FileKey
<1>3. \A k \in MarkedKeys : k # FileKey(i) => k \in MarkedKeys'
  BY <1>1, <1>2 DEF MarkedKeys, Marked
<1>4. on => MarkedKeys \subseteq MarkedKeys' /\ FileKey(i) \in MarkedKeys'
  BY <1>1, <1>2 DEF MarkedKeys, Marked
<1>5. MarkedInv'
  <2>1. IsFiniteSet(marked')
    BY <1>1, FS_AddElement, FS_RemoveElement DEF IInv, MarkedInv, Marked
  <2>2. QED
    BY <1>1, <1>2, <2>1 DEF IInv, MarkedInv, Marked
<1>6. ViewedInv'
  <2>1. viewed' \subseteq MarkedKeys'
    BY <1>1, <1>3, <1>4 DEF IInv, ViewedInv, Marked
  <2>2. ASSUME storage' # None, NEW e \in storage'
        PROVE  /\ e = <<e[1], e[2]>> /\ e[1] \in 1 .. request'
               /\ e[1] = request' => e[2] \in MarkedKeys'
    <3>1. storage # None /\ storage' = Marked(storage, <<request, FileKey(i)>>, on)
      BY <1>1, <2>2
    <3>2. CASE e = <<request, FileKey(i)>> /\ on
      BY <1>1, <1>4, <3>2 DEF IInv, MarkedInv
    <3>3. CASE e \in storage /\ (on \/ e # <<request, FileKey(i)>>)
      <4>1. /\ e = <<e[1], e[2]>> /\ e[1] \in 1 .. request
            /\ e[1] = request => e[2] \in MarkedKeys
        BY <3>1, <3>3 DEF IInv, ViewedInv
      <4>2. QED
        BY <1>1, <1>3, <1>4, <3>3, <4>1
    <3>4. QED
      BY <2>2, <3>1, <3>2, <3>3 DEF Marked
  <2>3. QED
    BY <2>1, <2>2 DEF ViewedInv
<1>7. QED
  BY <1>5, <1>6 DEF IInv

\* The keys j and k stay within the files.  Going to another file marks nothing.
LEMMA FocusStep ==
  ASSUME IInv, NEW i, FileCount \in Nat \ {0} => i \in 1 .. FileCount, Focus(i)
  PROVE  IInv'
<1>1. request # 0 /\ UNCHANGED <<request, ended, parsed, viewed, storage, marked>> /\ active' = i
  BY DEF Focus, vars
<1>2. MarkedKeys' = MarkedKeys /\ FileCount' = FileCount
  BY <1>1 DEF MarkedKeys, FileKey, FileCount
<1>3. QED
  BY <1>1, <1>2 DEF IInv, ViewedInv, MarkedInv

\* Whatever the human does on the page.
LEMMA PageStep ==
  ASSUME IInv, PageNext
  PROVE  IInv'
<1>1. CASE NextReview
  BY <1>1, NextReviewStep
<1>2. CASE Reload
  BY <1>2, ReloadStep
<1>3. CASE SwitchTab \/ RerenderFilesPanel
  <2>1. UNCHANGED <<parsed, ended, request, viewed, active, storage, marked>>
    BY <1>3 DEF SwitchTab, RerenderFilesPanel, vars
  <2>2. MarkedKeys' = MarkedKeys /\ FileCount' = FileCount
    BY <2>1 DEF MarkedKeys, FileKey, FileCount
  <2>3. QED
    BY <2>1, <2>2 DEF IInv, ViewedInv, MarkedInv
<1>4. CASE PressV
  <2>1. /\ request # 0 /\ MarkViewed(active, FileKey(active) \notin viewed)
        /\ FileCount > 0
    BY <1>4 DEF PressV
  <2>2. FileCount \in Nat => active \in 1 .. FileCount
    BY <2>1 DEF IInv, MarkedInv
  <2>3. QED
    BY <2>1, <2>2, MarkStep
<1>5. CASE PressJ
  <2>1. FileCount > 0 /\ Focus(Min({active + 1, FileCount}))
    BY <1>5 DEF PressJ
  <2>2. ASSUME FileCount \in Nat \ {0}
        PROVE  Min({active + 1, FileCount}) \in 1 .. FileCount
    <3>1. active \in 1 .. FileCount
      BY <2>2 DEF IInv, MarkedInv
    <3>2. QED
      BY <2>2, <3>1, MinMax
  <2>3. QED
    BY <2>1, <2>2, FocusStep
<1>6. CASE PressK
  <2>1. FileCount > 0 /\ Focus(Max({active - 1, 1}))
    BY <1>6 DEF PressK
  <2>2. ASSUME FileCount \in Nat \ {0}
        PROVE  Max({active - 1, 1}) \in 1 .. FileCount
    <3>1. active \in 1 .. FileCount
      BY <2>2 DEF IInv, MarkedInv
    <3>2. /\ Max({active - 1, 1}) \in {active - 1, 1}
          /\ Max({active - 1, 1}) >= 1
      BY <2>2, <3>1, MinMax
    <3>3. QED
      BY <2>2, <3>1, <3>2
  <2>3. QED
    BY <2>1, <2>2, FocusStep
<1>7. CASE \E i \in 1 .. FileCount : ClickBox(i) \/ Focus(i)
  <2>1. PICK i \in 1 .. FileCount : ClickBox(i) \/ Focus(i)
    BY <1>7
  <2>2. CASE ClickBox(i)
    <3>1. request # 0 /\ MarkViewed(i, i \notin boxes)
      BY <2>2 DEF ClickBox
    <3>2. QED
      BY <3>1, MarkStep
  <2>3. CASE Focus(i)
    BY <2>3, FocusStep
  <2>4. QED
    BY <2>1, <2>2, <2>3
<1>8. QED
  BY <1>1, <1>2, <1>3, <1>4, <1>5, <1>6, <1>7 DEF PageNext

\* The inductive invariant of the marks.
THEOREM Invariance == ReviewSpec => []IInv
<1>1. ReviewInit => IInv
  BY FS_EmptySet DEF ReviewInit, PageInit, IInv, MarkedInv, ViewedInv
<1>2. IInv /\ [ReviewNext]_rvars => IInv'
  <2>1. ASSUME IInv, UNCHANGED rvars
        PROVE  IInv'
    <3>1. UNCHANGED <<parsed, ended, request, viewed, active, storage, marked>>
      BY <2>1 DEF rvars, vars, page
    <3>2. MarkedKeys' = MarkedKeys /\ FileCount' = FileCount
      BY <3>1 DEF MarkedKeys, FileKey, FileCount
    <3>3. QED
      BY <2>1, <3>1, <3>2 DEF IInv, ViewedInv, MarkedInv
  <2>2. QED
    BY <2>1, DiffStep, PageStep DEF ReviewNext
<1>3. QED
  BY <1>1, <1>2, PTL DEF ReviewSpec

\* When as many names count as viewed as there are files, the human has marked every
\* one of the files, for any diff, and whatever the parser has made of it.
THEOREM ViewedMeansMarked == ReviewSpec => []AllViewedMeansEachMarked
<1>1. IInv => AllViewedMeansEachMarked
  <2> SUFFICES ASSUME IInv, request # 0, Cardinality(viewed) = FileCount
               PROVE  marked = 1 .. FileCount
    BY DEF AllViewedMeansEachMarked
  <2>1. /\ IsFiniteSet(MarkedKeys)
        /\ Cardinality(MarkedKeys) <= Cardinality(marked)
    <3> DEFINE f == [i \in marked |-> FileKey(i)]
    <3>1. f \in Surjection(marked, MarkedKeys)
      BY DEF MarkedKeys, Surjection
    <3>2. QED
      BY <3>1, FS_Surjection DEF IInv, MarkedInv, ExistsSurjection
  <2>2. IsFiniteSet(viewed) /\ Cardinality(viewed) <= Cardinality(MarkedKeys)
    BY <2>1, FS_Subset DEF IInv, ViewedInv
  <2>3. /\ FileCount \in Nat
        /\ Cardinality(marked) \in Nat /\ Cardinality(MarkedKeys) \in Nat
    BY <2>1, <2>2, FS_CardinalityType DEF IInv, MarkedInv
  <2>4. marked \subseteq 1 .. FileCount
    BY <2>3 DEF IInv, MarkedInv
  <2>5. IsFiniteSet(1 .. FileCount) /\ Cardinality(1 .. FileCount) = FileCount
    BY <2>3, FS_Interval
  <2>6. FileCount <= Cardinality(marked)
    BY <2>1, <2>2, <2>3
  <2>7. marked # 1 .. FileCount => Cardinality(marked) < Cardinality(1 .. FileCount)
    <3>1. marked \in SUBSET (1 .. FileCount)
      BY <2>4
    <3>2. /\ Cardinality(marked) <= Cardinality(1 .. FileCount)
          /\ Cardinality(1 .. FileCount) = Cardinality(marked) => 1 .. FileCount = marked
      BY <2>5, <3>1, FS_Subset
    <3>3. QED
      BY <2>3, <2>5, <3>2
  <2>8. QED
    BY <2>3, <2>5, <2>6, <2>7
<1>2. QED
  BY <1>1, Invariance, PTL
=============================================================================
