------------------------------- MODULE Review -------------------------------
(***************************************************************************)
(* The review page (assets/app.js), which shows the parsed diff: unified   *)
(* or side by side, with the changed words highlighted, and with a mark    *)
(* for every file that the human has viewed.                               *)
(*                                                                         *)
(* The marks are kept in the browser's storage, for each request and each  *)
(* file name.  The boxes on the page are drawn unchecked whenever the      *)
(* files panel is rendered.  Layout (cards that are folded, the filter of  *)
(* the tree, the wrap of lines, the theme) is left out.                    *)
(*                                                                         *)
(* Auxiliary state, read by no guard: marked.                              *)
(***************************************************************************)
EXTENDS UnifiedDiff, FiniteSetsExt

CONSTANTS
  TokenCap,    \* TOKEN_DIFF_CAP
  MaxShown,    \* bound: lines of a diff that the human reviews
  MaxRequests  \* bound: requests for one diff

\* A highlighted text, token by token.  (Neighbours of one kind are one segment.)
Segments == Seq([kind : {"same", "del", "add"}, token : STRING])

ASSUME ReviewAssumption ==
  /\ {TokenCap, MaxShown, MaxRequests} \subseteq Nat
  /\ None \notin Segments

VARIABLES
  request,  \* the pending request on the page, 0 before the first
  viewed,   \* viewedFiles: the names of files marked as viewed
  boxes,    \* the files whose box is checked
  active,   \* activeFileIndex
  tab,      \* the open tab
  storage,  \* what localStorage keeps: <<request, name>>; None if it is disabled
  marked    \* auxiliary: the files that the human marked, and did not unmark since

page  == <<request, viewed, boxes, active, tab, storage, marked>>
rvars == <<vars, page>>

-----------------------------------------------------------------------------
(* How a hunk is shown.                                                    *)

\* What a loop pushes from a place on, when its body pushes piece[p] at the place p and
\* goes on to next[p].
Pushed(places, piece, next, start) ==
  LET out[p \in places] == IF p \in DOMAIN piece THEN piece[p] \o out[next[p]] ELSE <<>>
  IN out[start]

\* The end of the run of lines of a type that starts at i: the first after it.
RunEnd(lines, i, type) ==
  CHOOSE e \in i .. Len(lines) + 1 :
    /\ \A j \in i .. e - 1 : lines[j].type = type
    /\ e = Len(lines) + 1 \/ lines[e].type # type

\* The two loops over the lines of a hunk take a run of deleted lines together with
\* the run of added lines behind it, and any other line alone.
NextRun(lines, i) ==
  IF lines[i].type = "del" THEN RunEnd(lines, RunEnd(lines, i, "del"), "add") ELSE i + 1

RunByRun(lines, piece) ==
  Pushed(1 .. Len(lines) + 1, piece, [i \in 1 .. Len(lines) |-> NextRun(lines, i)], 1)

\* The line k of the run that ends at end.
At(i, end) == IF i < end THEN i ELSE None

RowsAtUnpadded(lines, i) ==
  LET mid == RunEnd(lines, i, "del")
      end == RunEnd(lines, mid, "add")
  IN CASE lines[i].type = "context" -> <<[left |-> i, right |-> i]>>
       [] lines[i].type = "add" -> <<[left |-> None, right |-> i]>>
       [] lines[i].type = "del" ->
            [k \in 1 .. Min({mid - i, Max({end - mid, 1})}) |->
               [left |-> At(i + k - 1, mid), right |-> At(mid + k - 1, end)]]

\* splitRowsFor: a run of deleted lines stands beside the run of added lines that
\* follows it, and the shorter one is filled up with blanks.  A row has the places of
\* its two lines in the hunk.
RowsAt(lines, i) ==
  LET mid == RunEnd(lines, i, "del")
      end == RunEnd(lines, mid, "add")
  IN CASE lines[i].type = "context" -> <<[left |-> i, right |-> i]>>
       [] lines[i].type = "add" -> <<[left |-> None, right |-> i]>>
       [] lines[i].type = "del" ->
            [k \in 1 .. Max({mid - i, end - mid}) |->
               [left |-> At(i + k - 1, mid), right |-> At(mid + k - 1, end)]]

SplitRows(lines) == RunByRun(lines, [i \in 1 .. Len(lines) |-> RowsAt(lines, i)])

\* A text that is highlighted as a whole.
Whole(a, kind) == [k \in 1 .. Len(a) |-> [kind |-> kind, token |-> a[k]]]

Places(a, b) == (1 .. Len(a) + 1) \X (1 .. Len(b) + 1)

\* dp: how long a longest common subsequence is, from each pair of places on.
CommonFrom(a, b) ==
  LET dp[p \in Places(a, b)] ==
        IF p[1] > Len(a) \/ p[2] > Len(b) THEN 0
        ELSE IF a[p[1]] = b[p[2]] THEN dp[<<p[1] + 1, p[2] + 1>>] + 1
        ELSE Max({dp[<<p[1] + 1, p[2]>>], dp[<<p[1], p[2] + 1>>]})
  IN dp

MoveGreedy(a, b, p) ==
  IF p[1] <= Len(a) /\ p[2] <= Len(b) /\ a[p[1]] = b[p[2]] THEN "same"
  ELSE IF p[1] <= Len(a) THEN "del" ELSE "add"

\* The step of the walk at a pair of places, along a longest common subsequence.
Move(a, b, p) ==
  LET dp == CommonFrom(a, b)
  IN IF p[1] <= Len(a) /\ p[2] <= Len(b) /\ a[p[1]] = b[p[2]] THEN "same"
     ELSE IF p[1] <= Len(a) /\ (\/ p[2] > Len(b)
                                \/ dp[<<p[1] + 1, p[2]>>] >= dp[<<p[1], p[2] + 1>>])
     THEN "del" ELSE "add"

\* tokenDiff: what is deleted from the one text, added to the other, or in both.
TokenDiff(a, b) ==
  LET steps == Places(a, b) \ {<<Len(a) + 1, Len(b) + 1>>}
      move == [p \in steps |-> Move(a, b, p)]
      next == [p \in steps |-> <<IF move[p] = "add" THEN p[1] ELSE p[1] + 1,
                                 IF move[p] = "del" THEN p[2] ELSE p[2] + 1>>]
      old == [p \in steps |-> IF move[p] = "add" THEN <<>>
                              ELSE <<[kind |-> move[p], token |-> a[p[1]]]>>]
      new == [p \in steps |-> IF move[p] = "del" THEN <<>>
                              ELSE <<[kind |-> move[p], token |-> b[p[2]]]>>]
  IN IF Len(a) > TokenCap \/ Len(b) > TokenCap
     THEN [old |-> Whole(a, "del"), new |-> Whole(b, "add")]
     ELSE [old |-> Pushed(Places(a, b), old, next, <<1, 1>>),
           new |-> Pushed(Places(a, b), new, next, <<1, 1>>)]

\* computeIntralineHighlights: a run of deleted lines and a run of as many added
\* ones behind it are compared line by line.  A line may stay without segments.
HighlightsAt(lines, i) ==
  LET mid == RunEnd(lines, i, "del")
      end == RunEnd(lines, mid, "add")
      count == mid - i
      Pair(k) == TokenDiff(lines[i + k - 1].text, lines[mid + k - 1].text)
  IN IF lines[i].type # "del" THEN <<None>>
     ELSE IF end - mid # count THEN [k \in 1 .. end - i |-> None]
     ELSE [k \in 1 .. end - i |-> IF k <= count THEN Pair(k).old ELSE Pair(k - count).new]

Highlights(lines) == RunByRun(lines, [i \in 1 .. Len(lines) |-> HighlightsAt(lines, i)])

-----------------------------------------------------------------------------
(* The page.                                                               *)

FileCount == Len(parsed.files)

\* A file without a name has this one.
FileKey(i) ==
  LET f == parsed.files[i]
  IN IF f.newPath # None THEN f.newPath ELSE IF f.oldPath # None THEN f.oldPath ELSE "(unknown)"

Keys == {FileKey(i) : i \in 1 .. FileCount}

Stored(r) == IF storage = None THEN {} ELSE {k \in Keys : <<r, k>> \in storage}

RenderReview(r) ==
  /\ request' = r
  /\ viewed' = Stored(r)
  /\ boxes' = {}
  /\ active' = 1
  /\ tab' = "overview"
  /\ UNCHANGED vars

\* A request for this diff appears; when it is gone, there may be another.  Whether
\* the browser has a storage shows with the first.
NextReview ==
  /\ ended
  /\ LinesWritten <= MaxShown
  /\ request < MaxRequests
  /\ RenderReview(request + 1)
  /\ storage' \in IF request = 0 THEN {{}, None} ELSE {storage}
  /\ marked' = {}

\* The page is loaded again.
Reload ==
  /\ request # 0
  /\ RenderReview(request)
  /\ UNCHANGED <<storage, marked>>

SwitchTab ==
  /\ request # 0
  /\ tab' = IF tab = "overview" THEN "files" ELSE "overview"
  /\ UNCHANGED <<vars, request, viewed, boxes, active, storage, marked>>

\* setDiffView, setWrap: the files panel is rendered again.
RerenderFilesPanel ==
  /\ request # 0
  /\ boxes' = {}
  /\ UNCHANGED <<vars, request, viewed, active, tab, storage, marked>>

Marked(S, x, on) == IF on THEN S \cup {x} ELSE S \ {x}

MarkViewedByName(i, on) ==
  /\ viewed' = Marked(viewed, FileKey(i), on)
  /\ boxes' = Marked(boxes, i, on)
  /\ marked' = Marked(marked, i, on)
  /\ storage' = IF storage = None THEN None
                ELSE {e \in storage : e[2] # FileKey(i)}
                       \cup {<<r, FileKey(i)>> : r \in IF on THEN 1 .. MaxRequests ELSE {}}
  /\ UNCHANGED <<vars, request, active, tab>>

MarkViewed(i, on) ==
  /\ viewed' = Marked(viewed, FileKey(i), on)
  /\ boxes' = Marked(boxes, i, on)
  /\ marked' = Marked(marked, i, on)
  /\ storage' = IF storage = None THEN None
                ELSE Marked(storage, <<request, FileKey(i)>>, on)
  /\ UNCHANGED <<vars, request, active, tab>>

\* A box in the tree or on the file's card.
ClickBox(i) ==
  /\ request # 0
  /\ tab = "files"
  /\ MarkViewed(i, i \notin boxes)

\* The keys work in the files tab.
PressV ==
  /\ request # 0
  /\ tab = "files"
  /\ FileCount > 0
  /\ MarkViewed(active, FileKey(active) \notin viewed)

\* j, k, or a click on a file in the tree.
Focus(i) ==
  /\ request # 0
  /\ tab = "files"
  /\ active' = i
  /\ UNCHANGED <<vars, request, viewed, boxes, tab, storage, marked>>

PressJ == FileCount > 0 /\ Focus(Min({active + 1, FileCount}))

PressK == FileCount > 0 /\ Focus(Max({active - 1, 1}))

PageInit ==
  /\ request = 0
  /\ viewed = {}
  /\ boxes = {}
  /\ active = 1
  /\ tab = "overview"
  /\ storage = {}
  /\ marked = {}

PageNext ==
  \/ NextReview \/ Reload \/ SwitchTab \/ RerenderFilesPanel
  \/ PressV \/ PressJ \/ PressK
  \/ \E i \in 1 .. FileCount : ClickBox(i) \/ Focus(i)

ReviewInit == Init /\ PageInit

ReviewNext == (Next /\ UNCHANGED page) \/ PageNext

ReviewSpec == ReviewInit /\ [][ReviewNext]_rvars

-----------------------------------------------------------------------------
(* Properties.                                                             *)

Hunks == UNION {{f.hunks[k] : k \in 1 .. Len(f.hunks)} : f \in {Files[i] : i \in 1 .. Len(Files)}}

Sides == [left |-> {"context", "del"}, right |-> {"context", "add"}]

\* The rows are those of the lines from i up to the one before n: on each side the
\* lines of that side, each once and in order, and an unchanged line beside itself.
Shows(lines, rows, i, n) ==
  /\ \A side \in DOMAIN Sides : \A x \in 1 .. Len(rows) :
       rows[x][side] # None =>
         /\ rows[x][side] \in i .. n - 1
         /\ lines[rows[x][side]].type \in Sides[side]
         /\ lines[rows[x][side]].type = "context" => rows[x].left = rows[x].right
         /\ \A y \in x + 1 .. Len(rows) : rows[y][side] # None => rows[x][side] < rows[y][side]
  /\ \A side \in DOMAIN Sides : \A j \in i .. n - 1 :
       lines[j].type \in Sides[side] => \E x \in 1 .. Len(rows) : rows[x][side] = j
  /\ \A x \in 1 .. Len(rows) : rows[x].left # None \/ rows[x].right # None

\* app.js: the split view shows "two independent, aligned tables": on the left every
\* context line and deleted line of the hunk in order, on the right every context
\* line and added line, and an unchanged line beside itself.
SplitShowsTheHunk ==
  \A h \in Hunks : Shows(h.lines, SplitRows(h.lines), 1, Len(h.lines) + 1)

\* In order, and with nothing left out of S or T.
Onto(f, S, T) ==
  /\ f \in [S -> T]
  /\ \A x, y \in S : x < y => f[x] < f[y]
  /\ \A y \in T : \E x \in S : f[x] = y

\* A text is cut up without a loss.
Cuts(segs, text, kinds) ==
  /\ Len(segs) = Len(text)
  /\ \A x \in 1 .. Len(text) : segs[x].token = text[x] /\ segs[x].kind \in kinds

Kept(segs) == {x \in 1 .. Len(segs) : segs[x].kind = "same"}

\* The tokens of a at the places S are those of b at the places T.
Common(a, b, S, T) ==
  \E f \in [S -> T] : Onto(f, S, T) /\ \A x \in S : a[x] = b[f[x]]

\* Two texts side by side: what is not highlighted is the same in both, and, but for
\* long texts, as much as there can be.
Exact(a, b, old, new) ==
  /\ Cuts(old, a, {"same", "del"})
  /\ Cuts(new, b, {"same", "add"})
  /\ Common(a, b, Kept(old), Kept(new))
  /\ Len(a) <= TokenCap /\ Len(b) <= TokenCap =>
       \A S \in SUBSET (1 .. Len(a)), T \in SUBSET (1 .. Len(b)) :
         Common(a, b, S, T) => Cardinality(S) <= Cardinality(Kept(old))

Lit(lines, segs, type) == {i \in 1 .. Len(segs) : segs[i] # None /\ lines[i].type = type}

\* The highlighted words of a line and the others are together the line; deleted and
\* added lines are highlighted in pairs; and what is not highlighted in a pair is
\* the same in both, and as much as there can be.
HighlightsAreExact ==
  \A h \in Hunks :
    LET segs == Highlights(h.lines)
        D == Lit(h.lines, segs, "del")
        A == Lit(h.lines, segs, "add")
    IN
      /\ Len(segs) = Len(h.lines)
      /\ \A i \in 1 .. Len(segs) : segs[i] # None => i \in D \cup A
      /\ \E mate \in [D -> A] :
           /\ Onto(mate, D, A)
           /\ \A i \in D :
                Exact(h.lines[i].text, h.lines[mate[i]].text, segs[i], segs[mate[i]])

\* "3 / 12 files viewed": when all files count as viewed, the human has marked every
\* one of them on the page of this very request, also when two of them have the same
\* name or none, and whatever was reloaded or rendered again in between.
AllViewedMeansEachMarked ==
  request # 0 /\ Cardinality(viewed) = FileCount => marked = 1 .. FileCount
-----------------------------------------------------------------------------
(* The inductive invariant behind AllViewedMeansEachMarked.                *)

MarkedKeys == {FileKey(i) : i \in marked}

\* A request is on the page only once its diff has been read, and the human marks
\* files of that diff.
MarkedInv ==
  /\ request \in Nat
  /\ request # 0 => ended
  /\ request = 0 => viewed = {} /\ marked = {} /\ storage = {} /\ active = 1
  /\ IsFiniteSet(marked)
  /\ FileCount \in Nat => marked \subseteq 1 .. FileCount
  /\ FileCount \in Nat \ {0} => active \in 1 .. FileCount

\* Names count as viewed, on the page and in the storage, only for files that the
\* human has marked; nothing is stored for requests to come.
ViewedInv ==
  /\ viewed \subseteq MarkedKeys
  /\ storage # None => \A e \in storage :
       /\ e = <<e[1], e[2]>>
       /\ e[1] \in 1 .. request
       /\ e[1] = request => e[2] \in MarkedKeys

IInv == MarkedInv /\ ViewedInv
=============================================================================
