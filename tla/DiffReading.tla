----------------------------- MODULE DiffReading -----------------------------
(***************************************************************************)
(* How main.py reads the diff of a pull request: parse_diff, which numbers *)
(* the changed lines, prune_diff_with_budget, which cuts them to a budget, *)
(* and diff_position_for_finding, which places a comment.                  *)
(*                                                                         *)
(* git and parse_diff advance together, a line of the diff at a time; what *)
(* the lines really are is kept in truth.  git numbers lines by "\n", and  *)
(* quotes names that are not plain; parse_diff takes str.splitlines(),     *)
(* which divides a line at a form feed, a lone "\r" or U+2028 too, reads   *)
(* every piece by its first characters and knows no quoted name.  A line   *)
(* is a kind; its text, the parallel list of bare texts and the size of    *)
(* the prompt are left out.  The lines of a file's header are read in one  *)
(* step.                                                                   *)
(***************************************************************************)
EXTENDS Integers, Sequences, SequencesExt

CONSTANTS
    Names,          \* the names of files
    NoName,         \* the name of a file of which parse_diff has read none
    MaxFiles,       \* bound: files of the diff
    MaxLines,       \* bound: hunk headers and lines of the diff
    MaxOdd,         \* bound: lines that are not plain, and pieces of lines
    Gaps,           \* how far a hunk may be from what is before it
    Stray,          \* the numbers a piece may give that is read as "@@"
    Asked,          \* what review rules may say of a budget
    DefaultFiles,   \* MAX_FILES
    DefaultLines,   \* MAX_LINES_PER_FILE
    DefaultTotal    \* MAX_TOTAL_LINES

\* A counter of parse_diff that is None.
None == -1

ASSUME NamesAreNames == NoName \notin Names

ASSUME BoundsAreNumbers ==
    /\ MaxFiles \in Nat /\ MaxLines \in Nat /\ MaxOdd \in Nat
    /\ Gaps \subseteq Nat /\ Stray \subseteq Nat \cup {None}

ASSUME BudgetsAreNumbers ==
    Asked \subseteq Int /\ {DefaultFiles, DefaultLines, DefaultTotal} \subseteq Nat \ {0}

VARIABLES
    git,            \* where git is in the diff
    truth,          \* history: the files with lines, and what these are
    odd,            \* history: how many lines and pieces were not plain
    current,        \* current_file, current_chunk and the three counters
    files,          \* the files parse_diff has finished
    context         \* the files and the review_budget of pr_context

vars == <<git, truth, odd, current, files, context>>

-----------------------------------------------------------------------------
(* Lines *)

Plain == {"context", "added", "removed"}

\* "\ No newline at end of file"; an added line that starts with "++", a
\* removed one that starts with "--".
Odd == {"noeol", "added++", "removed--"}

Change(kind) ==
    CASE kind \in {"added", "added++"} -> "added"
      [] kind \in {"removed", "removed--"} -> "removed"
      [] OTHER -> "none"

\* A changed line as the parser knows it.
Detail == [line : Nat \cup {None}, position : Nat]

Chunk == [added : Seq(Detail), removed : Seq(Detail)]

\* of: history, the file of the diff the lines are read in.
File == [name : Names \cup {NoName}, of : Nat, added : Seq(Detail), removed : Seq(Detail),
         chunks : Seq(Chunk)]

\* A changed line as it is.  numbered: no odd line or piece is before it in its
\* hunk, and it is plain itself; placed: no piece is before it in its file.
TrueLine == [change : {"added", "removed"}, line : Nat, position : Nat, hunk : Nat,
             numbered : BOOLEAN, placed : BOOLEAN]

\* A file as it is.  whole: parse_diff knows its name and has taken nothing in
\* it for the name or the header of a file; rests: how many pieces it read.
TrueFile == [name : Names \cup {NoName}, lines : Seq(TrueLine), whole : BOOLEAN, rests : Nat]

EmptyChunk == [added |-> <<>>, removed |-> <<>>]

NewFile(name, of) == [name |-> name, of |-> of, added |-> <<>>, removed |-> <<>>, chunks |-> <<>>]

\* current_file, in which no chunk is open.
Start(file, deleted) ==
    [file |-> file, chunk |-> EmptyChunk, inChunk |-> FALSE, old |-> None, new |-> None,
     position |-> 0, deleted |-> deleted]

NoContext == [done |-> FALSE, files |-> <<>>, total |-> 0, told |-> FALSE,
              limits |-> [files |-> 0, lines |-> 0, total |-> 0]]

TypeOK ==
    /\ git \in [header : {"none", "modified", "added", "deleted", "textless"},
                last : {"file", "hunk", "line", "noeol"}, lines : 0 .. MaxLines,
                old : Nat, new : Nat, position : Nat, hunk : Nat, numbered : BOOLEAN]
    /\ truth \in Seq(TrueFile)
    /\ odd \in 0 .. MaxOdd
    /\ current \in [file : File, chunk : Chunk, inChunk : BOOLEAN, old : Nat \cup {None},
                    new : Nat \cup {None}, position : Nat, deleted : BOOLEAN]
    /\ files \in Seq(File)
    /\ context \in [done : BOOLEAN, files : Seq(File), total : Nat, told : BOOLEAN,
                    limits : [files : Nat, lines : Nat, total : Nat]]

Init ==
    /\ git = [header |-> "none", last |-> "file", lines |-> 0, old |-> 0, new |-> 0, position |-> 0,
              hunk |-> 0, numbered |-> TRUE]
    /\ truth = <<>>
    /\ odd = 0
    /\ current = Start(NewFile(NoName, 0), FALSE)
    /\ files = <<>>
    /\ context = NoContext

-----------------------------------------------------------------------------
(* parse_diff: the headers *)

\* current_file["chunks"].append(current_chunk), if there is one.
WithChunk(c) == IF c.inChunk THEN [c.file EXCEPT !.chunks = Append(@, c.chunk)] ELSE c.file

\* A file without a name is not kept.
Flushed(c) == IF c.file.name # NoName THEN Append(files, WithChunk(c)) ELSE files

\* git tells a file that becomes a link as one deleted and one added.
IsNew(name, header) ==
    \A i \in DOMAIN truth :
        truth[i].name = name => i = Len(truth) /\ git.header = "deleted" /\ header = "added"

\* A hunk has changed lines, and a file that is not textless has a hunk.
HunkHasChanges == git.hunk > 0 /\ \E t \in ToSet(truth[Len(truth)].lines) : t.hunk = git.hunk

NothingIsOpen == git.header \in {"none", "textless"} \/ HunkHasChanges

\* The header: "diff --git", the mode, and the names.  A name that git quotes
\* ("b/caf\303\251.py" in double quotes) is none to parse_diff.
OpenFile(header, name) ==
    /\ ~ context.done
    /\ NothingIsOpen
    /\ Len(truth) < MaxFiles
    /\ name # NoName => IsNew(name, header)
    /\ git' = [git EXCEPT !.header = header, !.last = "file", !.old = 1, !.new = 1, !.position = 0,
                          !.hunk = 0, !.numbered = TRUE]
    /\ truth' = Append(truth, [name |-> name, lines |-> <<>>, whole |-> name # NoName, rests |-> 0])
    /\ files' = Flushed(current)
    /\ current' = Start(NewFile(name, Len(truth) + 1), header = "deleted")
    /\ UNCHANGED <<odd, context>>

\* A rename, a change of mode, a binary or an empty file has no "+++ b/" or
\* "--- a/", and no lines.
OpenTextless ==
    /\ ~ context.done
    /\ NothingIsOpen
    /\ git' = [git EXCEPT !.header = "textless", !.last = "file", !.old = 1, !.new = 1, !.position = 0,
                          !.hunk = 0, !.numbered = TRUE]
    /\ files' = Flushed(current)
    /\ current' = Start(NewFile(NoName, 0), FALSE)
    /\ UNCHANGED <<truth, odd, context>>

\* "@@ -old +new @@".  A side that does not exist starts at 0.
FirstLine(side, gap) ==
    CASE side = "old" /\ git.header = "added" -> 0
      [] side = "new" /\ git.header = "deleted" -> 0
      [] side = "old" -> git.old + gap
      [] OTHER -> git.new + gap

\* What parse_diff does with "@@"; the position is not moved.
OpenChunk(c, old, new) ==
    [c EXCEPT !.file = WithChunk(c), !.chunk = EmptyChunk, !.inChunk = TRUE, !.old = old, !.new = new]

OpenHunk(gap) ==
    LET old == FirstLine("old", gap)
        new == FirstLine("new", gap)
    IN  /\ ~ context.done
        /\ git.header \notin {"none", "textless"}
        /\ git.hunk > 0 => git.header = "modified" /\ HunkHasChanges /\ gap > 0
        /\ git.lines < MaxLines
        /\ git' = [git EXCEPT !.last = "hunk", !.lines = @ + 1, !.old = old, !.new = new, !.hunk = @ + 1,
                              !.position = IF git.hunk = 0 THEN 0 ELSE @ + 1, !.numbered = TRUE]
        /\ current' = OpenChunk(current, old, new)
        /\ UNCHANGED <<truth, odd, files, context>>

-----------------------------------------------------------------------------
(* parse_diff: the lines *)

\* A counter, unless it is None.
Further(counter) == IF counter = None THEN None ELSE counter + 1

\* A changed line, in a chunk of its own if none is open.
WithAdded(c, line) ==
    [c EXCEPT !.file.added = Append(@, [line |-> line, position |-> c.position + 1]),
              !.chunk.added = Append(@, [line |-> line, position |-> c.position + 1]),
              !.inChunk = TRUE, !.position = @ + 1]

WithRemoved(c, line) ==
    [c EXCEPT !.file.removed = Append(@, [line |-> line, position |-> c.position + 1]),
              !.chunk.removed = Append(@, [line |-> line, position |-> c.position + 1]),
              !.inChunk = TRUE, !.position = @ + 1]

\* Mutant: a removed line advances both sides.
ReadBoth(c, branch) ==
    CASE branch = "added" -> [WithAdded(c, c.new) EXCEPT !.new = Further(@)]
      [] branch = "removed" -> [WithRemoved(c, c.old) EXCEPT !.old = Further(@), !.new = Further(@)]
      [] OTHER -> [c EXCEPT !.old = Further(@), !.new = Further(@),
                            !.position = IF c.inChunk THEN @ + 1 ELSE @]

\* The last three branches.  A changed line whose text starts like a header
\* takes the last.
Read(c, branch) ==
    CASE branch = "added" -> [WithAdded(c, c.new) EXCEPT !.new = Further(@)]
      [] branch = "removed" -> [WithRemoved(c, c.old) EXCEPT !.old = Further(@)]
      [] OTHER -> [c EXCEPT !.old = Further(@), !.new = Further(@),
                            !.position = IF c.inChunk THEN @ + 1 ELSE @]

\* The lines a file of this header may have.
Allowed(header) ==
    CASE header = "added" -> {"added", "added++", "noeol"}
      [] header = "deleted" -> {"removed", "removed--", "noeol"}
      [] OTHER -> Plain \cup Odd

\* A line of the diff, as git numbers it.
NextLine(kind) ==
    LET change == Change(kind)
    IN  /\ ~ context.done
        /\ git.last # "file"
        /\ kind = "noeol" => git.last = "line"
        /\ kind \in Allowed(git.header)
        /\ git.lines < MaxLines
        /\ odd' = IF kind \in Odd THEN odd + 1 ELSE odd
        /\ odd' <= MaxOdd
        /\ git' = [git EXCEPT !.last = IF kind = "noeol" THEN "noeol" ELSE "line",
                              !.lines = @ + 1, !.position = @ + 1,
                              !.old = IF kind = "noeol" \/ change = "added" THEN @ ELSE @ + 1,
                              !.new = IF kind = "noeol" \/ change = "removed" THEN @ ELSE @ + 1,
                              !.numbered = @ /\ kind \in Plain]
        /\ UNCHANGED <<files, context>>

\* The truth once git has gone over it.
Written(kind) ==
    LET change == Change(kind)
        it == [change |-> change, line |-> IF change = "added" THEN git.new ELSE git.old,
               position |-> git.position + 1, hunk |-> git.hunk,
               numbered |-> git.numbered /\ kind \in Plain, placed |-> truth[Len(truth)].rests = 0]
    IN  IF change = "none" THEN truth ELSE [truth EXCEPT ![Len(truth)].lines = Append(@, it)]

ReadLine(kind) ==
    /\ NextLine(kind)
    /\ truth' = Written(kind)
    /\ current' = Read(current, kind)

\* An added line "++ b/name", or in a file that is deleted a removed line
\* "-- a/name", names the file.
ReadAsName(kind, name) ==
    /\ kind \in {"added++", "removed--"}
    /\ kind = "removed--" => current.deleted
    /\ NextLine(kind)
    /\ truth' = [Written(kind) EXCEPT ![Len(truth)].whole = FALSE]
    /\ current' = [current EXCEPT !.file.name = name]

-----------------------------------------------------------------------------
(* parse_diff: a further piece of a line or of a hunk's header, which is no *)
(* line of the diff                                                         *)

NextPiece ==
    /\ ~ context.done
    /\ git.last \in {"hunk", "line"}
    /\ odd < MaxOdd
    /\ odd' = odd + 1
    /\ git' = [git EXCEPT !.numbered = FALSE]
    /\ UNCHANGED context

Divided == [truth EXCEPT ![Len(truth)].rests = @ + 1]

Lost == [truth EXCEPT ![Len(truth)].rests = @ + 1, ![Len(truth)].whole = FALSE]

\* "+", "-" or anything.
PieceIsLine(branch) ==
    /\ NextPiece
    /\ truth' = Divided
    /\ current' = Read(current, branch)
    /\ UNCHANGED files

\* "deleted file mode", "new file mode"
PieceIsMode(deleted) ==
    /\ NextPiece
    /\ truth' = Divided
    /\ current' = [current EXCEPT !.deleted = deleted]
    /\ UNCHANGED files

\* "@@", with numbers or without
PieceIsHunk(old, new) ==
    /\ NextPiece
    /\ truth' = Divided
    /\ current' = OpenChunk(current, old, new)
    /\ UNCHANGED files

\* "+++ b/name"
PieceIsName(name) ==
    /\ NextPiece
    /\ truth' = Lost
    /\ current' = [current EXCEPT !.file.name = name]
    /\ UNCHANGED files

\* "diff --git": the rest of git's file is read without a name.
PieceIsFile ==
    /\ NextPiece
    /\ truth' = Lost
    /\ files' = Flushed(current)
    /\ current' = Start(NewFile(NoName, Len(truth)), FALSE)

-----------------------------------------------------------------------------
(* prune_diff_with_budget *)

\* Mutant: any number but 0 is taken.
PositiveOrNot(asked, default) == IF asked # 0 THEN asked ELSE default

\* positive_int in review_cost_controls
Positive(asked, default) == IF asked > 0 THEN asked ELSE default

Cut(s, n) == SubSeq(s, 1, IF n < Len(s) THEN n ELSE Len(s))

CutChunk(chunk, n) == [added |-> Cut(chunk.added, n), removed |-> Cut(chunk.removed, n)]

Size(part) == Len(part.added) + Len(part.removed)

\* Mutant: the chunk itself is not counted.
KeepChunkOver(acc, chunk, limits, room) ==
    LET cut == CutChunk(chunk, limits.lines)
    IN  IF acc.over \/ acc.size > room
        THEN [acc EXCEPT !.over = TRUE]
        ELSE [acc EXCEPT !.chunks = Append(@, cut), !.size = @ + Size(cut)]

\* The loop over the chunks of a file: the first that does not fit in room
\* ends it.
KeepChunk(acc, chunk, limits, room) ==
    LET cut == CutChunk(chunk, limits.lines)
    IN  IF acc.over \/ acc.size + Size(cut) > room
        THEN [acc EXCEPT !.over = TRUE]
        ELSE [acc EXCEPT !.chunks = Append(@, cut), !.size = @ + Size(cut)]

NoChunks == [chunks |-> <<>>, size |-> 0, over |-> FALSE]

KeptChunks(file, limits, room) ==
    FoldLeft(LAMBDA acc, chunk : KeepChunk(acc, chunk, limits, room), NoChunks, file.chunks)

\* Mutant: a chunk that did not fit is not told.
KeepFileQuietly(acc, file, limits) ==
    LET kept == KeptChunks(file, limits, limits.total - acc.total)
        short == [file EXCEPT !.added = Cut(@, limits.lines), !.removed = Cut(@, limits.lines),
                              !.chunks = kept.chunks]
    IN  IF acc.full
        THEN acc
        ELSE [files |-> Append(acc.files, short),
              total |-> acc.total + kept.size,
              told |-> acc.told \/ Size(short) < Size(file),
              full |-> acc.total + kept.size >= limits.total]

\* The loop over the files, which ends when the total is reached.
KeepFile(acc, file, limits) ==
    LET kept == KeptChunks(file, limits, limits.total - acc.total)
        short == [file EXCEPT !.added = Cut(@, limits.lines), !.removed = Cut(@, limits.lines),
                              !.chunks = kept.chunks]
    IN  IF acc.full
        THEN acc
        ELSE [files |-> Append(acc.files, short),
              total |-> acc.total + kept.size,
              told |-> acc.told \/ kept.over \/ Size(short) < Size(file),
              full |-> acc.total + kept.size >= limits.total]

NoFiles == [files |-> <<>>, total |-> 0, told |-> FALSE, full |-> FALSE]

KeptFiles(parsed, limits) ==
    FoldLeft(LAMBDA acc, file : KeepFile(acc, file, limits), NoFiles, Cut(parsed, limits.files))

\* build_pr_context: the last flush, and the budget.
Finish(asked) ==
    LET parsed == Flushed(current)
        limits == [files |-> Positive(asked[1], DefaultFiles), lines |-> Positive(asked[2], DefaultLines),
                   total |-> Positive(asked[3], DefaultTotal)]
        kept == KeptFiles(parsed, limits)
    IN  /\ ~ context.done
        /\ NothingIsOpen
        /\ files' = parsed
        /\ current' = Start(NewFile(NoName, 0), FALSE)
        /\ context' = [done |-> TRUE, files |-> kept.files, total |-> kept.total,
                       told |-> kept.told \/ Len(parsed) > limits.files, limits |-> limits]
        /\ UNCHANGED <<git, truth, odd>>

-----------------------------------------------------------------------------
(* diff_position_for_finding *)

\* The index of the first of these details with this number; 0 if none has it.
First(details, line) == SelectInSeq(details, LAMBDA d : d.line = line)

\* Mutant: removed lines first.
PositionOfRemoved(file, line) ==
    LET added == First(file.added, line)
        removed == First(file.removed, line)
    IN  CASE removed # 0 -> file.removed[removed].position
          [] removed = 0 /\ added # 0 -> file.added[added].position
          [] OTHER -> 0

\* The position of the first added line with this number, or else of the first
\* removed one; 0 for None.
PositionOf(file, line) ==
    LET added == First(file.added, line)
        removed == First(file.removed, line)
    IN  CASE added # 0 -> file.added[added].position
          [] added = 0 /\ removed # 0 -> file.removed[removed].position
          [] OTHER -> 0

\* The position of the first of the files with this name that has one.
CommentPosition(name, line) ==
    LET i == SelectInSeq(context.files, LAMBDA file : file.name = name /\ PositionOf(file, line) # 0)
    IN  IF i = 0 THEN 0 ELSE PositionOf(context.files[i], line)

-----------------------------------------------------------------------------

Pieces ==
    \/ \E branch \in {"added", "removed", "other"} : PieceIsLine(branch)
    \/ \E deleted \in BOOLEAN : PieceIsMode(deleted)
    \/ \E old \in Stray, new \in Stray : PieceIsHunk(old, new)
    \/ \E name \in Names \cup {NoName} : PieceIsName(name)
    \/ PieceIsFile

Next ==
    \/ \E header \in {"modified", "added", "deleted"}, name \in Names \cup {NoName} : OpenFile(header, name)
    \/ OpenTextless
    \/ \E gap \in Gaps : OpenHunk(gap)
    \/ \E kind \in Plain \cup Odd : ReadLine(kind)
    \/ \E kind \in Odd, name \in Names \cup {NoName} : ReadAsName(kind, name)
    \/ Pieces
    \/ \E asked \in Asked \X Asked \X Asked : Finish(asked)

Spec == Init /\ [][Next]_vars

-----------------------------------------------------------------------------
(* Properties *)

Parsed == IF context.done THEN files ELSE Flushed(current)

Changes == {"added", "removed"}

\* How many headers GitHub counts before this hunk and parse_diff does not.
HeadersBefore(hunk) == hunk - 1

Knows(file, line) ==
    \E d \in ToSet(file[line.change]) :
        d.line = line.line /\ (line.placed => d.position = line.position - HeadersBefore(line.hunk))

\* Of a file of the diff this is what parse_diff says.
IsReadAs(true, file) ==
    /\ file.name = true.name
    /\ \A line \in ToSet(true.lines) : line.numbered => Knows(file, line)
    /\ \A change \in Changes :
          Len(file[change]) <=
              Cardinality({j \in DOMAIN true.lines : true.lines[j].change = change}) + true.rests

\* Every file of the diff that is whole is found once, under its name, however
\* badly the files around it are read: git quotes their names, or a line of
\* theirs, or a piece of one, is taken for the header or the name of a file.
\* Every changed line of it that has no odd line or piece before it in its hunk
\* is known by its true number; its position is the true one but for a line for
\* every earlier hunk of the file, unless a piece is before it in the file.  No
\* more lines are reported than there are, and pieces.  And in any file that is
\* found, the chunks hold its lines, each once.
ParsedIsTrue ==
    /\ \A i \in DOMAIN truth : truth[i].whole =>
          \E k \in DOMAIN Parsed :
              /\ IsReadAs(truth[i], Parsed[k])
              /\ \A j \in DOMAIN Parsed : Parsed[j].of = i <=> j = k
    /\ \A k \in DOMAIN Parsed : \A change \in Changes :
          FlattenSeq([c \in DOMAIN Parsed[k].chunks |-> Parsed[k].chunks[c][change]]) = Parsed[k][change]

\* A finding on this line of this file of the context is given a position; and
\* the file is read as it is, with no odd line or piece, and no other of the
\* context is known by its name.
HasComment(i, line) ==
    LET file == context.files[i]
        true == truth[file.of]
    IN  /\ true.whole /\ true.rests = 0
        /\ \A t \in ToSet(true.lines) : t.numbered
        /\ \A j \in DOMAIN context.files : context.files[j].name = file.name => j = i
        /\ CommentPosition(file.name, line) # 0

\* The changed lines the finding is about: of this number, and added if the
\* context has an added line of this number.
Meant(i, line) ==
    {t \in ToSet(truth[context.files[i].of].lines) :
        t.line = line /\ (First(context.files[i].added, line) # 0 => t.change = "added")}

\* What the README says of comments: GitHub shows one at the line it is about,
\* so that its suggestion replaces that line.  GitHub counts positions from the
\* first "@@" of the file, and counts the further ones.
CommentsLandOnTheirLine ==
    \A i \in DOMAIN context.files : \A line \in 0 .. MaxLines + 2 :
        HasComment(i, line) => \E t \in Meant(i, line) :
            CommentPosition(context.files[i].name, line) = t.position

\* What diff_position_for_finding does: a comment is shown above its line, by
\* as many lines as the file has hunks before it; in the first hunk, at it.
IsDisplaced(i, line) ==
    HasComment(i, line) => \E t \in Meant(i, line) :
        CommentPosition(context.files[i].name, line) = t.position - HeadersBefore(t.hunk)

CommentsAreDisplacedByHunks ==
    \A i \in DOMAIN context.files : \A line \in 0 .. MaxLines + 2 : IsDisplaced(i, line)

Total(numbers) == FoldLeft(LAMBDA m, n : m + n, 0, numbers)

SizeOf(chunks) == Total([i \in DOMAIN chunks |-> Size(chunks[i])])

\* The total budget bounds the lines of the chunks, and the total that is
\* reported is their number.  It does not bound what the model is shown: the
\* files' own lists of lines, which the prompt shows too, are kept when the
\* chunks are dropped, and only the budgets of files and of lines bound them.
BudgetBoundsTheChunks ==
    context.done =>
        /\ context.total <= context.limits.total
        /\ context.total = Total([i \in DOMAIN context.files |-> SizeOf(context.files[i].chunks)])
        /\ Len(context.files) <= context.limits.files
        /\ \A i \in DOMAIN context.files : \A change \in Changes :
              Len(context.files[i][change]) <= context.limits.lines

\* A diff is called truncated exactly when something is left out, but for one
\* case: the files after the one that fills the total to the last line are
\* left out in silence.
OmissionsAreTold ==
    context.done =>
        IF context.told
        THEN context.files # files
        ELSE /\ IsPrefix(context.files, files)
             /\ context.files # files => context.total = context.limits.total

=============================================================================
