--------------------------- MODULE StrategyLessons ---------------------------
(***************************************************************************)
(* StrategyLessonExporter (app/analysis/strategy_lessons.py) over the      *)
(* analyses of PostTrade: the lessons, grouped by day, symbol and outcome, *)
(* go into a generated block of docs/strategy-lessons.md, between a start  *)
(* and an end marker, and the rest of the file belongs to the user.        *)
(*                                                                         *)
(* The file is a sequence of tokens.  An export reads the table, reads the *)
(* file, truncates it and writes the merged text, and may die in between;  *)
(* the user may edit the file and analyses may be stored at any moment.    *)
(***************************************************************************)
EXTENDS PostTrade, SequencesExt

CONSTANTS
  Exporters,     \* the processes that run scripts/export_strategy_lessons.py
  Notes,         \* what the user may write
  MaxDeaths      \* bound: the exports that die while they write

ASSUME LessonsAssumption == MaxDeaths \in Nat

VARIABLES
  file,          \* docs/strategy-lessons.md; <<>> is no file or an empty one
  epc,           \* where each exporter is
  groups,        \* the groups it has built
  existing,      \* the text it has read
  deaths,        \* how many have died while they wrote
  notes,         \* history: the notes the user has written
  excused,       \* history: those whose loss is accounted for
  clean,         \* history: exports completed since such a death, up to two
  covered,       \* history: the analyses each export has read
  exported       \* history: the analyses the last completed export has read

export == <<file, epc, groups, existing, deaths, notes, excused, clean,
            covered, exported>>

Start == [kind |-> "start"]
End == [kind |-> "end"]
Scrap == [kind |-> "scrap"]                    \* what remains of a cut text,
Broken == [kind |-> "broken"]                  \* cut within a character of many bytes
Note(n) == [kind |-> "note", note |-> n]
Body(g) == [kind |-> "body", groups |-> g]

NotesIn(text) == {n \in Notes : Contains(text, Note(n))}
Bodies(text) == {text[i].groups : i \in {k \in DOMAIN text : text[k].kind = "body"}}
Count(text, token) == Cardinality({i \in DOMAIN text : text[i] = token})
First(text, token) == CHOOSE i \in DOMAIN text :
                        text[i] = token /\ \A k \in 1..(i - 1) : text[k] # token

Key(r) == <<r.day, Symbol[r.ticket], r.outcome>>

\* Mutant: a lesson keeps the first of its tickets only.
GroupsWithOneTicket(rows) ==
  LET of(key) == {i \in DOMAIN rows : Key(rows[i]) = key} IN
  [key \in {Key(rows[i]) : i \in DOMAIN rows} |->
     [total |-> Total(rows, of(key)),
      lessons |-> [lesson \in UNION {rows[i].lessons : i \in of(key)} |->
        {rows[Min({i \in of(key) : lesson \in rows[i].lessons})].ticket}]]]

\* build_strategy_lesson_groups: the total of each group, and for each lesson the
\* tickets it comes from.
Groups(rows) ==
  LET of(key) == {i \in DOMAIN rows : Key(rows[i]) = key} IN
  [key \in {Key(rows[i]) : i \in DOMAIN rows} |->
     [total |-> Total(rows, of(key)),
      lessons |-> [lesson \in UNION {rows[i].lessons : i \in of(key)} |->
        {rows[i].ticket : i \in {k \in of(key) : lesson \in rows[k].lessons}}]]]

Block(g) == <<Start, Body(g), End>>

\* Mutant: what precedes the block ends at the last start marker.
MergeFromLastStart(text, g) ==
  IF Contains(text, Start) /\ Contains(text, End)
  THEN LET last == Max({i \in DOMAIN text : text[i] = Start}) IN
       SubSeq(text, 1, last - 1) \o Block(g)
         \o SubSeq(text, First(text, End) + 1, Len(text))
  ELSE text \o Block(g)

\* _merge_generated_block: between the first start marker and the first end marker
\* of the text, wherever the two are; at its end if either is missing.
Merge(text, g) ==
  IF Contains(text, Start) /\ Contains(text, End)
  THEN SubSeq(text, 1, First(text, Start) - 1) \o Block(g)
         \o SubSeq(text, First(text, End) + 1, Len(text))
  ELSE text \o Block(g)

-----------------------------------------------------------------------------

LessonsTypeOK ==
  /\ TypeOK
  /\ epc \in [Exporters -> {"idle", "file", "open", "write"}]
  /\ \A i \in DOMAIN file :
       file[i].kind \in {"start", "end", "scrap", "broken", "note", "body"}
  /\ notes \subseteq Notes /\ excused \subseteq notes
  /\ deaths \in 0..MaxDeaths /\ clean \in 0..2
  /\ covered \in [Exporters -> 0..Len(post_trade_analyses)]
  /\ exported \in 0..Len(post_trade_analyses)

LessonsInit ==
  /\ Init
  /\ file = <<>>
  /\ epc = [e \in Exporters |-> "idle"]
  /\ groups = [e \in Exporters |-> Groups(<<>>)]
  /\ existing = [e \in Exporters |-> <<>>]
  /\ deaths = 0
  /\ notes = {} /\ excused = {}
  /\ clean = 2
  /\ covered = [e \in Exporters |-> 0]
  /\ exported = 0

EGoto(e, label) == epc' = [epc EXCEPT ![e] = label]

\* The process ends and forgets what it has read.
Forget(e) ==
  /\ EGoto(e, "idle")
  /\ groups' = [groups EXCEPT ![e] = Groups(<<>>)]
  /\ existing' = [existing EXCEPT ![e] = <<>>]
  /\ covered' = [covered EXCEPT ![e] = 0]

\* build_strategy_lessons_markdown.  (The groups are built a second time for the
\* number that the script prints.)
ReadAnalyses(e) ==
  /\ epc[e] = "idle"
  /\ EGoto(e, "file")
  /\ groups' = [groups EXCEPT ![e] = Groups(post_trade_analyses)]
  /\ covered' = [covered EXCEPT ![e] = Len(post_trade_analyses)]
  /\ UNCHANGED <<analysis, file, existing, deaths, notes, excused, clean, exported>>

\* read_text.  A broken character raises, in this export and in every later one (Die).
ReadFile(e) ==
  /\ epc[e] = "file"
  /\ ~ Contains(file, Broken)
  /\ EGoto(e, "open")
  /\ existing' = [existing EXCEPT ![e] = file]
  /\ UNCHANGED <<analysis, file, groups, deaths, notes, excused, clean, covered,
                 exported>>

\* write_text truncates the file,
OpenFile(e) ==
  /\ epc[e] = "open"
  /\ EGoto(e, "write")
  /\ file' = <<>>
  /\ UNCHANGED <<analysis, groups, existing, deaths, notes, excused, clean, covered,
                 exported>>

\* and fills it again.
WriteFile(e) ==
  /\ epc[e] = "write"
  /\ file' = Merge(existing[e], groups[e])
  /\ clean' = Min({clean + 1, 2})
  /\ exported' = covered[e]
  /\ Forget(e)
  /\ UNCHANGED <<analysis, deaths, notes, excused>>

\* What an export that dies in the middle of a write leaves of its text.  The markers
\* have no character of many bytes.
Cut(text) == LET k == 0..(Len(text) - 1) IN
  {SubSeq(text, 1, i) : i \in k}
    \cup {Append(SubSeq(text, 1, i), Scrap) : i \in k}
    \cup {Append(SubSeq(text, 1, i), Broken) :
            i \in {j \in k : text[j + 1] \notin {Start, End}}}

\* The notes that are cut off are accounted for.
DieWriting(e, rest) ==
  /\ epc[e] = "write"
  /\ deaths < MaxDeaths
  /\ deaths' = deaths + 1
  /\ file' = rest
  /\ excused' = excused \cup (notes \ NotesIn(rest))
  /\ clean' = 0
  /\ exported' = 0
  /\ Forget(e)
  /\ UNCHANGED <<analysis, notes>>

Die(e) ==
  /\ epc[e] \in {"file", "open"}
  /\ Forget(e)
  /\ UNCHANGED <<analysis, file, deaths, notes, excused, clean, exported>>

\* The user writes a note, before everything or after everything.  Two notes are
\* accounted for: one written after an export has read the file and before it has
\* written it, and one written behind a block that was cut off before its end
\* marker, to which it seems to belong.
AddNote(n, atTop) ==
  LET raced == \E e \in Exporters : epc[e] \in {"open", "write"}
      swallowed == ~atTop /\ Contains(file, Start) /\ ~Contains(file, End)
  IN  /\ n \notin notes
      /\ notes' = notes \cup {n}
      /\ file' = IF atTop THEN <<Note(n)>> \o file ELSE Append(file, Note(n))
      /\ excused' = IF raced \/ swallowed THEN excused \cup {n} ELSE excused
      /\ UNCHANGED <<analysis, epc, groups, existing, deaths, clean, covered, exported>>

Export(e) ==
  \/ ReadAnalyses(e) \/ ReadFile(e) \/ OpenFile(e) \/ WriteFile(e) \/ Die(e)
  \/ /\ epc[e] = "write"
     /\ \E rest \in Cut(Merge(existing[e], groups[e])) : DieWriting(e, rest)

LessonsNext ==
  \/ Next /\ UNCHANGED export
  \/ \E e \in Exporters : Export(e)
  \/ \E n \in Notes, atTop \in BOOLEAN : AddNote(n, atTop)

LessonsSpec == LessonsInit /\ [][LessonsNext]_<<analysis, export>>

-----------------------------------------------------------------------------

Writing == \E e \in Exporters : epc[e] = "write"

\* The user's notes outside the generated block outlive every export, over any
\* number of exports, deaths of exports and edits, but for the notes whose loss is
\* accounted for: those the death of an export cut off, and the two of AddNote.
NotesKept == ~Writing => notes \ excused \subseteq NotesIn(file)

\* The file heals: whatever the death of an export has left, once two exports have
\* come to their end there is at most one generated block, with its markers in order.
\* None comes to its end while the file has a broken character.
HealsInTwo ==
  ~Writing /\ clean = 2 =>
    /\ Count(file, Start) <= 1 /\ Count(file, End) = Count(file, Start)
    /\ Contains(file, Start) => First(file, Start) < First(file, End)

\* Each lesson of each analysis the last completed export has read can be traced
\* to its ticket in the file, and the groups add up to the P&L of those analyses.
LessonsTraced ==
  ~Writing /\ exported > 0 =>
    \E g \in Bodies(file) :
      /\ MapThenSumSet(LAMBDA key : g[key].total, DOMAIN g)
           = Total(post_trade_analyses, 1 .. exported)
      /\ \A i \in 1 .. exported : LET row == post_trade_analyses[i] IN
           \A lesson \in row.lessons :
             Key(row) \in DOMAIN g /\ row.ticket \in g[Key(row)].lessons[lesson]

\* Between exports the file has what it owes: the notes of the user, and what the
\* last export had to say, each lesson with the tickets it comes from.
FileIsWhole == NotesKept /\ LessonsTraced

\* README.md: the markers preserve the manual notes.
ManualNotesPreserved == ~Writing => notes \subseteq NotesIn(file)
=============================================================================
