------------------------------ MODULE GitStatus ------------------------------
(* The status of a worktree (seoul-workspace git/status.rs, parse.rs): a      *)
(* handful of git commands run side by side, each at a moment of its own,     *)
(* while the user and the Git panel change the worktree; their outputs are    *)
(* parsed and put together. A path is the sequence of its slashes and of the  *)
(* words that blanks separate between them; a file's content is a version, 0  *)
(* where there is no file.                                                    *)
EXTENDS Naturals, SequencesExt

CONSTANTS
    Paths, Quoted,     \* the paths, and those git quotes when it prints lines
    Order,             \* the paths in the order git lists them
    Versions,          \* contents of a file, not 0
    Messages,          \* commit messages, each the parts that a bar separates
    MaxChanges, MaxReadings  \* bounds of the model

(* A path that begins with a quote or holds an arrow or a brace is not told   *)
(* apart from what git prints of another one, and a blank at its end is cut   *)
(* off (parse_numstat).                                                       *)
ASSUME GitAssumption ==
    /\ \A p \in Paths : p \in Seq(STRING) /\ p # <<>> /\ p[1] # "quote"
    /\ \A p \in Paths : p[Len(p)] # "" /\ \A i \in 1..Len(p) : p[i] \notin {"=>", "lbrace", "rbrace"}
    /\ Order \in Seq(Paths) /\ \A p \in Paths : \E i \in 1..Len(Order) : Order[i] = p
    /\ \A i, j \in 1..Len(Order) : Order[i] = Order[j] => i = j
    /\ Versions \subseteq Nat \ {0}
    /\ {MaxChanges, MaxReadings} \subseteq Nat

VARIABLES
    head, index, work,  \* path -> version, in HEAD, staged, on disk
    unmerged,           \* paths in conflict
    commits, pushed,    \* messages since origin's branch; the upstream's share
    running, outputs,   \* the commands of a reading, and what they printed
    disturbed,          \* history: the worktree changed since the reading began
    listed,             \* history: the files that differed when git's status ran
    status, readings,   \* the last result; the number of readings so far
    changes             \* number of changes, for the bound

repoVars == <<head, index, work, unmerged, commits, pushed>>
gitStatusVars == <<head, index, work, unmerged, commits, pushed, running, outputs, disturbed,
                   listed, status, readings, changes>>

Commands == {"status", "log", "upstream", "cached", "unstaged"}
Empty == [c \in Commands |-> <<>>]

StatusInit ==
    /\ head \in [Paths -> {0, 1}] /\ index = head /\ work = head /\ unmerged = {}
    /\ commits = <<>> /\ pushed = <<>>
    /\ running = {} /\ outputs = Empty /\ disturbed = FALSE
    /\ listed = [staged |-> {}, unstaged |-> {}, untracked |-> {}]
    /\ status = [staged |-> {}, unstaged |-> {}, untracked |-> {}, commits |-> <<>>,
                 pushCount |-> 0, hasUpstream |-> FALSE]
    /\ readings = 0 /\ changes = 0

-----------------------------------------------------------------------------
(* What git prints (git-status(1), porcelain v2 with -z): for a tracked path  *)
(* that changed an entry of words; after that of a renamed one an entry that  *)
(* is the old path alone; the untracked paths in the end.                     *)
Words(n) == [i \in 1..n |-> "0"]
Code(from, to) == IF from = to THEN "." ELSE IF from = 0 THEN "A" ELSE IF to = 0 THEN "D" ELSE "M"

RenamedTo(p) ==
    {q \in Paths : /\ head[q] = 0 /\ index[q] # 0 /\ index[q] = head[p]
                   /\ head[p] # 0 /\ index[p] = 0 /\ {p, q} \cap unmerged = {}}
Renamed(q) == {p \in Paths : RenamedTo(p) = {q} /\ q \notin UNION {RenamedTo(o) : o \in Paths \ {p}}}
IsSource(p) == \E q \in Paths : p \in Renamed(q)
Source(q) == CHOOSE p \in Renamed(q) : TRUE

TrackedEntries(p) ==
    LET x == Code(head[p], index[p])
        y == IF index[p] = 0 THEN "." ELSE Code(index[p], work[p])
    IN IF p \in unmerged THEN <<<<"u", "U", "U">> \o Words(8) \o p>>
       ELSE IF IsSource(p) THEN <<>>
       ELSE IF Renamed(p) # {} THEN <<<<"2", "R", y>> \o Words(7) \o p, Source(p)>>
       ELSE IF <<x, y>> # <<".", ".">> THEN <<<<"1", x, y>> \o Words(6) \o p>>
       ELSE <<>>
UntrackedEntries(p) ==
    IF index[p] = 0 /\ work[p] # 0 /\ p \notin unmerged THEN <<<<"?">> \o p>> ELSE <<>>

StatusEntries == [i \in DOMAIN Order |-> TrackedEntries(Order[i])]
                 \o [i \in DOMAIN Order |-> UntrackedEntries(Order[i])]

(* The lines of diff --numstat: the paths, quoted where git does so, and the  *)
(* versions of both sides in the place of the counts. A rename is one line.   *)
Printed(p) == IF p \in Quoted THEN <<"quote">> \o p ELSE p

(* Of a rename the beginning that both paths share up to a slash, and the end *)
(* they share from a slash on, are printed once, around braces, unless one of *)
(* them is quoted (pprint_rename of git's diff.c).                            *)
Ending(path, n) == SubSeq(path, Len(path) - n + 1, Len(path))
Beginnings(p, q) ==
    {n \in DOMAIN p \cap DOMAIN q : p[n] = "/" /\ SubSeq(p, 1, n) = SubSeq(q, 1, n)}
SharedStart(p, q) == Max({0} \cup Beginnings(p, q))
Endings(p, q) ==
    {n \in DOMAIN p \cap DOMAIN q :
        /\ Ending(p, n)[1] = "/" /\ Ending(p, n) = Ending(q, n)
        /\ SharedStart(p, q) # 0 => \A path \in {p, q} : n + SharedStart(p, q) <= Len(path) + 1}
SharedEnd(p, q) == Max({0} \cup Endings(p, q))

Abbreviated(p, q) == {p, q} \cap Quoted = {} /\ (SharedStart(p, q) # 0 \/ SharedEnd(p, q) # 0)
Middle(path, p, q) ==
    IF SharedStart(p, q) + SharedEnd(p, q) >= Len(path) THEN <<>>
    ELSE SubSeq(path, SharedStart(p, q) + 1, Len(path) - SharedEnd(p, q))
RenameLine(p, q) ==
    IF Abbreviated(p, q)
    THEN (SubSeq(p, 1, SharedStart(p, q)) \o <<"lbrace">> \o Middle(p, p, q)) \o <<"=>">>
         \o (Middle(q, p, q) \o <<"rbrace">> \o Ending(p, SharedEnd(p, q)))
    ELSE Printed(p) \o <<"=>">> \o Printed(q)

StagedLines(p) ==
    IF p \in unmerged \/ IsSource(p) \/ head[p] = index[p] THEN <<>>
    ELSE IF Renamed(p) # {}
    THEN <<[path |-> RenameLine(Source(p), p), counts |-> <<head[Source(p)], index[p]>>]>>
    ELSE <<[path |-> Printed(p), counts |-> <<head[p], index[p]>>]>>
UnstagedLines(p) ==
    IF p \in unmerged \/ index[p] \in {0, work[p]} THEN <<>>
    ELSE <<[path |-> Printed(p), counts |-> <<index[p], work[p]>>]>>

Output(c) ==
    CASE c = "status"   -> FlattenSeq(StatusEntries)
      [] c = "log"      -> [i \in DOMAIN commits |-> <<"hash", "short">> \o commits[i] \o <<"author", "date">>]
      [] c = "upstream" -> pushed
      [] c = "cached"   -> FlattenSeq([i \in DOMAIN Order |-> StagedLines(Order[i])])
      [] c = "unstaged" -> FlattenSeq([i \in DOMAIN Order |-> UnstagedLines(Order[i])])

-----------------------------------------------------------------------------
(* parse_porcelain_v2. An entry is split at so many blanks, the rest of it is *)
(* the path: eight of them, nine in an entry of a rename.                     *)
Rest(entry, n) == SubSeq(entry, n + 1, Len(entry))
File(path, old, code) == [path |-> path, old |-> old, status |-> code, counts |-> <<0, 0>>]

IsOrdinary(entry) == entry[1] \in {"1", "u"} /\ Len(entry) >= 10
IsRename(entry) == entry[1] = "2" /\ Len(entry) >= 11
PathOf(entry) == Rest(entry, IF IsRename(entry) THEN 10 ELSE 9)
OldPath(output, i) == IF IsRename(output[i]) /\ i < Len(output) THEN output[i + 1] ELSE <<>>

(* The entry after a rename's is its old path, whatever it looks like.        *)
OldPathIsAnEntry(entry) == FALSE  \* (a slip: it is read as an entry, too)
TakesOldPath(entry) == IsRename(entry)

EntriesOf(output) ==
    LET taken[i \in 0..Len(output)] ==
            IF i = 0 THEN FALSE ELSE ~taken[i - 1] /\ TakesOldPath(output[i])
    IN {i \in DOMAIN output : ~taken[i - 1]}

ParsePorcelain(output) ==
    LET changed == {i \in EntriesOf(output) : IsOrdinary(output[i]) \/ IsRename(output[i])}
    IN [staged |-> {File(PathOf(output[i]), OldPath(output, i), output[i][2]) :
                        i \in {j \in changed : output[j][2] # "."}},
        unstaged |-> {File(PathOf(output[i]), <<>>, output[i][3]) :
                        i \in {j \in changed : output[j][3] # "."}},
        untracked |-> {File(Rest(output[i], 1), <<>>, "?") :
                        i \in {j \in EntriesOf(output) : output[j][1] = "?"}}]

(* parse_log_output: five fields, split at the first four bars.               *)
ParseLog(output) ==
    [i \in DOMAIN output |-> [message |-> <<output[i][3]>>, author |-> output[i][4],
                              date |-> Rest(output[i], 4)]]

(* parse_numstat: a line with an arrow is of what stands on both sides of it, *)
(* braces and all; the last line of a path counts.                            *)
PathsOf(line) ==
    LET arrows == {i \in DOMAIN line : line[i] = "=>"}
        first == CHOOSE i \in arrows : \A j \in arrows : i <= j
    IN IF arrows = {} THEN {line} ELSE {SubSeq(line, 1, first - 1), Rest(line, first)}

ApplyNumstat(files, lines) ==
    LET Of(f) == {i \in DOMAIN lines : f.path \in PathsOf(lines[i].path)}
        LastOf(f) == CHOOSE i \in Of(f) : \A j \in Of(f) : j <= i
    IN {IF Of(f) = {} THEN f ELSE [f EXCEPT !.counts = lines[LastOf(f)].counts] : f \in files}

PushCount == IF outputs["upstream"] = <<>> \/ pushed = <<>> THEN 0 ELSE Len(commits) - pushed[1]

-----------------------------------------------------------------------------
(* What a status should list: the files that differ, a rename being one       *)
(* change, with the counts git has for them. The counts of a path that git    *)
(* quotes, and of a rename that it abbreviates, are not found.                *)
Old(p) == IF Renamed(p) # {} THEN Source(p) ELSE <<>>
Lost(p) == p \in Quoted \/ (Renamed(p) # {} /\ Abbreviated(Source(p), p))
StagedCounts(p) == IF Renamed(p) # {} THEN <<head[Source(p)], index[p]>> ELSE <<head[p], index[p]>>
StagedFiles ==
    {[path |-> p, status |-> IF Renamed(p) # {} THEN "R" ELSE Code(head[p], index[p]),
      old |-> Old(p), counts |-> IF Lost(p) THEN <<0, 0>> ELSE StagedCounts(p)] :
        p \in {q \in Paths : head[q] # index[q] /\ ~IsSource(q)}}
UnstagedFiles ==
    {[path |-> p, old |-> <<>>, status |-> Code(index[p], work[p]),
      counts |-> IF p \in Quoted THEN <<0, 0>> ELSE <<index[p], work[p]>>] :
        p \in {q \in Paths : index[q] # 0 /\ index[q] # work[q]}}
UntrackedPaths == {p \in Paths : index[p] = 0 /\ work[p] # 0}

Uncounted(fs) == {File(f.path, f.old, f.status) : f \in fs}
Differing == [staged |-> Uncounted(StagedFiles), unstaged |-> Uncounted(UnstagedFiles),
              untracked |-> UntrackedPaths]

-----------------------------------------------------------------------------
(* compute_status: the commands start together and are all waited for; the    *)
(* commits to push are counted by another command after them.                 *)
BeginReading ==
    /\ running = {} /\ outputs = Empty /\ readings < MaxReadings
    /\ running' = Commands /\ disturbed' = FALSE
    /\ UNCHANGED <<repoVars, outputs, listed, status, readings, changes>>

CommandRuns(c) ==
    /\ c \in running /\ running' = running \ {c}
    /\ outputs' = [outputs EXCEPT ![c] = <<Output(c)>>]
    /\ listed' = IF c = "status" THEN Differing ELSE listed
    /\ UNCHANGED <<repoVars, disturbed, status, readings, changes>>

ComputeStatus ==
    LET lists == ParsePorcelain(outputs["status"][1]) IN
    /\ running = {} /\ outputs # Empty
    /\ status' = [staged |-> ApplyNumstat(lists.staged, outputs["cached"][1]),
                  unstaged |-> ApplyNumstat(lists.unstaged, outputs["unstaged"][1]),
                  untracked |-> lists.untracked,
                  commits |-> ParseLog(outputs["log"][1]),
                  pushCount |-> IF outputs["upstream"][1] = <<>> THEN 0 ELSE PushCount,
                  hasUpstream |-> outputs["upstream"][1] # <<>>]
    /\ outputs' = Empty /\ readings' = readings + 1
    /\ UNCHANGED <<repoVars, running, disturbed, listed, changes>>

(* A change from the panel is of a file it lists, which may be long since.    *)
Changes ==
    /\ changes < MaxChanges /\ changes' = changes + 1
    /\ disturbed' = TRUE /\ UNCHANGED <<running, outputs, listed, status, readings>>

Listed(files) == {f.path : f \in files} \cap Paths

StageFile(p) ==
    /\ p \in Listed(status.unstaged \cup status.untracked) /\ Changes
    /\ index' = [index EXCEPT ![p] = work[p]] /\ unmerged' = unmerged \ {p}
    /\ UNCHANGED <<head, work, commits, pushed>>

UnstageFile(p) ==
    /\ p \in Listed(status.staged) /\ Changes
    /\ index' = [index EXCEPT ![p] = head[p]] /\ unmerged' = unmerged \ {p}
    /\ UNCHANGED <<head, work, commits, pushed>>

DiscardFile(p) ==  \* git checkout fails if the path is not in the index
    /\ p \in Listed(status.unstaged) /\ index[p] # 0 /\ p \notin unmerged /\ Changes
    /\ work' = [work EXCEPT ![p] = index[p]]
    /\ UNCHANGED <<head, index, unmerged, commits, pushed>>

StageAll ==
    /\ status.unstaged # {} /\ Changes /\ index' = work /\ unmerged' = {}
    /\ UNCHANGED <<head, work, commits, pushed>>

UnstageAll ==
    /\ status.staged # {} /\ Changes /\ index' = head /\ unmerged' = {}
    /\ UNCHANGED <<head, work, commits, pushed>>

Commit(message) ==
    /\ message # <<>> /\ index # head /\ unmerged = {} /\ Changes
    /\ head' = index /\ commits' = Append(commits, message)
    /\ UNCHANGED <<index, work, unmerged, pushed>>

Push ==  \* with --set-upstream if the status knows of none
    /\ pushed # <<>> \/ ~status.hasUpstream
    /\ Changes /\ pushed' = <<Len(commits)>>
    /\ UNCHANGED <<head, index, work, unmerged, commits>>

(* In a terminal or an editor: a file is written or deleted, or a merge stops.*)
WriteFile(p, v) ==
    /\ work[p] # v /\ Changes /\ work' = [work EXCEPT ![p] = v]
    /\ UNCHANGED <<head, index, unmerged, commits, pushed>>

MergeStops(p) ==
    /\ index = head /\ head[p] # 0 /\ unmerged = {} /\ Changes /\ unmerged' = {p}
    /\ UNCHANGED <<head, index, work, commits, pushed>>

StatusNext ==
    \/ BeginReading \/ ComputeStatus
    \/ \E c \in Commands : CommandRuns(c)
    \/ \E p \in Paths : StageFile(p) \/ UnstageFile(p) \/ DiscardFile(p)
    \/ StageAll \/ UnstageAll \/ Push
    \/ \E message \in Messages : Commit(message)
    \/ \E p \in Paths, v \in Versions \cup {0} : WriteFile(p, v)

StatusSpec == StatusInit /\ [][StatusNext]_gitStatusVars

MergingNext == StatusNext \/ \E p \in Paths : MergeStops(p)
MergingSpec == StatusInit /\ [][MergingNext]_gitStatusVars

-----------------------------------------------------------------------------
(* A status lists the files that differed when git's status ran, every one    *)
(* and no other, under the right paths whatever words these are made of and   *)
(* whatever changes while the other commands run; and if nothing changed      *)
(* during the reading, with the counts that git printed for them, but for the *)
(* lost ones, and the number of commits to push (compute_status and           *)
(* parse_porcelain_v2).                                                       *)
ListsWhatChanged ==
    [][\/ status' = status
       \/ /\ Uncounted(status'.staged) = listed.staged
          /\ Uncounted(status'.unstaged) = listed.unstaged
          /\ {f.path : f \in status'.untracked} = listed.untracked
          /\ \/ disturbed
             \/ /\ status'.staged = StagedFiles /\ status'.unstaged = UnstagedFiles
                /\ {f.path : f \in status'.untracked} = UntrackedPaths
                /\ status'.pushCount = IF pushed = <<>> THEN 0 ELSE Len(commits) - pushed[1]]_gitStatusVars

(* Disproved: the counts of a rename are found (parse_numstat, whose comment   *)
(* says it handles the abbreviated form).                                     *)
RenamesAreCounted ==
    [][\/ status' = status \/ disturbed
       \/ \A f \in status'.staged :
             f.old # <<>> /\ {f.path, f.old} \cap Quoted = {} =>
                 f.counts = <<head[f.old], index[f.path]>>]_gitStatusVars

(* Disproved: a file in conflict is listed by its path (parse_ordinary_entry, *)
(* which says it reads entries of type "u").                                  *)
ConflictsAreListed ==
    [][status' = status \/ disturbed \/ unmerged \subseteq Listed(status'.unstaged)]_gitStatusVars

(* Disproved: a message may contain a bar (a comment in parse_log_output).    *)
CommitsAreRead ==
    [][status' = status \/ disturbed
       \/ \A i \in DOMAIN commits : /\ status'.commits[i].message = commits[i]
                                    /\ status'.commits[i].author = "author"]_gitStatusVars
=============================================================================
