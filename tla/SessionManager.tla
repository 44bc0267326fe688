--------------------------- MODULE SessionManager ---------------------------
(***************************************************************************)
(* SessionManager (packages/coding-agent/src/core/session-manager.ts): a   *)
(* tree of entries in memory, and the file with one line per entry that    *)
(* other processes, and this program after a restart, load it from.        *)
(*                                                                         *)
(* All operations are synchronous: a step is a whole call.  A call may be  *)
(* interrupted in the middle of a write, by a crash of the process or by   *)
(* an error of the disk.  Sessions that are not persisted, and files of an *)
(* older version, are left out.                                            *)
(***************************************************************************)
EXTENDS Naturals, Subsequences, SequencesExt

CONSTANTS
    MaxEntries,  \* bound: entries ever created
    MaxFiles,    \* bound: session files ever named
    MaxFaults    \* bound: interrupted writes

ASSUME SessionManagerAssumption ==
    MaxEntries \in Nat /\ MaxFiles \in Nat /\ MaxFaults \in Nat

VARIABLES
    files,        \* the lines of every session file that exists
    running,      \* is there a manager
    sessionFile, fileEntries, leafId, labels, flushed,  \* its fields
    nextId, nextFile,  \* fresh names
    saved,        \* history: of each file, the entries reported as written
    faults,       \* history: interrupted writes
    spoilt        \* history: files whose header was continued by an entry

disk    == << files, spoilt >>
memory  == << running, sessionFile, fileEntries, leafId, labels, flushed >>
history == << saved, faults >>
vars    == << disk, memory, nextId, nextFile, history >>

-----------------------------------------------------------------------------
(* Entries, and the lines of a file *)

File == 1..MaxFiles
Id   == 1..MaxEntries

\* parent is 0 for a root.  ref is the first kept entry of a compaction and
\* the target of a label; "setting" is any entry the model is not shown.
Kind  == {"user", "assistant", "setting", "compaction", "branch_summary",
          "label", "unlabel"}
EntryOf(kinds) ==
    [id : Id, parent : {0} \union Id, kind : kinds, ref : {0} \union Id]
Entry == EntryOf(Kind)

Ids(entries) == { entries[i].id : i \in DOMAIN entries }
OfKind(entries, kinds) == { i \in DOMAIN entries : entries[i].kind \in kinds }
HasReply(entries) == OfKind(entries, {"assistant"}) # {}

\* A write that is cut off leaves half a line, or a line that parses but does
\* not end yet.  What is written next continues that line, which is malformed
\* then.
Header  == [kind |-> "session"]
Half    == [kind |-> "half"]
Garbage == [kind |-> "garbage"]
Unended(line) == [kind |-> "unended", line |-> line]

EndsUnended(lines) == lines # << >> /\ Last(lines).kind = "unended"
EndsOpen(lines)    == lines # << >> /\ Last(lines).kind \in {"half", "unended"}
AppendLine(lines, line) ==
    IF EndsOpen(lines) THEN Append(Front(lines), Garbage) ELSE Append(lines, line)

\* What an interrupted write of a line, or of a new file, may leave.
Torn(lines, line) ==
    {lines} \union
      IF EndsOpen(lines) THEN { Append(Front(lines), Half) }
                         ELSE { Append(lines, l) : l \in {Half, Unended(line)} }
Beginnings(lines) ==
    UNION { Torn(SubSeq(lines, 1, n), lines[n + 1]) : n \in 0..(Len(lines) - 1) }

\* loadEntriesFromFile skips malformed lines and wants a header first.
Parsed(line) == IF line.kind = "unended" THEN line.line ELSE line
IsSession(lines) ==
    \E i \in DOMAIN lines :
      /\ Parsed(lines[i]) = Header
      /\ \A j \in 1..(i - 1) : lines[j] \in {Half, Garbage}
Loaded(lines) ==
    IF IsSession(lines)
    THEN Only([i \in DOMAIN lines |-> Parsed(lines[i])], Entry)
    ELSE << >>

\* Mutant of LabelsOf: the removal of a label is not read back.
LabelsOfRemoved(entries) == { entries[i].ref : i \in OfKind(entries, {"label"}) }

\* _buildIndex: the last label of an entry counts; the last entry is the leaf.
LabelsOf(entries) ==
    { entries[i].ref : i \in { i \in OfKind(entries, {"label"}) :
        \A j \in OfKind(entries, {"unlabel"}) :
          j > i => entries[j].ref # entries[i].ref } }
LastId(entries) == IF entries = << >> THEN 0 ELSE Last(entries).id

-----------------------------------------------------------------------------
(* The tree *)

Position(entries, id) ==
    IF id \in Ids(entries) THEN CHOOSE i \in DOMAIN entries : entries[i].id = id
                           ELSE 0

\* getBranch: from the root, or an entry without its parent, to this entry.
GetBranch(entries, id) ==
    LET branch[i \in 0..Len(entries)] ==
          IF i = 0 THEN << >>
          ELSE Append(branch[Position(entries, entries[i].parent)], entries[i])
    IN  branch[Position(entries, id)]

Messages(path) ==
    Only(path, EntryOf({"user", "assistant", "branch_summary"}))

\* buildSessionContext: the messages on the branch, or the summary of its last
\* compaction with the messages that were kept and those that follow.
ContextOf(path) ==
    LET compactions == OfKind(path, {"compaction"})
        c    == Max(compactions)
        kept == { i \in 1..(c - 1) : \E j \in 1..i : path[j].id = path[c].ref }
    IN  IF compactions = {} THEN Messages(path)
        ELSE << path[c] >>
               \o Messages(IF kept = {} THEN << >>
                           ELSE SubSeq(path, Min(kept), c - 1))
               \o Messages(SubSeq(path, c + 1, Len(path)))

BuildSessionContext(entries, leaf) ==
    ContextOf(IF leaf = 0 THEN << >>
              ELSE GetBranch(entries, IF leaf \in Ids(entries)
                                      THEN leaf ELSE LastId(entries)))

-----------------------------------------------------------------------------

Nowhere ==
    /\ running' = FALSE /\ sessionFile' = 0 /\ flushed' = FALSE
    /\ fileEntries' = << >> /\ leafId' = 0 /\ labels' = {}

Init ==
    /\ files = << >>
    /\ running = FALSE /\ sessionFile = 0 /\ flushed = FALSE
    /\ fileEntries = << >> /\ leafId = 0 /\ labels = {}
    /\ nextId = 1 /\ nextFile = 1
    /\ saved = [f \in File |-> {}] /\ faults = 0 /\ spoilt = {}

WriteFile(f, lines) ==
    /\ files' = [g \in DOMAIN files \union {f} |->
                   IF g = f THEN lines ELSE files[g]]
    /\ spoilt' = spoilt \union
                   { g \in DOMAIN files : /\ files[g] = << Unended(Header) >>
                                          /\ files'[g] # files[g] }

Fault == faults < MaxFaults /\ faults' = faults + 1

\* A call that is interrupted while it writes these lines to a new file: the
\* process is gone, or the caller drops the manager because the call threw.
Interrupted(f, lines) ==
    /\ Fault
    /\ \E beginning \in Beginnings(lines) : WriteFile(f, beginning)
    /\ Nowhere
    /\ UNCHANGED saved

\* The process ends between two calls.
Exit ==
    /\ running /\ Nowhere
    /\ UNCHANGED << disk, nextId, nextFile, history >>

-----------------------------------------------------------------------------
(* newSession and setSessionFile *)

\* Mutant of NewSession: the leaf is not reset.
NewSessionKeepsLeaf ==
    /\ nextFile \in File
    /\ running' = TRUE /\ sessionFile' = nextFile /\ flushed' = FALSE
    /\ fileEntries' = << >> /\ labels' = {}
    /\ nextFile' = nextFile + 1
    /\ UNCHANGED << disk, leafId, nextId, history >>

\* The file is named but not created yet.
NewSession ==
    /\ nextFile \in File
    /\ running' = TRUE /\ sessionFile' = nextFile /\ flushed' = FALSE
    /\ fileEntries' = << >> /\ leafId' = 0 /\ labels' = {}
    /\ nextFile' = nextFile + 1
    /\ UNCHANGED << disk, nextId, history >>

Load(f, entries) ==
    /\ running' = TRUE /\ sessionFile' = f /\ flushed' = TRUE
    /\ fileEntries' = entries
    /\ leafId' = LastId(entries)
    /\ labels' = LabelsOf(entries)

Open(f) ==
    /\ f \in DOMAIN files /\ IsSession(files[f])
    /\ Load(f, Loaded(files[f]))
    /\ UNCHANGED << disk, nextId, nextFile, history >>

\* A file without a header is truncated and becomes a new session.
OpenCorrupted(f) ==
    /\ f \in DOMAIN files /\ ~IsSession(files[f])
    /\ \/ /\ WriteFile(f, << Header >>)
          /\ Load(f, << >>)
          /\ UNCHANGED history
       \/ Interrupted(f, << Header >>)
    /\ UNCHANGED << nextId, nextFile >>

-----------------------------------------------------------------------------
(* _appendEntry and _persist *)

\* Before the first reply the entries are only kept in memory.  With it a new
\* file is written (flag "wx"), later entries are appended to the file.
Deferred(entries)   == ~flushed /\ ~HasReply(entries)
FirstFlush(entries) == ~flushed /\ HasReply(entries)

\* Mutants of Persist: the first flush writes the newest entry only, or one of
\* a session that is still without a reply counts as done.
PersistNewest(entries) ==
    /\ \/ Deferred(entries) /\ UNCHANGED << disk, flushed, saved >>
       \/ /\ FirstFlush(entries) /\ sessionFile \notin DOMAIN files
          /\ WriteFile(sessionFile, << Header, Last(entries) >>)
          /\ flushed' = TRUE
          /\ saved' = [saved EXCEPT ![sessionFile] = Ids(entries)]
       \/ /\ flushed
          /\ WriteFile(sessionFile,
                       AppendLine(files[sessionFile], Last(entries)))
          /\ saved' = [saved EXCEPT ![sessionFile] = @ \union {Last(entries).id}]
          /\ UNCHANGED flushed
    /\ UNCHANGED faults
PersistDeferredIsFlushed(entries) ==
    /\ \/ Deferred(entries) /\ flushed' = TRUE /\ UNCHANGED << disk, saved >>
       \/ /\ FirstFlush(entries) /\ sessionFile \notin DOMAIN files
          /\ WriteFile(sessionFile, << Header >> \o entries)
          /\ flushed' = TRUE
          /\ saved' = [saved EXCEPT ![sessionFile] = Ids(entries)]
    /\ UNCHANGED faults

Persist(entries) ==
    /\ \/ Deferred(entries) /\ UNCHANGED << disk, flushed, saved >>
       \/ /\ FirstFlush(entries) /\ sessionFile \notin DOMAIN files
          /\ WriteFile(sessionFile, << Header >> \o entries)
          /\ flushed' = TRUE
          /\ saved' = [saved EXCEPT ![sessionFile] = Ids(entries)]
       \/ /\ flushed
          /\ WriteFile(sessionFile,
                       AppendLine(files[sessionFile], Last(entries)))
          /\ saved' = [saved EXCEPT ![sessionFile] = @ \union {Last(entries).id}]
          /\ UNCHANGED flushed
    /\ UNCHANGED faults

\* An interrupted write of the same lines.
CutOff(entries) ==
    /\ Fault
    /\ \/ /\ FirstFlush(entries) /\ sessionFile \notin DOMAIN files
          /\ \E lines \in Beginnings(<< Header >> \o entries) :
               WriteFile(sessionFile, lines)
       \/ /\ flushed
          /\ \E lines \in Torn(files[sessionFile], Last(entries)) :
               WriteFile(sessionFile, lines)
    /\ UNCHANGED saved

\* The file is there although nothing was flushed: an earlier flush failed.
FileExists(entries) ==
    /\ FirstFlush(entries) /\ sessionFile \in DOMAIN files
    /\ UNCHANGED << disk, history >>

\* The entry is in memory before it is persisted, and stays there if that
\* throws; the label is only set afterwards.
AppendEntry(parent, kind, ref, named) ==
    LET entry   == [id |-> nextId, parent |-> parent, kind |-> kind, ref |-> ref]
        entries == Append(fileEntries, entry)
        Remember == /\ fileEntries' = entries /\ leafId' = nextId
                    /\ UNCHANGED << running, sessionFile >>
    IN  /\ running /\ nextId \in Id
        /\ nextId' = nextId + 1
        /\ \/ Persist(entries) /\ Remember /\ labels' = named
           \/ /\ CutOff(entries) \/ FileExists(entries)
              /\ Remember
              /\ UNCHANGED << labels, flushed >>
           \/ CutOff(entries) /\ Nowhere
        /\ UNCHANGED nextFile

\* appendMessage, and appendModelChange, appendCustomEntry, ...
AppendMessage == \E kind \in {"user", "assistant", "setting"} :
                   AppendEntry(leafId, kind, 0, labels)

\* The first kept entry is on the branch that is compacted.
AppendCompaction ==
    \E first \in Ids(GetBranch(fileEntries, leafId)) :
      AppendEntry(leafId, "compaction", first, labels)

AppendLabelChange ==
    \E target \in Ids(fileEntries) :
      \/ AppendEntry(leafId, "label", target, labels \union {target})
      \/ AppendEntry(leafId, "unlabel", target, labels \ {target})

-----------------------------------------------------------------------------
(* Branching *)

\* branch() and resetLeaf() leave no trace in the file.
MoveLeaf ==
    /\ running
    /\ leafId' \in {0} \union Ids(fileEntries)
    /\ UNCHANGED << disk, running, sessionFile, fileEntries, labels, flushed,
                    nextId, nextFile, history >>

BranchWithSummary ==
    \E from \in {0} \union Ids(fileEntries) :
      AppendEntry(from, "branch_summary", from, labels)

\* The new labels of the entries on a branch: one after the other at its end.
\* Their order, that of a Map, is not modelled.
Relabelled(branch) ==
    LET targets == SetToSeq(labels \intersect Ids(branch))
    IN  [i \in DOMAIN targets |->
           [id     |-> nextId + i - 1,
            parent |-> IF i = 1 THEN LastId(branch) ELSE nextId + i - 2,
            kind   |-> "label", ref |-> targets[i]]]

PathWithoutLabels(id) ==
    Only(GetBranch(fileEntries, id), EntryOf(Kind \ {"label", "unlabel"}))

\* Mutants of BranchEntries: the labels are put in front, or the walk ends at
\* the entry after the root.
BranchEntriesLabelsFirst(id) ==
    LET branch == PathWithoutLabels(id)
    IN  Relabelled(branch) \o branch
BranchEntriesWithoutRoot(id) ==
    LET branch == Only(PathWithoutLabels(id), { e \in Entry : e.parent # 0 })
    IN  branch \o Relabelled(branch)

BranchEntries(id) ==
    LET branch == PathWithoutLabels(id)
    IN  branch \o Relabelled(branch)

\* The branch that ends in this entry becomes the session.  Its labels are
\* taken out, their children keep their parent, and new ones put at the end.
CreateBranchedSession(id) ==
    LET entries == BranchEntries(id)
        lines   == << Header >> \o entries
    IN  /\ running /\ id \in Ids(fileEntries)
        /\ nextFile \in File /\ nextFile' = nextFile + 1
        /\ LET used == { i \in Ids(entries) : i >= nextId }
           IN  /\ used \subseteq Id
               /\ nextId' = Max({nextId - 1} \union used) + 1
        /\ \/ /\ HasReply(entries)
              /\ WriteFile(nextFile, lines)
              /\ Load(nextFile, entries)
              /\ saved' = [saved EXCEPT ![nextFile] = Ids(entries)]
              /\ UNCHANGED faults
           \/ /\ ~HasReply(entries)
              /\ running' = TRUE /\ sessionFile' = nextFile /\ flushed' = FALSE
              /\ fileEntries' = entries /\ leafId' = LastId(entries)
              /\ labels' = LabelsOf(entries)
              /\ UNCHANGED << disk, history >>
           \/ HasReply(entries) /\ Interrupted(nextFile, lines)

\* Mutant of ForkFrom: the copy is written over the file that is forked.
ForkFromInPlace(f) ==
    /\ f \in DOMAIN files /\ IsSession(files[f])
    /\ WriteFile(f, << Header >>)
    /\ Load(f, << >>)
    /\ UNCHANGED << nextId, nextFile, history >>

\* forkFrom: a session file is copied, line by line, and opened.
ForkFrom(f) ==
    LET entries == Loaded(files[f])
    IN  /\ f \in DOMAIN files /\ IsSession(files[f])
        /\ nextFile \in File /\ nextFile' = nextFile + 1
        /\ \/ /\ WriteFile(nextFile, << Header >> \o entries)
              /\ Load(nextFile, entries)
              /\ saved' = [saved EXCEPT ![nextFile] = Ids(entries)]
              /\ UNCHANGED faults
           \/ Interrupted(nextFile, << Header >> \o entries)
        /\ UNCHANGED nextId

-----------------------------------------------------------------------------

Next ==
    \/ Exit \/ NewSession
    \/ \E f \in File : Open(f) \/ OpenCorrupted(f) \/ ForkFrom(f)
    \/ AppendMessage \/ AppendCompaction \/ AppendLabelChange
    \/ MoveLeaf \/ BranchWithSummary
    \/ \E id \in Id : CreateBranchedSession(id)

Spec == Init /\ [][Next]_vars

-----------------------------------------------------------------------------
(* Properties *)

Lines == Entry \union {Header}
Line  == Lines \union {Half, Garbage} \union { Unended(l) : l \in Lines }

\* Every variable has its type, and the leaf is an entry of the session.
TypeOK ==
    /\ DOMAIN files \subseteq File
    /\ \A f \in DOMAIN files : files[f] \in Seq(Line)
    /\ running \in BOOLEAN /\ flushed \in BOOLEAN
    /\ sessionFile \in {0} \union File
    /\ fileEntries \in Seq(Entry)
    /\ leafId \in {0} \union Ids(fileEntries)
    /\ labels \subseteq Id
    /\ nextId \in 1..(MaxEntries + 1) /\ nextFile \in 1..(MaxFiles + 1)
    /\ saved \in [File -> SUBSET Id] /\ faults \in 0..MaxFaults
    /\ spoilt \subseteq DOMAIN files

\* As long as no write has been interrupted, loading the file gives the entries
\* and the labels that the manager has, whatever was branched, labelled, forked
\* or deferred before (setSessionFile, _buildIndex, _persist).
ReloadIsTheSession ==
    running /\ flushed /\ faults = 0 =>
      /\ Loaded(files[sessionFile]) = fileEntries
      /\ LabelsOf(fileEntries) = labels

\* A session with a reply is in its file, and a file that entries are appended
\* to starts with its only header: another line in front, or a second header
\* (the "duplicate-header bug", createBranchedSession), and it is truncated
\* the next time it is opened.  The exception is a file that was cut off
\* between its header and the end of that line: the first entry makes the
\* header unreadable.
RepliesAreInASession ==
    /\ running /\ HasReply(fileEntries) /\ faults = 0 => flushed
    /\ running /\ flushed => /\ sessionFile \in DOMAIN files
                             /\ \/ IsSession(files[sessionFile])
                                \/ sessionFile \in spoilt
    /\ \A f \in DOMAIN files : \A i \in DOMAIN files[f] :
         files[f][i] = Header => i = 1

\* Of the entries that were reported as written, an interrupted write costs at
\* most one: the next one, which continues the torn line.  The exception are
\* files whose header lost its newline: the next append leaves nothing of them.
TornLinesLoseOneEntry ==
    \A f \in DOMAIN files \ spoilt :
      Cardinality(saved[f] \ Ids(Loaded(files[f]))) <= faults

\* A parent stands before its children in the file, so that the walks from an
\* entry to the root end (getBranch, buildSessionContext), also after lines
\* were lost and in a branched session.
ParentsComeFirst ==
    \A i, j \in DOMAIN fileEntries :
      /\ fileEntries[i].parent = fileEntries[j].id => j < i
      /\ fileEntries[i].id = fileEntries[j].id => i = j

\* "The session is append-only ... Entries cannot be modified or deleted"
\* (getEntries): no step takes a readable entry out of a file, that of a parent
\* session included, unless its line never ended.
Ended(lines) == IF EndsUnended(lines) THEN Front(lines) ELSE lines
FilesOnlyGrow ==
    [][\A f \in DOMAIN files :
         /\ f \in DOMAIN files'
         /\ IsPrefix(Loaded(Ended(files[f])), Loaded(files'[f]))]_vars

\* "Create a new session file containing only the path from root to the
\* specified leaf": the new session shows the model what the branch showed it.
ShowsTheBranch(id) ==
    CreateBranchedSession(id) /\ running' =>
      BuildSessionContext(fileEntries', leafId')
        = BuildSessionContext(fileEntries, id)
BranchedSessionShowsTheBranch == [][\A id \in Id : ShowsTheBranch(id)]_vars

\* The same for branches without a label on them.
UnlabelledBranchIsKept ==
    [][\A id \in Id :
         OfKind(GetBranch(fileEntries, id), {"label", "unlabel"}) = {}
           => ShowsTheBranch(id)]_vars

=============================================================================
