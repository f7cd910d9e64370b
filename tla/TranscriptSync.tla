-------------------------- MODULE TranscriptSync --------------------------
(***************************************************************************)
(* The transcript of one thread: the browser owns it, the server keeps a   *)
(* copy.  Every chat turn, every finished reply and every flush of a       *)
(* hidden page sends the browser's whole transcript; the server replaces   *)
(* its copy (recall, delete, save) one request at a time, keeps the        *)
(* notifications that only it has, and reverses in the tables what the     *)
(* messages that were dropped had written (thread-sync.ts,                 *)
(* message-sync.ts, table-transcript-restore.ts).                          *)
(*                                                                         *)
(* A message is its id, its role and, for a reply, the one table cell it   *)
(* wrote with the value it replaced.  The value of a cell is the turn that *)
(* wrote it, or None.  Checklists and the text of messages are left out:   *)
(* all that is kept of a text is whether two user messages read the same.  *)
(***************************************************************************)
EXTENDS Naturals, Sequences, FiniteSets, SequencesExt

CONSTANTS
    Turns,       \* what the user may say, each once
    Repeats,     \* the turns that are worded alike ("continue")
    Cells,       \* table cells
    Notes,       \* notifications that workers of older versions left in a thread
    None,
    KeepRecent,  \* messages a compaction keeps as they are (12 in the code)
    MaxFlushes,  \* how often the page is hidden
    May          \* what else may happen, see below

Happenings == {"edit", "compact", "reorder", "sync while compacting"}

ASSUME BoundsAssumption ==
    /\ Repeats \subseteq Turns
    /\ None \notin Turns
    /\ KeepRecent \in Nat \ {0}
    /\ MaxFlushes \in Nat
    /\ May \subseteq Happenings

VARIABLES
    said,        \* the turns said so far
    client,      \* the transcript in the browser
    stored,      \* the server's copy, in the order of recall
    sent,        \* requests on their way to the server
    line,        \* requests under or behind the lock of the thread
    reply,       \* the reply being streamed, or None
    table,       \* what each cell holds
    compacting,  \* the transcript /api/compact summarized, or None
    flushes      \* how often the page was hidden

vars == <<said, client, stored, sent, line, reply, table, compacting, flushes>>

----------------------------------------------------------------------------
(* Messages *)

Values == Turns \cup {None}

Message(id, role, wrote, was) ==
    [id |-> id, role |-> role, wrote |-> wrote, was |-> was]

UserMessage(u) == Message(<<u, "said">>, "user", None, None)
ReplyMessage(r) == Message(<<r.of, "reply">>, "assistant", r.wrote, r.was)
NoteMessage(n) == Message(<<n, "note">>, "note", None, None)

Said == {UserMessage(u) : u \in Turns}
Replies ==
    {ReplyMessage([of |-> u, wrote |-> c, was |-> v]) :
        u \in Turns, c \in Cells \cup {None}, v \in Values}
Noted == {NoteMessage(n) : n \in Notes}
Summaries == {Message(m.id, "system", None, None) : m \in Said \cup Replies \cup Noted}
Messages == Said \cup Replies \cup Noted \cup Summaries

IsNote(m) == m.role = "note"
Ids(s) == {s[i].id : i \in DOMAIN s}

\* Two user messages read the same.
SameText(m, n) == m.id = n.id \/ {m.id[1], n.id[1]} \subseteq Repeats

\* A user message right after one with its text, or after one that was
\* already answered, is taken for a copy made by the model's memory.
Repeated(out, m) ==
    /\ m.role = "user"
    /\ \E i \in DOMAIN out :
          /\ out[i].role = "user"
          /\ SameText(out[i], m)
          /\ i = Len(out) \/ \E j \in i + 1 .. Len(out) : out[j].role = "assistant"

NormalizeRecalled(s) ==
    FoldLeft(LAMBDA out, m : IF Repeated(out, m) THEN out ELSE Append(out, m), <<>>, s)

AgentContext(s) == NormalizeRecalled(s)
ToUi(s) == NormalizeRecalled(SelectSeq(s, LAMBDA m : ~IsNote(m)))

SharedPrefixShort(s, c) ==
    Cardinality({n \in 1 .. Len(s) : n < Len(c) /\ \A i \in 1 .. n : s[i].id = c[i].id})

\* How many messages at the start have the same ids.
SharedPrefix(s, c) ==
    Cardinality({n \in 1 .. Len(s) : n <= Len(c) /\ \A i \in 1 .. n : s[i].id = c[i].id})

ShouldReplace(s, c, force) ==
    \/ force
    \/ /\ c # <<>>
       /\ \/ s = <<>>
          \/ Len(c) # Len(s)
          \/ SharedPrefix(s, c) < Len(s)
          \/ Last(c).id = Last(s).id

RemovedAfterPrefix(s, c) == SubSeq(s, SharedPrefix(s, c) + 1, Len(s))

MergedForgetful(c, s) == SelectSeq(c, LAMBDA m : ~IsNote(m))

\* preserveServerTaskNotifications: the browser's messages, then the notes.
Merged(c, s) ==
    SelectSeq(c, LAMBDA m : ~IsNote(m))
        \o SelectSeq(s, LAMBDA m : IsNote(m) /\ m.id \notin Ids(c))

UndoneOldestFirst(t, removed) ==
    [x \in Cells |->
        LET writes == SelectSeq(removed, LAMBDA m : m.wrote = x)
        IN  IF writes = <<>> THEN t[x] ELSE Last(writes).was]

\* The inverses of the removed writes, newest first: each cell is left as it
\* was before the oldest of them.
Undone(t, removed) ==
    [x \in Cells |->
        LET writes == SelectSeq(removed, LAMBDA m : m.wrote = x)
        IN  IF writes = <<>> THEN t[x] ELSE Head(writes).was]

----------------------------------------------------------------------------
(* Requests *)

Request(kind, of, msgs, force) ==
    [kind |-> kind, of |-> of, msgs |-> msgs, force |-> force,
     step |-> "recall", removed |-> <<>>]

\* The browser waits for /api/compact.
Compacting ==
    \/ compacting # None
    \/ \E i \in DOMAIN line : line[i].kind = "compact"

\* The browser waits for its turn to be answered.
Busy ==
    \/ reply # None
    \/ \E i \in DOMAIN sent : sent[i].kind = "chat"
    \/ \E i \in DOMAIN line : line[i].kind = "chat"

At(step) == line # <<>> /\ line[1].step = step

\* An empty thread, or one that was loaded with a turn of earlier days and,
\* if it is old enough, notifications of background workers after it.
OldTurn(u, x) ==
    LET old == <<UserMessage(u), ReplyMessage([of |-> u, wrote |-> x, was |-> None])>>
    IN  /\ said = {u}
        /\ client = old
        /\ \E ns \in SUBSET Notes : stored = old \o SetToSeq({NoteMessage(n) : n \in ns})
        /\ table = [y \in Cells |-> IF y = x THEN u ELSE None]

NoTurn ==
    /\ said = {}
    /\ client = <<>>
    /\ stored = <<>>
    /\ table = [y \in Cells |-> None]

Init ==
    /\ NoTurn \/ \E u \in Turns, x \in Cells \cup {None} : OldTurn(u, x)
    /\ sent = <<>>
    /\ line = <<>>
    /\ reply = None
    /\ compacting = None
    /\ flushes = 0

----------------------------------------------------------------------------
(* The browser *)

\* A turn is shown and posted to /api/chat with the transcript before it.
SayAfter(kept, u, force) ==
    LET msgs == Append(kept, UserMessage(u))
    IN  /\ ~Busy /\ u \notin said
        /\ Compacting => "sync while compacting" \in May
        /\ said' = said \cup {u}
        /\ client' = msgs
        /\ sent' = Append(sent, Request("chat", u, msgs, force))
        /\ UNCHANGED <<stored, line, reply, table, compacting, flushes>>

Send(u) == SayAfter(client, u, FALSE)

\* sliceMessagesForLinearEdit: the edited message goes, with everything after
\* it and the unanswered user messages before it.
BeforeEdit(i) ==
    LET answered == {j \in 1 .. i - 1 : client[j].role = "assistant"}
    IN  SubSeq(client, 1, IF answered = {} THEN 0 ELSE Max(answered))

Edit(u, i) ==
    /\ "edit" \in May
    /\ client[i].role = "user"
    /\ SayAfter(BeforeEdit(i), u, TRUE)

\* The transcript with what the reply has come to.
Showing(r) ==
    IF client # <<>> /\ Last(client).id = <<r.of, "reply">>
    THEN [client EXCEPT ![Len(client)] = ReplyMessage(r)]
    ELSE Append(client, ReplyMessage(r))

Show ==
    /\ reply # None
    /\ client' = Showing(reply)
    /\ UNCHANGED <<said, stored, sent, line, reply, table, compacting, flushes>>

\* onFinish: the browser sends the transcript, unless the turn was aborted.
Finish ==
    /\ reply # None
    /\ client' = Showing(reply)
    /\ sent' = Append(sent, Request("sync", None, Showing(reply), TRUE))
    /\ reply' = None
    /\ UNCHANGED <<said, stored, line, table, compacting, flushes>>

Stop ==
    /\ reply # None
    /\ reply' = None
    /\ UNCHANGED <<said, client, stored, sent, line, table, compacting, flushes>>

\* The page is hidden: the transcript as it is at that moment.
FlushTranscript ==
    /\ flushes < MaxFlushes /\ client # <<>>
    /\ Compacting => "sync while compacting" \in May
    /\ flushes' = flushes + 1
    /\ sent' = Append(sent, Request("sync", None, client, TRUE))
    /\ UNCHANGED <<said, client, stored, line, reply, table, compacting>>

----------------------------------------------------------------------------
(* The server *)

\* The lock serves the requests of a thread in the order of their arrival.
WithThreadSyncLock(i) == line' = Append(line, sent[i])

Arrive(i) ==
    /\ i = 1 \/ "reorder" \in May
    /\ WithThreadSyncLock(i)
    /\ sent' = RemoveAt(sent, i)
    /\ UNCHANGED <<said, client, stored, reply, table, compacting, flushes>>

Advance(q) == line' = [line EXCEPT ![1] = q]

\* What follows a sync: the chat turn runs its agent, a compaction answers
\* with the transcript the browser then shows.
Served ==
    /\ line' = Tail(line)
    /\ reply' = IF line[1].kind = "chat"
                THEN [of |-> line[1].of, wrote |-> None, was |-> None] ELSE reply
    /\ client' = IF line[1].kind = "compact"
                 THEN SelectSeq(line[1].msgs, LAMBDA m : ~IsNote(m)) ELSE client

\* The copy is read; what will be dropped and what will be kept is decided.
Recall ==
    /\ At("recall")
    /\ LET q == line[1]
           context == AgentContext(stored)
       IN  IF ShouldReplace(stored, q.msgs, q.force)
           THEN /\ Advance([q EXCEPT !.step = "erase",
                                     !.removed = RemovedAfterPrefix(context, q.msgs),
                                     !.msgs = Merged(q.msgs, context)])
                /\ UNCHANGED <<client, reply>>
           ELSE Served
    /\ UNCHANGED <<said, stored, sent, table, compacting, flushes>>

EraseNothing ==
    /\ At("erase")
    /\ Advance([line[1] EXCEPT !.step = "save"])
    /\ UNCHANGED <<said, client, stored, sent, reply, table, compacting, flushes>>

\* replaceThreadMessages: everything stored is deleted ...
Erase ==
    /\ At("erase")
    /\ stored' = <<>>
    /\ Advance([line[1] EXCEPT !.step = "save"])
    /\ UNCHANGED <<said, client, sent, reply, table, compacting, flushes>>

\* ... and the merged transcript saved, with times after all there is.
Save ==
    /\ At("save")
    /\ stored' = stored \o line[1].msgs
    /\ Advance([line[1] EXCEPT !.step = "undo"])
    /\ UNCHANGED <<said, client, sent, reply, table, compacting, flushes>>

\* The checklist has been set; the writes of the dropped messages go.
Undo ==
    /\ At("undo")
    /\ table' = Undone(table, line[1].removed)
    /\ Served
    /\ UNCHANGED <<said, stored, sent, compacting, flushes>>

\* The reply calls a table tool, whose result records the value replaced.
Write(x) ==
    /\ reply # None
    /\ reply.wrote = None
    /\ reply' = [reply EXCEPT !.wrote = x, !.was = table[x]]
    /\ table' = [table EXCEPT ![x] = reply.of]
    /\ UNCHANGED <<said, client, stored, sent, line, compacting, flushes>>

\* ContextCompression.processInput, forced: the summary takes the place and
\* the id of the first message it stands for.
Compacted(s) ==
    LET most == IF Len(s) > 1 THEN Len(s) - 1 ELSE 1
        keep == IF KeepRecent < most THEN KeepRecent ELSE most
        head == Len(s) - keep
    IN  IF head <= 0 THEN s
        ELSE <<Message(s[1].id, "system", None, None)>> \o SubSeq(s, head + 1, Len(s))

\* /api/compact reads the copy without the lock ...
Compact ==
    /\ "compact" \in May
    /\ ~Busy /\ ~Compacting /\ stored # <<>>
    /\ sent \o line = <<>> \/ "sync while compacting" \in May
    /\ compacting' = ToUi(Compacted(stored))
    /\ UNCHANGED <<said, client, stored, sent, line, reply, table, flushes>>

\* ... and replaces it, some time later, by what it summarized.
Summarized ==
    /\ compacting # None
    /\ line' = Append(line, Request("compact", None, compacting, TRUE))
    /\ compacting' = None
    /\ UNCHANGED <<said, client, stored, sent, reply, table, flushes>>

\* The server restarts; requests it had not finished are gone.
Crash ==
    /\ sent' = <<>> /\ line' = <<>> /\ reply' = None /\ compacting' = None
    /\ UNCHANGED <<said, client, stored, table, flushes>>

Next ==
    \/ \E u \in Turns : Send(u)
    \/ \E u \in Turns, i \in DOMAIN client : Edit(u, i)
    \/ Show \/ Finish \/ FlushTranscript
    \/ \E i \in DOMAIN sent : Arrive(i)
    \/ Recall \/ Erase \/ Save \/ Undo
    \/ \E x \in Cells : Write(x)
    \/ Compact \/ Summarized

Spec == Init /\ [][Next]_vars

\* The same with runs that are stopped and a server that may go.
FailingNext == Next \/ Stop \/ Crash

----------------------------------------------------------------------------
(* Properties *)

\* Nothing is under way between the browser and the server.
Quiet == sent = <<>> /\ line = <<>> /\ reply = None /\ compacting = None

\* The browser is authoritative: once everything it sent is served, the
\* server's copy holds the browser's messages in their order, whatever was
\* recalled, erased and saved on the way (syncThreadMessagesFromClient).
StoredIsClient == Quiet => SelectSeq(stored, LAMBDA m : ~IsNote(m)) = client

\* The last write of a cell in a transcript.
Replayed(c, x) ==
    LET writes == SelectSeq(c, LAMBDA m : m.wrote = x)
    IN  IF writes = <<>> THEN None ELSE Last(writes).id[1]

\* Once everything is served, each cell holds what the transcript's last
\* write to it left there: edits that drop replies take their writes back, in
\* the right order, and no other (undoTableCellMutationsFromRemovedMessages).
TableFollowsTranscript == Quiet => \A x \in Cells : table[x] = Replayed(client, x)

\* Both copies the server keeps of what the browser has: StoredIsClient, and
\* TableFollowsTranscript.
CopiesFollowClient == StoredIsClient /\ TableFollowsTranscript

\* A write is taken back only for a reply that is not in the transcript being
\* stored (thread-sync.ts: "only in the dropped suffix").
OnlyDroppedIsUndone ==
    At("undo") =>
        \A i \in DOMAIN line[1].removed :
            line[1].removed[i].wrote # None =>
                line[1].removed[i].id \notin Ids(line[1].msgs)

\* The notifications that are stored, or in the transcript being saved.
NotesKept ==
    {n \in Notes : NoteMessage(n).id \in
        Ids(stored) \cup (IF At("save") THEN Ids(line[1].msgs) ELSE {})}

\* No sync loses a notification the server has, although the browser, which
\* never shows them, does not send them ("preserve server copies on sync").
NotesArePreserved == [][NotesKept \subseteq NotesKept']_vars
============================================================================
