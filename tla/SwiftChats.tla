----------------------------- MODULE SwiftChats -----------------------------
(***************************************************************************)
(* The chat archive of a version 3 package: swift_import/chats.rs. The     *)
(* archive is validated once on the wire, kept by the application as rows  *)
(* of conversations, items and images, and validated again from those      *)
(* rows. Texts, dates and digests are abstract: equal values are equal     *)
(* bytes, a hash is what was hashed, and a check of one field's spelling   *)
(* or size is the flag "fine" of the record that holds the field.          *)
(*                                                                         *)
(* Records of the wire:                                                    *)
(*   archive       [store, conversations, images, disclosed, fine]         *)
(*   conversation  [session, project, kind, runtime, last, omitted, items, *)
(*                  fine]; omitted = [references, usage, private]          *)
(*   item          [ordinal, source, body, status, count, attachments,     *)
(*                  fine]                                                  *)
(*   source        [kind, event, item, tool, at, seq, turn, run, branch]   *)
(*   body          [kind, blank, outcome]                                  *)
(*   status        [kind, reason]; reason in {"none", "empty", "text"}     *)
(*   image         [id, fine]                                              *)
(* An id of the wire is [id, upper]: a UUID's name and whether it is       *)
(* spelled in upper case.                                                  *)
(***************************************************************************)
EXTENDS Integers, Sequences, FiniteSets, SequencesExt

Absent == "absent"                      \* an optional id or value left out
NoId == [id |-> Absent, upper |-> FALSE]

\* No two elements of s have the same value of Key.
Distinct(s, Key(_)) ==
    \A i, j \in DOMAIN s : Key(s[i]) = Key(s[j]) => i = j

Every(s, P(_)) == \A i \in DOMAIN s : P(s[i])

(***************************************************************************)
(* Items                                                                   *)
(***************************************************************************)

\* A legacy message has a position in time, a runtime event an item or a
\* tool invocation, a run and a branch; neither has the other's fields.
SourceOk(s) ==
    \/ /\ s.kind = "legacy"
       /\ Absent \notin {s.event, s.turn} /\ s.at >= 0
       /\ s.item = Absent /\ s.tool = Absent /\ s.run = Absent /\ s.branch = Absent
    \/ /\ s.kind = "runtime"
       /\ Absent \notin {s.event, s.turn, s.run, s.branch}
       /\ s.at = -1 /\ s.seq > 0

StatusOk(st) ==
    /\ st.kind \in {"complete", "failed", "cancelled", "incomplete", "queued"}
    /\ (st.reason # "none") <=> (st.kind = "failed")

Unexplained(st) == st.reason \in {"none", "empty"}

\* The relation of a tool's outcome to the item's status.
LegacyToolOk(outcome, st) ==
    \/ outcome \in {"success", "denied"} /\ st.kind = "complete" /\ Unexplained(st)
    \/ outcome = "error" /\ st.kind = "failed" /\ Unexplained(st)
    \/ outcome \in {"running", "needsApproval", "unknown"} /\ st.kind = "incomplete"

RuntimeToolOk(outcome, st) ==
    \/ outcome = "success" /\ st.kind = "complete" /\ Unexplained(st)
    \/ outcome = "error" /\ st.kind = "failed" /\ Unexplained(st)
    \/ outcome = "unknown" /\ st.kind = "incomplete"

RuntimeBodyOk(item) ==
    LET b == item.body
        st == item.status
    IN  /\ (b.kind = "tool") <=> (item.source.tool # Absent)
        /\ (b.kind = "tool") <=> (item.source.item = Absent)
        /\ b.kind # "user" => item.count = 0
        /\ item.count <= 64
        /\ \/ b.kind = "user" /\ st.kind = "complete"
           \/ b.kind = "assistant" /\ st.kind = "complete" /\ ~b.blank
           \/ b.kind = "notice" /\ b.blank
              /\ ((st.kind = "failed" /\ Unexplained(st)) \/ st.kind = "cancelled")
           \/ b.kind = "tool" /\ RuntimeToolOk(b.outcome, st)

BodyOk(item) ==
    /\ item.body.kind \in {"user", "assistant", "notice", "tool"}
    /\ (item.body.kind = "tool") <=> (item.body.outcome # Absent)
    /\ StatusOk(item.status)
    /\ IF item.source.kind = "runtime"
       THEN RuntimeBodyOk(item)
       ELSE item.body.kind = "tool" /\ item.status.kind # "queued"
            => LegacyToolOk(item.body.outcome, item.status)

ItemOk(item) ==
    /\ item.fine
    /\ item.count = Len(item.attachments)
    /\ SourceOk(item.source) /\ BodyOk(item)
    /\ item.source.kind = "legacy" => Distinct(item.attachments, LAMBDA a : a)

ArchiveId(store, session) == <<store, session>>

\* An item as it is kept: its parent, its identity and its fingerprint.
Projected(archive, item) ==
    [archive |-> archive,
     id |-> <<archive, item.source.kind, item.source.event>>,
     fingerprint |-> <<archive, item>>,
     payload |-> item]

(***************************************************************************)
(* Conversations                                                           *)
(***************************************************************************)

OriginOk(c) ==
    \/ c.kind = "legacy" /\ c.runtime = Absent /\ c.last = -1
    \/ c.kind = "runtime" /\ c.runtime # Absent /\ c.last >= 0

OmissionsOk(c, n) ==
    /\ c.omitted.usage <= 4 * n
    /\ IF c.runtime # Absent THEN c.omitted.usage = 0 ELSE c.omitted.private = 0

\* Legacy messages are ordered by time, then by sequence; runtime events by
\* their sequence, up to the last one the session has.
Ordered(c, sources) ==
    \A i \in DOMAIN sources :
        /\ sources[i].kind = c.kind
        /\ c.kind = "runtime" => sources[i].seq <= c.last
        /\ i > 1 => LET p == sources[i - 1]
                        n == sources[i]
                    IN  IF c.kind = "legacy"
                        THEN n.at > p.at \/ (n.at = p.at /\ n.seq > p.seq)
                        ELSE n.seq > p.seq

\* One branch for a conversation, one turn for a run.
OneLineage(c, sources) ==
    c.kind = "runtime" =>
        \A i, j \in DOMAIN sources :
            /\ sources[i].branch = sources[j].branch
            /\ sources[i].run = sources[j].run => sources[i].turn = sources[j].turn

References(items) == [i \in DOMAIN items |-> Len(items[i].payload.attachments)]
Total(s) == FoldSeq(+, 0, s)

\* The metadata of a conversation against its projected items.
MetadataOk(c, items) ==
    LET sources == [i \in DOMAIN items |-> items[i].payload.source]
        id == ArchiveId(c.store, c.session)
    IN  /\ c.fine /\ OriginOk(c) /\ OmissionsOk(c, Len(items))
        /\ \A i \in DOMAIN items :
               items[i].payload.ordinal = i - 1 /\ items[i].archive = id
        /\ Distinct(items, LAMBDA item : item.id)
        /\ Ordered(c, sources) /\ OneLineage(c, sources)
        /\ Total(References(items)) = c.omitted.references

\* The stored form: the archive's store added, the project's id in lower
\* case, the items left out.
Stored(store, c) ==
    [c EXCEPT !.store = store, !.project = [@ EXCEPT !.upper = FALSE], !.items = <<>>]

Conversation(c, items) ==
    [id |-> ArchiveId(c.store, c.session), runtime |-> c.runtime,
     store |-> c.store, session |-> c.session, omitted |-> c.omitted,
     fingerprint |-> <<c, [i \in DOMAIN items |-> <<items[i].id, items[i].fingerprint>>]>>,
     payload |-> c, items |-> items]

(***************************************************************************)
(* The whole archive                                                       *)
(***************************************************************************)

\* The item or the tool invocation a runtime event is about.
EventItem(s) == IF s.item # Absent THEN s.item ELSE s.tool

AllItems(conversations) ==
    FlattenSeq([i \in DOMAIN conversations |-> conversations[i].items])

\* The attachments in the order of their first reference.
FirstReferences(conversations) ==
    LET items == AllItems(conversations)
        all == FlattenSeq([i \in DOMAIN items |-> items[i].payload.attachments])
    IN  FoldLeft(LAMBDA seen, a : IF Contains(seen, a) THEN seen ELSE Append(seen, a),
                 <<>>, all)

\* Mutant: the order of the wire is asked of the rows too.
RowsInOrder(conversations, images) ==
    FirstReferences(conversations) = [i \in DOMAIN images |-> images[i].id]

\* What the rows of one archive must satisfy together. Only set-wise: SQLite
\* returns images in any order.
RowsOk(conversations, images) ==
    LET items == AllItems(conversations)
        sources == [i \in DOMAIN items |-> items[i].payload.source]
        runtime == SelectSeq(sources, LAMBDA s : s.kind = "runtime")
        hosted == SelectSeq(conversations, LAMBDA c : c.runtime # Absent)
    IN  /\ Distinct(conversations, LAMBDA c : c.session)
        /\ Distinct(conversations, LAMBDA c : c.id)
        /\ Distinct(hosted, LAMBDA c : c.runtime)
        /\ Distinct(sources, LAMBDA s : <<s.kind, s.event>>)
        /\ Distinct(runtime, EventItem)
        /\ Cardinality({conversations[i].store : i \in DOMAIN conversations}) <= 1
        /\ Distinct(images, LAMBDA i : i.id)
        /\ {images[i].id : i \in DOMAIN images}
             = UNION {ToSet(items[i].payload.attachments) : i \in DOMAIN items}

ProjectedConversations(a) ==
    [i \in DOMAIN a.conversations |->
        LET c == a.conversations[i]
            id == ArchiveId(a.store, c.session)
        IN  Conversation(Stored(a.store, c),
                         [j \in DOMAIN c.items |-> Projected(id, c.items[j])])]

\* The counts of the category: what is selected and what is not add up.
SelectionOk(category, a) ==
    /\ category.count + category.unselected = category.catalog
    /\ category.count = Len(a.conversations)
    /\ category.items = Len(AllItems(a.conversations))

\* prepare() of an archive whose package has these projects.
ArchiveOk(a, category, projects) ==
    LET conversations == ProjectedConversations(a)
    IN  /\ a.fine /\ SelectionOk(category, a)
        /\ Every(a.conversations, LAMBDA c : c.store = Absent /\ Every(c.items, ItemOk))
        /\ Every(conversations, LAMBDA c : MetadataOk(c.payload, c.items))
        /\ Every(a.conversations, LAMBDA c : c.project = NoId \/ c.project.id \in projects)
        /\ a.disclosed = Len(a.images)
        /\ FirstReferences(conversations) = [i \in DOMAIN a.images |-> a.images[i].id]
        /\ Every(a.images, LAMBDA i : i.fine)
        /\ RowsOk(conversations, a.images)

\* What the batch's fingerprint binds of an archive, in no order.
Binding(a, category) ==
    LET conversations == ProjectedConversations(a)
    IN  <<a.store, category,
          {<<conversations[i].id, conversations[i].fingerprint>> : i \in DOMAIN conversations},
          ToSet(a.images), a.disclosed>>

(***************************************************************************)
(* Inspection of what the application has stored                           *)
(***************************************************************************)

\* inspect_chat_item_source, inspect_chat_conversation_source and
\* inspect_chat_image_source accept the rows and find their fingerprints.
ItemInspects(row) == ItemOk(row.payload) /\ Projected(row.archive, row.payload) = row

ConversationInspects(row) ==
    /\ row.payload.items = <<>>
    /\ MetadataOk(row.payload, row.items)
    /\ Conversation(Stored(row.payload.store, row.payload), row.items) = row

\* Every row of an archive is accepted alone, and all of them together in
\* any order of the images.
ArchiveInspects(a) ==
    LET conversations == ProjectedConversations(a)
    IN  /\ Every(conversations, ConversationInspects)
        /\ Every(AllItems(conversations), ItemInspects)
        /\ Every(a.images, LAMBDA i : i.fine)
        /\ RowsOk(conversations, Reverse(a.images))
=============================================================================
