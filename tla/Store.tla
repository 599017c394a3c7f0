--------------------------------- MODULE Store ---------------------------------
(***************************************************************************)
(* The SQLite store (memory/mod.rs, memory/schema.sql) under its users:    *)
(* agents saving turns and reading histories, the memory tools             *)
(* (tool/memory_tool.rs), and the commands `sessions`, `export` and        *)
(* `import` (cli/session_cmd.rs), which run in processes of their own      *)
(* beside the server.                                                      *)
(*                                                                         *)
(* A statement, and a transaction, is one step: SQLite serialises writers. *)
(* What is left to interleave is whole calls, the files that exports left  *)
(* behind, and the system clock, which may be set back.  A message is the  *)
(* turn it belongs to and its position in it.                              *)
(***************************************************************************)
EXTENDS Integers, Sequences, SequencesExt, FiniteSetsExt

CONSTANTS
  Chats,      \* the session keys
  TurnSizes,  \* how many messages a turn may have
  Keys,       \* the keys of memories
  Texts,      \* what a memory says
  Unset,      \* no memory, no export
  LastSecond, \* bound of the model: the clock
  MaxTurns,   \* bound of the model: turns saved
  MaxRows     \* bound of the model: rows ever inserted

ASSUME StoreAssumption ==
  /\ TurnSizes \subseteq Nat \ {0}
  /\ LastSecond \in Nat /\ MaxTurns \in Nat /\ MaxRows \in Nat
  /\ Unset \notin [id : Nat, text : Texts]

VARIABLES
  second,    \* chrono::Utc::now().timestamp()
  rows,      \* the table messages: [id, chat, turn, pos, at]
  nextId,    \* AUTOINCREMENT of messages
  turns,     \* history: the number of turns saved, and their sizes
  file,      \* the last export: [chat, rows], or Unset
  memories,  \* the table memories_data: [id, text] by key, or Unset
  nextMem,   \* AUTOINCREMENT of memories_data
  index      \* memories_fts: the set of [id, key, text] that it indexes

messageVars == <<rows, nextId, turns, file>>
memoryVars == <<memories, nextMem, index>>
storeVars == <<second, messageVars, memoryVars>>

StoreInit ==
  /\ second = 0
  /\ rows = {} /\ nextId = 1 /\ turns = <<>> /\ file = Unset
  /\ memories = [k \in Keys |-> Unset] /\ nextMem = 1 /\ index = {}

-----------------------------------------------------------------------------
RowsOf(chat) == {r \in rows : r.chat = chat}

\* ORDER BY created_at, id
Before(a, b) == a.at < b.at \/ (a.at = b.at /\ a.id < b.id)

\* The rows of a chat in the order that a comparison defines.
Ordered(chat, Less(_, _)) ==
  [i \in 1 .. Cardinality(RowsOf(chat)) |->
     CHOOSE r \in RowsOf(chat) :
       Cardinality({s \in RowsOf(chat) : Less(s, r)}) = i - 1]

Told(r) == [turn |-> r.turn, pos |-> r.pos, at |-> r.at]

\* export_session: every message, oldest first, without its id.
Export(chat) ==
  LET all == Ordered(chat, Before) IN [i \in DOMAIN all |-> Told(all[i])]

\* get_history: the first `limit` rows from the newest on, then reversed.
GetHistory(chat, limit) ==
  LET newest == Ordered(chat, LAMBDA a, b : Before(b, a))
      last   == SubSeq(newest, 1, IF limit < Len(newest) THEN limit ELSE Len(newest))
  IN  [i \in DOMAIN last |-> Told(Reverse(last)[i])]

\* Rows inserted one after the other by one transaction.
Inserted(chat, messages) ==
  {[id |-> nextId + i - 1, chat |-> chat, turn |-> messages[i].turn,
    pos |-> messages[i].pos, at |-> messages[i].at] : i \in DOMAIN messages}

\* Mutation: created_at is read for every message instead of once.
SaveConversationSlowly(chat, size) ==
  /\ Len(turns) < MaxTurns /\ nextId + size <= MaxRows + 1
  /\ turns' = Append(turns, size)
  /\ rows' = rows \cup Inserted(chat,
       [i \in 1 .. size |-> [turn |-> Len(turns) + 1, pos |-> i, at |-> second + i - 1]])
  /\ nextId' = nextId + size
  /\ UNCHANGED <<second, file, memoryVars>>

\* save_conversation: one created_at for all messages of the turn.
SaveConversation(chat, size) ==
  /\ Len(turns) < MaxTurns /\ nextId + size <= MaxRows + 1
  /\ turns' = Append(turns, size)
  /\ rows' = rows \cup Inserted(chat,
       [i \in 1 .. size |-> [turn |-> Len(turns) + 1, pos |-> i, at |-> second]])
  /\ nextId' = nextId + size
  /\ UNCHANGED <<second, file, memoryVars>>

\* delete_session
DeleteSession(chat) ==
  /\ RowsOf(chat) # {}
  /\ rows' = rows \ RowsOf(chat)
  /\ UNCHANGED <<second, nextId, turns, file, memoryVars>>

LastActive(chat) == Max({r.at : r \in RowsOf(chat)})

\* Mutation: the old rows are deleted instead of the old sessions.
DeleteRowsBefore(cutoff) ==
  /\ rows' = {r \in rows : r.at >= cutoff}
  /\ UNCHANGED <<second, nextId, turns, file, memoryVars>>

\* delete_sessions_before, called with now minus the duration (run_clean).
DeleteSessionsBefore(cutoff) ==
  /\ rows' = {r \in rows : LastActive(r.chat) >= cutoff}
  /\ UNCHANGED <<second, nextId, turns, file, memoryVars>>

\* run_export: an empty session is an error; otherwise a file is written.
ExportSession(chat) ==
  /\ RowsOf(chat) # {}
  /\ file' = [chat |-> chat, rows |-> Export(chat)]
  /\ UNCHANGED <<second, rows, nextId, turns, memoryVars>>

\* import_session (run_import): the messages of the file are added to what the
\* session has, with their old times.
ImportSession ==
  /\ file # Unset /\ nextId + Len(file.rows) <= MaxRows + 1
  /\ rows' = rows \cup Inserted(file.chat, file.rows)
  /\ nextId' = nextId + Len(file.rows)
  /\ UNCHANGED <<second, turns, file, memoryVars>>

\* The clock advances, or is set back.
SetClock ==
  /\ second' \in (0 .. LastSecond) \ {second}
  /\ UNCHANGED <<messageVars, memoryVars>>

-----------------------------------------------------------------------------
Indexed(k, memory) == [id |-> memory.id, key |-> k, text |-> memory.text]

\* Mutation: the trigger memories_data_au only inserts.
AfterUpdateInsertOnly(k, new) == index' = index \cup {Indexed(k, new)}

\* The triggers memories_data_ai and memories_data_au; a 'delete' of the index
\* is given the old values, which are what it holds.
AfterUpsert(k, new) ==
  index' = (index \ (IF memories[k] = Unset THEN {} ELSE {Indexed(k, memories[k])}))
             \cup {Indexed(k, new)}

\* save_memory: INSERT .. ON CONFLICT(key) DO UPDATE, which keeps the row's id;
\* the id that the insert would have had is not used up.
SaveMemory(k, text) ==
  LET new == [id |-> IF memories[k] = Unset THEN nextMem ELSE memories[k].id,
              text |-> text]
  IN  /\ memories' = [memories EXCEPT ![k] = new]
      /\ nextMem' = IF memories[k] = Unset THEN nextMem + 1 ELSE nextMem
      /\ AfterUpsert(k, new)
      /\ UNCHANGED <<second, messageVars>>

\* search_memory: index rows that match, joined with the data on the row's id.
SearchMemory(text) ==
  {k \in Keys : \E e \in index :
     e.text = text /\ memories[k] # Unset /\ memories[k].id = e.id}

MessagesNext ==
  \/ \E c \in Chats, n \in TurnSizes : SaveConversation(c, n)
  \/ \E c \in Chats : DeleteSession(c) \/ ExportSession(c)
  \/ \E d \in 0 .. LastSecond : DeleteSessionsBefore(second - d)
  \/ ImportSession
  \/ SetClock

MemoriesNext == \E k \in Keys, t \in Texts : SaveMemory(k, t)

StoreNext == MessagesNext \/ MemoriesNext

StoreSpec == StoreInit /\ [][StoreNext]_storeVars

-----------------------------------------------------------------------------
(* Whatever is saved, deleted, pruned and imported, and however the clock   *)
(* is set: a history is made of whole turns, each from its first message to *)
(* its last, so that no tool result is ever separated from its call inside  *)
(* the table (lines 205-241, 448-476).                                      *)
TurnsWhole ==
  \A chat \in Chats :
    LET h == Export(chat)
    IN  \A i \in DOMAIN h :
          /\ h[i].pos > 1 => /\ i > 1
                             /\ h[i - 1].turn = h[i].turn
                             /\ h[i - 1].pos = h[i].pos - 1
          /\ h[i].pos < turns[h[i].turn] => /\ i < Len(h)
                                            /\ h[i + 1].turn = h[i].turn

(* A prompt's history is the end of what an export shows, in its order      *)
(* ("the most recent `limit` messages, ordered oldest-first", line 243).    *)
HistoryIsSuffix ==
  \A chat \in Chats : \A limit \in 0 .. Cardinality(RowsOf(chat)) :
    GetHistory(chat, limit) =
      SubSeq(Export(chat), Len(Export(chat)) - limit + 1, Len(Export(chat)))

(* What prompts and exports are made of, in one invariant: whole turns, and *)
(* histories that end where the session ends (lines 205-288, 448-476).      *)
HistoriesWhole == TurnsWhole /\ HistoryIsSuffix

(* Sessions go and come back whole: no command removes a part of a session, *)
(* in particular not the old turns of one that was active since the cut-off *)
(* of `sessions clean`, and an export imported into a session that is gone  *)
(* restores it as it was (lines 381-408, 448-476).                          *)
SessionsWhole ==
  [][ /\ \A chat \in Chats : RowsOf(chat) \subseteq rows' \/ RowsOf(chat)' = {}
      /\ file # Unset /\ ImportSession /\ RowsOf(file.chat) = {}
           => Export(file.chat)' = file.rows
    ]_storeVars

(* The index mirrors the table through every upsert: a search finds a       *)
(* memory by what it says now and never by what it said before, and the     *)
(* join loses none ("the FTS index is kept in sync by SQLite triggers",     *)
(* lines 292-293).                                                          *)
IndexMirrors ==
  /\ index = {Indexed(k, memories[k]) : k \in {m \in Keys : memories[m] # Unset}}
  /\ \A t \in Texts :
       SearchMemory(t) = {k \in Keys : memories[k] # Unset /\ memories[k].text = t}
=============================================================================
