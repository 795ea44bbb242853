--------------------------- MODULE ProjectMemory ----------------------------
(***************************************************************************)
(* One section of the table project_memory                                 *)
(* (src/projectMemory/ProjectMemoryService.js) and the commands that write *)
(* it: /pm_set and /build_info, /pm_confirmed_write, /pm_session, the      *)
(* updates by id of /pm_confirmed_update and /pm_session_update, and the   *)
(* seed of a canonical section when a process starts.                      *)
(*                                                                         *)
(* upsertSectionState looks for the active section state and then inserts  *)
(* or updates, in two statements; an update by id reads the row and writes *)
(* every column back.  No unique index and no transaction holds the two    *)
(* together, so that commands interleave between them.                     *)
(*                                                                         *)
(* Texts are numbered as they are given.  A scope stands for the five      *)
(* fields of getProjectMemoryScopeSignature.  The order of updated_at is   *)
(* the order of the writes.                                                *)
(***************************************************************************)
EXTENDS Naturals, Sequences

CONSTANTS
    Calls,      \* commands that can be under way
    Scopes,
    Unscoped,   \* the signature of a row with none of the five fields
    MaxTexts,   \* bound: commands given
    MaxWrites,  \* bound: rows written
    MaxFaults   \* bound: queries that fail

(* Decisions, constraints and next steps are entries, as session summaries *)
(* are: rows that are only appended and updated by id.                     *)
Types == {"section_state", "entry"}

VARIABLES
    rows,      \* the rows, by id
    texts,     \* commands so far, of which each may give a text
    writes,    \* rows written so far; the clock of updated_at
    call,      \* the commands
    failed,    \* queries that failed
    latest,    \* history: the text last written for a scope, or 0
    disturbed  \* history: scopes on which something else got hold since then

pmVars == <<rows, texts, writes, call, failed, latest, disturbed>>

NoRow == [type |-> "entry", scope |-> Unscoped, active |-> FALSE, text |-> 0, at |-> 0]
Idle  == [pc |-> "idle", row |-> NoRow, id |-> 0]

Init == /\ rows = << >> /\ texts = 0 /\ writes = 0 /\ failed = 0
        /\ call = [c \in Calls |-> Idle]
        /\ latest = [s \in Scopes |-> 0]
        /\ disturbed = {}

-----------------------------------------------------------------------------
(* The statements.                                                         *)

ActiveStates == {i \in DOMAIN rows : rows[i].type = "section_state" /\ rows[i].active}

(* ORDER BY updated_at DESC LIMIT 1; 0 if there is none. *)
Newest(ids) == IF ids = {} THEN 0
               ELSE CHOOSE i \in ids : \A j \in ids : rows[j].at <= rows[i].at

(* Mutant: the newest row is taken, and compared with the scope then. *)
LookupNewestOnly(scope) ==
    IF Newest(ActiveStates) # 0 /\ scope \in {Unscoped, rows[Newest(ActiveStates)].scope}
    THEN Newest(ActiveStates) ELSE 0
(* The look of upsertSectionState: a scoped state is found by its scope,   *)
(* an unscoped one takes whatever is newest.                               *)
Lookup(scope) ==
    Newest(IF scope = Unscoped THEN ActiveStates
           ELSE {i \in ActiveStates : rows[i].scope = scope})

(* INSERT, or UPDATE of every column but the type, and of updated_at. *)
Stored(id, row) ==
    IF id = 0 THEN Append(rows, [row EXCEPT !.at = writes + 1])
    ELSE [rows EXCEPT ![id] = [row EXCEPT !.at = writes + 1]]

-----------------------------------------------------------------------------
(* The commands.                                                           *)

Done(c) == call' = [call EXCEPT ![c] = Idle]

NextText == texts' = texts + 1 /\ texts < MaxTexts

State(s, text) ==
    [type |-> "section_state", scope |-> s, active |-> TRUE, text |-> text, at |-> 0]

(* upsertSectionState up to its second statement.  Two for one scope at a  *)
(* time disturb each other.                                                *)
Look(c, row) ==
    LET others == {d \in Calls : call[d].pc = "upsert" /\ call[d].row.scope = row.scope}
    IN  /\ call' = [call EXCEPT ![c] = [pc |-> "upsert", row |-> row, id |-> Lookup(row.scope)]]
        /\ disturbed' = IF others # {} THEN disturbed \cup ({row.scope} \cap Scopes) ELSE disturbed

Find(c) ==
    /\ call[c].pc = "idle" /\ NextText
    /\ \E s \in Scopes \cup {Unscoped} : Look(c, State(s, texts + 1))
    /\ UNCHANGED <<rows, writes, failed, latest>>

(* syncCanonicalSections, when a process starts: the section gets the text *)
(* of its file if it has no row, by an upsert without scope.               *)
Seed(c) ==
    /\ call[c].pc = "idle" /\ NextText
    /\ rows = << >>
    /\ call' = [call EXCEPT ![c] = [pc |-> "seed", row |-> State(Unscoped, texts + 1), id |-> 0]]
    /\ UNCHANGED <<rows, writes, failed, latest, disturbed>>

SeedFind(c) ==
    /\ call[c].pc = "seed"
    /\ Look(c, call[c].row)
    /\ UNCHANGED <<rows, texts, writes, failed, latest>>

(* The state a write takes away or brings back: the row's scope before and *)
(* after, if it is one.                                                    *)
Touched(id, row) ==
    ({row.scope} \cup (IF id = 0 THEN {} ELSE {rows[id].scope})) \cap Scopes

Upsert(c) ==
    /\ call[c].pc = "upsert" /\ writes < MaxWrites
    /\ writes' = writes + 1
    /\ LET row == call[c].row
           id  == call[c].id
           s   == row.scope
       IN  /\ rows' = Stored(id, row)
           /\ latest' = IF s \in Scopes THEN [latest EXCEPT ![s] = row.text] ELSE latest
           /\ disturbed' = disturbed \cup (Touched(id, row) \ {s})
    /\ Done(c)
    /\ UNCHANGED <<texts, failed>>

(* appendEntry, for a decision, a constraint, a next step or a session *)
AppendEntry ==
    /\ NextText /\ writes < MaxWrites
    /\ writes' = writes + 1
    /\ \E s \in Scopes \cup {Unscoped} :
         rows' = Stored(0, [type |-> "entry", scope |-> s, active |-> TRUE,
                            text |-> texts + 1, at |-> 0])
    /\ UNCHANGED <<call, failed, latest, disturbed>>

(* updateConfirmedEntryById and updateSessionSummaryById: the row is read, *)
(* and any of content, meta and is_active replaced.                        *)
Fetch(c) ==
    /\ call[c].pc = "idle" /\ NextText
    /\ \E i \in DOMAIN rows, active \in BOOLEAN :
         \E s \in Scopes \cup {rows[i].scope}, text \in {texts + 1, rows[i].text} :
           call' = [call EXCEPT ![c] =
                      [pc |-> "update", id |-> i,
                       row |-> [rows[i] EXCEPT !.scope = s, !.active = active, !.text = text]]]
    /\ UNCHANGED <<rows, writes, failed, latest, disturbed>>

(* The whole row goes back, whatever was written to it meanwhile. *)
WriteBack(c) ==
    /\ call[c].pc = "update" /\ writes < MaxWrites
    /\ writes' = writes + 1
    /\ rows' = Stored(call[c].id, call[c].row)
    /\ disturbed' = IF call[c].row.type = "section_state"
                    THEN disturbed \cup Touched(call[c].id, call[c].row) ELSE disturbed
    /\ Done(c)
    /\ UNCHANGED <<texts, failed, latest>>

(* A query fails; the command says so and ends. *)
Fails(c) ==
    /\ call[c].pc # "idle" /\ failed < MaxFaults
    /\ failed' = failed + 1
    /\ Done(c)
    /\ UNCHANGED <<rows, texts, writes, latest, disturbed>>

Next ==
    \/ AppendEntry
    \/ \E c \in Calls : \/ Find(c) \/ Seed(c) \/ SeedFind(c) \/ Upsert(c)
                        \/ Fetch(c) \/ WriteBack(c) \/ Fails(c)

Spec == Init /\ [][Next]_pmVars

-----------------------------------------------------------------------------
RowsOK == /\ \A i \in DOMAIN rows : rows[i].at \in 1..writes /\ rows[i].text \in 1..texts
          /\ \A i, j \in DOMAIN rows : i # j => rows[i].at # rows[j].at

(* Several scopes share a section ("support one project_memory across      *)
(* multiple repos / project areas", ProjectMemoryConfirmedWriter.js): the  *)
(* state of a scope is the one last written for it, and the only one,      *)
(* whatever is written for other scopes, unless an update by id or a write *)
(* without scope got hold of its row, or two writes for it overlapped.     *)
ScopedStateKept ==
    \A s \in Scopes \ disturbed :
      latest[s] # 0 =>
        LET mine == {i \in ActiveStates : rows[i].scope = s}
        IN  \E i \in mine : mine = {i} /\ rows[i].text = latest[s]
=============================================================================
