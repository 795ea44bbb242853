------------------------------- MODULE Recall -------------------------------
(***************************************************************************)
(* /recall and /recall_more (src/bot/handlers/recall.js): the messages of  *)
(* a chat are shown in pages, newest first.  A page ends with a cursor,    *)
(* which the user may give back, and which the process also keeps for the  *)
(* user, in whatever chat; searchPage (src/core/RecallEngine.js) goes on   *)
(* from there.                                                             *)
(*                                                                         *)
(* created_at has microseconds, and JavaScript's dates milliseconds: time  *)
(* counts in fractions of which Ms make a millisecond, and a cursor names  *)
(* the millisecond its row is in; and it keeps 120 characters of the       *)
(* keyword.  Messages come in the order of their ids.  One user, who is    *)
(* not over the limit.                                                     *)
(***************************************************************************)
EXTENDS Naturals, FiniteSets

CONSTANTS
    Calls,     \* commands that can be under way
    Chats,     \* chats of the user
    Limits,    \* page sizes
    Wordings,  \* what a message can contain: sets of keywords
    Ms,        \* fractions of a millisecond
    Window,    \* --days, in fractions
    MaxRows,   \* bound: messages
    MaxTime,   \* bound on the clock
    MaxCalls,  \* bound: commands given
    MaxFaults  \* bound: queries and answers that fail, and restarts

VARIABLES
    rows,    \* chat_messages, by id
    now,     \* the database's clock
    store,   \* recallCursorStore, the user's entry
    given,   \* cursors the user was shown
    calls,   \* the commands
    asked,   \* commands so far
    faults,
    told,    \* history: what the last page that was shown repeats and misses
    shown,   \* history: the messages of the pages that were shown
    lost     \* history: those of the pages that could not be sent

recallVars == <<rows, now, store, given, calls, asked, faults, told, shown, lost>>

Ids == 1..MaxRows

(* A keyword of at most 120 characters, a longer one, and what safeText    *)
(* makes of it: its beginning and an ellipsis.                             *)
Keywords     == {"short", "long", "cut"}
Cut(keyword) == IF keyword = "long" THEN "cut" ELSE keyword

(* A cursor, or where a /recall begins; history: the chat, the /recall it  *)
(* comes from, the messages that were there when its first page was asked  *)
(* for, those of the pages since, those that shared a millisecond with the *)
(* end of a page, and whether the pages are of one chat and one keyword    *)
(* and no query failed.                                                    *)
Start(chat, limit, keyword, list) ==
    [at |-> MaxTime + 1, id |-> 0, limit |-> limit, keyword |-> keyword, chat |-> chat,
     list |-> list, there |-> {}, paged |-> {}, blurred |-> {}, whole |-> TRUE]
NoCursor == Start("", 0, "short", 0)          \* an empty entry
End      == [NoCursor EXCEPT !.whole = FALSE] \* "__RECALL_END__"

Idle == [pc |-> "idle", chat |-> "", from |-> NoCursor, page |-> {}, more |-> FALSE]

Init == /\ rows = [i \in {} |-> 0] /\ now = 0
        /\ store = NoCursor /\ given = {}
        /\ calls = [c \in Calls |-> Idle] /\ asked = 0 /\ faults = 0
        /\ told = [again |-> {}, missed |-> {}] /\ shown = {} /\ lost = {}

-----------------------------------------------------------------------------
(* ORDER BY created_at DESC, id DESC. *)
Newer(i, j) == rows[i].at > rows[j].at \/ (rows[i].at = rows[j].at /\ i > j)

(* toISOString *)
Millisecond(time) == time - (time % Ms)

(* Mutant: the cursor is a time only. *)
BelowByTime(cursor, i) == rows[i].at < cursor.at
(* created_at < t OR (created_at = t AND id < i) *)
Below(cursor, i) == rows[i].at < cursor.at \/ (rows[i].at = cursor.at /\ i < cursor.id)

(* The messages that are not too old, and of a chat those with the keyword. *)
Young == {i \in DOMAIN rows : rows[i].at + Window >= now}
Recent(chat, keyword) == {i \in Young : rows[i].chat = chat /\ keyword \in rows[i].has}

(* Those below the cursor, and of them those newer than a message. *)
Low(cursor, chat)      == {i \in Recent(chat, cursor.keyword) : Below(cursor, i)}
Above(cursor, chat, i) == {j \in Low(cursor, chat) : Newer(j, i)}

(* Mutant: one row less is asked for, and there is never more. *)
FetchedNoMore(cursor, chat) ==
    {i \in Low(cursor, chat) : Cardinality(Above(cursor, chat, i)) < cursor.limit}
(* LIMIT lim + 1 *)
Fetched(cursor, chat) ==
    {i \in Low(cursor, chat) : Cardinality(Above(cursor, chat, i)) <= cursor.limit}

Oldest(ids) == CHOOSE i \in ids : \A j \in ids : i = j \/ Newer(j, i)

-----------------------------------------------------------------------------
Fault == faults < MaxFaults /\ faults' = faults + 1

Message(chat, has) ==
    /\ Cardinality(DOMAIN rows) < MaxRows
    /\ rows' = [i \in DOMAIN rows \cup {Cardinality(DOMAIN rows) + 1} |->
                  IF i \in DOMAIN rows THEN rows[i] ELSE [chat |-> chat, has |-> has, at |-> now]]
    /\ UNCHANGED <<now, store, given, calls, asked, faults, told, shown, lost>>

Asks(c, chat, from) ==
    /\ calls[c].pc = "idle" /\ asked < MaxCalls
    /\ asked' = asked + 1
    /\ calls' = [calls EXCEPT ![c] = [Idle EXCEPT !.pc = "search", !.chat = chat, !.from = from]]
    /\ UNCHANGED <<rows, now, store, given, faults, told, shown, lost>>

(* handleRecall *)
Ask(c) == \E chat \in Chats, limit \in Limits, keyword \in {"short", "long"} :
            Asks(c, chat, Start(chat, limit, keyword, asked + 1))

(* handleRecallMore: the cursor of the message, or the stored one; without *)
(* one, or at the end, the user is told so.                                *)
AskMore(c) ==
    \E chat \in Chats, cursor \in given \cup ({store} \ {NoCursor, End}) :
      Asks(c, chat, [cursor EXCEPT !.whole = @ /\ cursor.chat = chat])

(* searchPage; when its query fails, it answers that there is nothing.     *)
SearchPage(c) ==
    /\ calls[c].pc = "search"
    /\ LET call  == calls[c]
           found == Fetched(call.from, call.chat)
           more  == Cardinality(found) > call.from.limit
           page  == IF more THEN found \ {Oldest(found)} ELSE found
           first == call.from.paged = {}
           from  == [call.from EXCEPT
                       !.there = IF first THEN Recent(call.chat, call.from.keyword) ELSE @]
       IN  \/ /\ calls' = [calls EXCEPT ![c] = [call EXCEPT !.pc = "keep", !.page = page,
                                                         !.more = more, !.from = from]]
              /\ UNCHANGED faults
           \/ /\ Fault
              /\ calls' = [calls EXCEPT ![c] =
                             [call EXCEPT !.pc = "keep", !.from.whole = FALSE]]
    /\ UNCHANGED <<rows, now, store, given, asked, told, shown, lost>>

(* buildRecallCursor: the time of the last message of the page to the      *)
(* millisecond, its id, and the keyword, cut.                              *)
Cursor(call) ==
    LET last == Oldest(call.page)
        at   == Millisecond(rows[last].at)
    IN  [call.from EXCEPT
           !.at = at, !.id = last, !.keyword = Cut(@), !.paged = @ \cup call.page,
           !.blurred = @ \cup {i \in DOMAIN rows : /\ at < rows[i].at
                                                   /\ Newer(last, i)},
           !.whole = @ /\ Cut(call.from.keyword) = call.from.keyword]

(* The stored cursor is set, or cleared, or says that this was the end,    *)
(* before the page is sent.                                                *)
Keep(c) ==
    /\ calls[c].pc = "keep"
    /\ store' = IF calls[c].more THEN Cursor(calls[c])
                ELSE IF calls[c].from.id = 0 THEN NoCursor ELSE End
    /\ calls' = [calls EXCEPT ![c].pc = "send"]
    /\ UNCHANGED <<rows, now, given, asked, faults, told, shown, lost>>

(* The messages of a page, each with the /recall it was found for; and of  *)
(* those that belong to one /recall, all that were shown, could not be     *)
(* sent, or are on their way to the user.                                  *)
Items(call) == [list : {call.from.list}, id : call.page]
OnTheirWay  == UNION {Items(calls[d]) : d \in {e \in Calls : calls[e].pc = "send"}}
Accounted(list) == {item.id : item \in {x \in shown \cup lost \cup OnTheirWay : x.list = list}}

(* bot.sendMessage: the user sees the page and its cursor, *)
Send(c) ==
    /\ calls[c].pc = "send"
    /\ LET call == calls[c]
           from == call.from
       IN  /\ given' = IF call.more THEN given \cup {Cursor(call)} ELSE given
           /\ shown' = shown \cup Items(call)
           /\ told' = [again  |-> call.page \cap from.paged,
                       missed |-> IF call.more \/ ~from.whole THEN {}
                                  ELSE (from.there \cap Young)
                                         \ (call.page \cup from.blurred
                                              \cup (from.paged \cap Accounted(from.list)))]
    /\ calls' = [calls EXCEPT ![c] = Idle]
    /\ UNCHANGED <<rows, now, store, asked, faults, lost>>

(* or an error, because the text is too long for Telegram or the call      *)
(* fails: the stored cursor stays behind the page.                         *)
SendFails(c) ==
    /\ calls[c].pc = "send" /\ Fault
    /\ lost' = lost \cup Items(calls[c])
    /\ calls' = [calls EXCEPT ![c] = Idle]
    /\ UNCHANGED <<rows, now, store, given, asked, told, shown>>

Restart == /\ Fault
           /\ store' = NoCursor
           /\ lost' = lost \cup OnTheirWay
           /\ calls' = [c \in Calls |-> Idle]
           /\ UNCHANGED <<rows, now, given, asked, told, shown>>

Tick == /\ now < MaxTime /\ now' = now + 1
        /\ UNCHANGED <<rows, store, given, calls, asked, faults, told, shown, lost>>

Next ==
    \/ \E chat \in Chats, has \in Wordings : Message(chat, has)
    \/ \E c \in Calls : \/ Ask(c) \/ AskMore(c) \/ SearchPage(c)
                        \/ Keep(c) \/ Send(c) \/ SendFails(c)
    \/ Restart \/ Tick

Spec == Init /\ [][Next]_recallVars

-----------------------------------------------------------------------------
RecallOK == /\ DOMAIN rows \subseteq Ids /\ \A i \in DOMAIN rows : rows[i].at <= now
            /\ \A cursor \in given : cursor.paged \subseteq DOMAIN rows

(* "paging uses created_at + id to avoid duplicate/missing rows": a page   *)
(* repeats no message of the pages before it, and when the last page is    *)
(* shown every message that was there at first, and is not too old by now, *)
(* was shown or is on a page still on its way.  Excepted is what the code  *)
(* does lose: a page that could not be sent, for the cursor was stored     *)
(* before; what follows the first page of a keyword that the cursor cuts;  *)
(* pages of another chat than the stored cursor's; a failed query; and     *)
(* messages in the millisecond of the end of a page.                       *)
PagesExact == told.again = {} /\ told.missed = {}
=============================================================================
