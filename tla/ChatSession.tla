---------------------------- MODULE ChatSession ----------------------------
(***************************************************************************)
(* What the chat handler of src/bot/handlers/chat.js keeps in memory about *)
(* one chat, and the flows that pass it on from message to message: the    *)
(* document read last (media/fileIntakeDocumentSession.js), the texts that *)
(* can be exported (chat/outputSessionCache.js), the active document,      *)
(* estimate, export source and export target, and the question that waits  *)
(* for an answer (the five caches beside it).                              *)
(*                                                                         *)
(* A message is a chain of awaits and runs from one to the next without    *)
(* interruption; the chains of several messages interleave.  Awaits in a   *)
(* row between which nothing is read or written are one.  What the AI      *)
(* makes of a message is any of the outcomes its prompt allows.  Chats do  *)
(* not share entries, so one is enough; a restart forgets everything.      *)
(*                                                                         *)
(* Documents are numbered as they are read; 0 is any other text.  An entry *)
(* has the document its text is OF and the document whose NAME it carries. *)
(***************************************************************************)
EXTENDS Naturals, Sequences, FiniteSetsExt

CONSTANTS
    NumMessages,  \* bound: messages of the chat
    MaxDocs,      \* bound: documents that can be read
    MaxTime,      \* bound of the clock
    Window,       \* OUTPUT_SESSION_WINDOW_MS and the other 30-minute windows
    ContextFor,   \* ACTIVE_DOCUMENT_CONTEXT_WINDOW_MS
    ClarifyFor,   \* CLARIFICATION_SESSION_WINDOW_MS
    MaxFlight,    \* bound: how long a message is under way
    MaxTogether   \* bound: messages under way together

Messages == 1..NumMessages
Docs     == 0..MaxDocs
Texts    == {"document", "summary", "part", "answer"}  \* of a document
Slots    == Texts \cup {"reply"}
None     == "none"

(* Entry: the kind of a source, target or question, or what a text is of.  *)
(* Chain: what it is about, the session's document when it came in, and,   *)
(* as history, whether it has been overtaken by a document and whether a   *)
(* text of no document has become the document.                            *)
Absent == [there |-> FALSE, kind |-> None, of |-> 0, name |-> 0, at |-> 0, sure |-> TRUE]
Caches == Slots \cup {"session", "context", "estimate", "source", "target", "pending"}
Idle   == [pc |-> "new", text |-> FALSE, file |-> FALSE, of |-> 0, kind |-> None,
           at |-> 0, floor |-> 0, sure |-> TRUE, crossed |-> FALSE]

VARIABLES
    kept,      \* the entry of each cache
    chain,     \* the chain of each message
    read,      \* documents read so far
    now,
    sent       \* history: the last file sent with a document in full

chatVars == <<kept, chain, read, now, sent>>

Nothing == [of |-> 0, floor |-> 0, crossed |-> FALSE]

Init == /\ kept = [c \in Caches |-> Absent]
        /\ chain = [m \in Messages |-> Idle]
        /\ read = 0 /\ now = 0
        /\ sent = Nothing

-----------------------------------------------------------------------------
(* The caches.  k is their content on the way through a step.              *)

(* isFresh of each cache, and of getRecentDocumentSessionCache. *)
Lasts(c) == CASE c = "context" -> ContextFor [] c = "pending" -> ClarifyFor
                                             [] OTHER -> Window
Fresh(k, c) == k[c].there /\ now - k[c].at <= Lasts(c)

(* saveRecent...ForExport, saveActiveDocumentContext, saveActiveEstimate-  *)
(* Context and saveDocumentSessionCache; saveActive...Source and Target;   *)
(* savePendingClarification and clearPendingClarification.                 *)
Put(k, c, of, name, sure) ==
    [k EXCEPT ![c] = [there |-> TRUE, kind |-> None, of |-> of, name |-> name,
                      at |-> now, sure |-> sure]]
Mark(k, c, kind) == [k EXCEPT ![c] = [Absent EXCEPT !.there = TRUE, !.kind = kind, !.at = now]]
Clear(k, c) == [k EXCEPT ![c] = Absent]

(* touchCacheRecord: every get...ExportCandidate renews what it finds. *)
Touch(k, slots) ==
    [c \in Caches |-> IF c \in slots /\ Fresh(k, c) THEN [k[c] EXCEPT !.at = now] ELSE k[c]]

FirstFresh(k, order) ==
    LET found == {i \in DOMAIN order : Fresh(k, order[i])}
    IN  IF found = {} THEN None ELSE order[Min(found)]

ActiveKind(k, c) == IF Fresh(k, c) THEN k[c].kind ELSE None

(* getDocumentExportTargetCandidate *)
TargetOrder(active) ==
    CASE active = "document" -> <<"document", "part", "answer", "summary">>
      [] active = "part"     -> <<"part", "summary", "answer", "document">>
      [] active = "answer"   -> <<"answer", "summary", "part", "document">>
      [] OTHER               -> <<"summary", "part", "answer", "document">>
TargetCandidate(k, target) ==
    FirstFresh(k, IF target # None THEN <<target>> ELSE TargetOrder(ActiveKind(k, "target")))

(* getRecentExportCandidate: the document unless the reply was used later. *)
RecentCandidate(k) ==
    FirstFresh(k, IF k["document"].at >= k["reply"].at THEN <<"document", "reply">>
                                                       ELSE <<"reply", "document">>)

(* getExplicitExportCandidate *)
ExplicitCandidate(k, kind) ==
    CASE kind # None                            -> FirstFresh(k, <<kind>>)
      [] ActiveKind(k, "source") = "reply"      -> FirstFresh(k, <<"reply", "document">>)
      [] ActiveKind(k, "source") = "document"   -> FirstFresh(k, <<"document", "reply">>)
      [] OTHER                                  -> RecentCandidate(k)

(* resolveRecentDocumentRawCandidate *)
RawCandidate(k) == FirstFresh(k, <<"session", "context", "document">>)
Probed(k) == IF RawCandidate(k) = "document" THEN Touch(k, {"document"}) ELSE k

(* Mutant: a message does not bring the document of the session along. *)
HydratedNever(k) == k
(* hydrateRecentRuntimeDocumentIntoCaches, at the start of every message. *)
Hydrated(k) ==
    IF ~Fresh(k, "session") THEN k
    ELSE LET d == k["session"].of
         IN  Mark(Put(Put(k, "document", d, d, TRUE), "context", d, d, TRUE),
                  "source", "document")

-----------------------------------------------------------------------------
(* The flows, in the order of runChatPreAiRouting, and when each calls the *)
(* AI; the first that takes the message ends the search.                   *)

Flows == <<"clarify", "correct", "digest", "part", "export", "followup", "size">>

NeedsEstimate == {"part", "detail"}   \* questions about the estimate

Opens(k, flow) ==
    CASE flow = "clarify"             -> Fresh(k, "pending")
      [] flow = "correct"             -> Fresh(k, "estimate") /\ RawCandidate(k) # None
      [] flow = "digest"              -> RawCandidate(k) # None
      [] flow \in {"part", "followup"} -> Fresh(k, "estimate")
      [] OTHER                        -> TRUE

(* What a flow does before its first await. *)
Entered(k, flow) ==
    CASE flow = "clarify" /\ k["pending"].kind = "source" -> Touch(k, {"document", "reply"})
      [] flow = "clarify" /\ k["pending"].kind = "target" -> Touch(k, Texts)
      [] flow = "clarify" /\ k["pending"].kind = "size"   -> Probed(k)
      [] flow \in {"correct", "digest", "size"} -> Probed(k)
      [] flow = "export"                        -> Touch(Probed(k), {"document", "reply"})
      [] OTHER                                  -> k

(* The chain in front of a flow, with what it read there: the text a part  *)
(* or an estimate would be of, or the kind of the question.                *)
At(ch, k, flow) ==
    [ch EXCEPT !.pc = flow,
               !.of = CASE flow \in {"correct", "digest", "size"} /\ RawCandidate(k) # None ->
                               k[RawCandidate(k)].of
                        [] OTHER -> 0,
               !.kind = IF flow = "clarify" THEN k["pending"].kind
                        ELSE IF RawCandidate(k) = None THEN None ELSE "found"]

(* resolveFileIntakeDecision up to its first await. *)
Intake(ch, k) ==
    IF ch.file THEN [ch EXCEPT !.pc = "reading"]
    ELSE IF Fresh(k, "session")
    THEN [ch EXCEPT !.pc = "intent", !.of = k["session"].of, !.sure = TRUE]
    ELSE [ch EXCEPT !.pc = "answering", !.of = 0, !.kind = None]

(* On with the first flow from the i-th that opens, or with the intake. *)
GoOn(m, ch, k, i) ==
    LET open == {j \in i..Len(Flows) : Opens(k, Flows[j])}
        take == ch.text /\ open # {}
        flow == Flows[Min(open)]
    IN  /\ chain' = [chain EXCEPT ![m] = IF take THEN At(ch, k, flow) ELSE Intake(ch, k)]
        /\ kept' = IF take THEN Entered(k, flow) ELSE k

UnderWay(n) == chain[n].pc \notin {"new", "done"}

Position(flow) == CHOOSE i \in DOMAIN Flows : Flows[i] = flow

(* bootstrapChatHandler and the way to the first call of the AI: a         *)
(* question about an estimate that is gone is dropped.                     *)
Arrive(m) ==
    /\ chain[m].pc = "new"
    /\ \A n \in 1..(m - 1) : chain[n].pc # "new"
    /\ Cardinality({n \in Messages : UnderWay(n)}) < MaxTogether
    /\ \E text, file \in BOOLEAN :
         LET h    == Hydrated(kept)
             k    == IF /\ text /\ Fresh(h, "pending")
                        /\ h["pending"].kind \in NeedsEstimate /\ ~Fresh(h, "estimate")
                     THEN Clear(h, "pending") ELSE h
             floor == IF Fresh(h, "session") THEN h["session"].of ELSE 0
         IN  /\ text \/ file
             /\ GoOn(m, [chain[m] EXCEPT !.text = text, !.file = file, !.at = now,
                                         !.floor = floor], k, 1)
    /\ UNCHANGED <<read, now, sent>>

Waits(m, places) == chain[m].pc \in places

(* A message has been answered: saveAssistantEarlyReturn and sendMessage   *)
(* are all that follows, and k is what the flow left.                      *)
Answered(m, k) == /\ kept' = k
                  /\ chain' = [chain EXCEPT ![m] = [Idle EXCEPT !.pc = "done"]]
                  /\ UNCHANGED <<read, now>>

Quiet == UNCHANGED sent

(* The AI says that the message is not for this flow. *)
PassOver(m) ==
    /\ Waits(m, {Flows[i] : i \in 2..Len(Flows)})
    /\ GoOn(m, chain[m], kept, Position(chain[m].pc) + 1)
    /\ UNCHANGED <<read, now>> /\ Quiet

(* A question, kept until it is answered; those about the digest of a part *)
(* and the correction of an estimate are not, the one because normalizeKind *)
(* does not know its kind.                                                 *)
Question == [export |-> "source", target |-> "target", part |-> "part", followup |-> "detail"]

Ask(m) ==
    /\ Quiet
    /\ \/ Waits(m, DOMAIN Question)
          /\ Answered(m, Mark(kept, "pending", Question[chain[m].pc]))
       \/ Waits(m, {"clarify"}) /\ Answered(m, Mark(kept, "pending", chain[m].kind))
       \/ Waits(m, {"digest", "correct"}) /\ Answered(m, kept)

(* A reply that leaves nothing behind: no such part, no summary of it, or  *)
(* an answer about the estimate.                                           *)
Reply(m) == /\ Waits(m, {"digest", "describe", "part", "followup"})
            /\ Answered(m, IF Waits(m, {"part"}) THEN Probed(kept) ELSE kept)
            /\ Quiet

(* buildCreatedExportFile and sendCreatedExportFile: the file may not be   *)
(* made or not sent.                                                       *)
Deliver(m, k, slot) ==
    /\ Answered(m, Touch(k, {slot}))
    /\ \/ UNCHANGED sent
       \/ /\ slot # None
          /\ sent' = IF slot = "document"
                     THEN [of |-> k[slot].of, floor |-> chain[m].floor,
                           crossed |-> chain[m].crossed]
                     ELSE sent

(* tryHandleRecentExport, after the AI named the source *)
Export(m) ==
    /\ Waits(m, {"export"})
    /\ \/ /\ kept' = Touch(Mark(kept, "source", "document"), Texts)
          /\ chain' = [chain EXCEPT ![m].pc = "target"]
          /\ UNCHANGED <<read, now>> /\ Quiet
       \/ LET k == Mark(kept, "source", "reply")
          IN  Deliver(m, k, ExplicitCandidate(k, "reply"))
       \/ Deliver(m, kept, ExplicitCandidate(kept, None))

(* and the part of the document *)
ExportTarget(m) ==
    /\ Waits(m, {"target"})
    /\ \E t \in Texts \cup {None} :
         LET k == IF t = None THEN kept ELSE Mark(kept, "target", t)
         IN  Deliver(m, k, TargetCandidate(k, t))

(* continueExportPendingClarificationIfAny *)
SettleSource(m) ==
    /\ Waits(m, {"clarify"}) /\ chain[m].kind = "source"
    /\ \/ LET k == Mark(Clear(kept, "pending"), "source", "document")
          IN  Deliver(m, k, TargetCandidate(k, None))
       \/ LET k == Mark(Clear(kept, "pending"), "source", "reply")
          IN  Deliver(m, k, ExplicitCandidate(k, "reply"))
       \/ LET k == Clear(kept, "pending")
          IN  Deliver(m, k, ExplicitCandidate(k, None))

SettleTarget(m) ==
    /\ Waits(m, {"clarify"}) /\ chain[m].kind = "target"
    /\ \E t \in Texts \cup {None} :
         LET a == IF t = None THEN kept ELSE Mark(kept, "target", t)
             k == Mark(Clear(a, "pending"), "source", "document")
         IN  Deliver(m, k, TargetCandidate(k, t))

(* A part of the document that is there now is shown, by the flow itself   *)
(* or once its question is answered.                                       *)
ShowPart(m) ==
    /\ \/ Waits(m, {"part"})
       \/ Waits(m, {"clarify"}) /\ chain[m].kind = "part"
    /\ LET k == IF Waits(m, {"clarify"}) THEN Clear(kept, "pending") ELSE kept
           d == k[RawCandidate(k)]
       IN  IF RawCandidate(k) = None THEN Answered(m, k) /\ Quiet
           ELSE /\ Answered(m, Mark(Mark(Put(Probed(k), "part", d.of, d.name, TRUE),
                                         "target", "part"), "source", "document"))
                /\ Quiet

(* The answer to another question leaves nothing behind but the estimate:  *)
(* resolveRecentDocumentEstimateCandidate looks again.                     *)
Settle(m) ==
    /\ Waits(m, {"clarify"}) /\ chain[m].kind \in {"part", "detail", "size"}
    /\ LET k == Clear(kept, "pending")
           d == k[RawCandidate(k)]
       IN  \/ Answered(m, k)
           \/ /\ chain[m].kind = "size" /\ RawCandidate(k) # None
              /\ Answered(m, Put(Probed(k), "estimate", d.of, d.name, TRUE))
    /\ Quiet

(* tryHandleDocumentChatEstimate and tryHandleEstimateCorrection: the      *)
(* estimate is of the document found before the AI was asked.              *)
Estimate(m) ==
    /\ Waits(m, {"size", "correct"})
    /\ LET found == chain[m].kind # None
       IN  Answered(m, IF found THEN Put(kept, "estimate", chain[m].of, chain[m].of, TRUE)
                                ELSE Mark(kept, "pending", "size"))
    /\ Quiet

(* tryHandleDocumentPartSummaryRequest: the part of the document found     *)
(* first is put to the AI again, and its answer saved.                     *)
Digest(m) == /\ Waits(m, {"digest"})
             /\ chain' = [chain EXCEPT ![m].pc = "describe"]
             /\ UNCHANGED <<kept, read, now>> /\ Quiet

Describe(m) ==
    /\ Waits(m, {"describe"})
    /\ LET of == chain[m].of
       IN  Answered(m, Mark(Mark(Put(kept, "answer", of, of, TRUE), "target", "answer"),
                            "source", "document"))
    /\ Quiet

-----------------------------------------------------------------------------
(* The way to the answer of the AI.                                        *)

(* processIncomingFile, with a text that could be extracted: every chain   *)
(* that is under way has now been overtaken by a document.                 *)
ReadDocument(m) ==
    /\ Waits(m, {"reading"}) /\ read < MaxDocs
    /\ read' = read + 1
    /\ kept' = Put(kept, "session", read', read', TRUE)
    /\ chain' = [n \in Messages |->
           IF n = m THEN [chain[m] EXCEPT !.of = read', !.kind = "summary",
                                          !.pc = IF chain[m].text THEN "mode" ELSE "answering"]
           ELSE IF UnderWay(n) THEN [chain[n] EXCEPT !.sure = FALSE] ELSE chain[n]]
    /\ UNCHANGED now /\ Quiet

(* or without: a document with a caption, or whose parser found no word,   *)
(* is answered in document_summary_answer all the same, from the caption   *)
(* or the request alone; another medium with a caption in no document's    *)
(* mode; and what has no caption with a hint.                              *)
ReadNothing(m) ==
    /\ Waits(m, {"reading"})
    /\ \/ ~chain[m].text /\ chain' = [chain EXCEPT ![m].pc = "direct"]
       \/ \E mode \in {"summary"} \cup (IF chain[m].text THEN {None} ELSE {}) :
            chain' = [chain EXCEPT ![m] = [@ EXCEPT !.pc = "answering", !.of = 0,
                                                    !.kind = mode, !.sure = FALSE]]
    /\ UNCHANGED <<kept, read, now>> /\ Quiet

(* resolveSemanticDocumentMode: a question back, or what the answer will   *)
(* be: a summary, a text in full, or, without attachment, no document's.   *)
ChooseMode(m) ==
    /\ Waits(m, {"intent", "mode"})
    /\ \/ chain' = [chain EXCEPT ![m].pc = "direct"]
       \/ \E mode \in {"summary", "full"} :
            chain' = [chain EXCEPT ![m].pc = "answering", ![m].kind = mode]
       \/ /\ Waits(m, {"intent"})
          /\ chain' = [chain EXCEPT ![m].pc = "answering", ![m].kind = None, ![m].of = 0]
    /\ UNCHANGED <<kept, read, now>> /\ Quiet

(* handleDirectReplyEarlyReturn, after the reply was sent *)
Direct(m) ==
    /\ Waits(m, {"direct"})
    /\ Answered(m, Mark(Put(kept, "reply", 0, 0, TRUE), "source", "reply"))
    /\ Quiet

(* Mutant: the name of the active document for that of the session. *)
NameFromContext(k, kind) == IF kind # None /\ Fresh(k, "context") THEN k["context"].of ELSE 0
(* recentRuntimeDocument of handlePostAiExportPersistence, if there is one. *)
RuntimeName(k, kind) == IF kind # None /\ Fresh(k, "session") THEN k["session"].of ELSE 0

(* handlePostAiExportPersistence: the session is read again. *)
Persisted(k, ch) ==
    LET name == RuntimeName(k, ch.kind)
        text == IF name # 0 THEN name ELSE ch.of
        About(a, slot) == Mark(Put(Put(a, slot, ch.of, name, ch.sure),
                                   "answer", ch.of, name, ch.sure), "target", slot)
        r == Put(k, "reply", 0, 0, TRUE)
        a == IF ch.kind = "summary" THEN About(r, "summary") ELSE About(r, "part")
    IN  IF ch.kind = None THEN Mark(r, "source", "reply")
        ELSE Mark(Put(Put(a, "document", text, name, TRUE), "context", text, name, TRUE),
                  "source", "document")

(* rawDocumentText is the effective text when the session is gone: with    *)
(* nothing read that is the message itself, which is "the document" now    *)
(* for every message under way.                                            *)
Answer(m) ==
    /\ Waits(m, {"answering"})
    /\ LET ch == chain[m]
           own == ch.kind # None /\ ch.of = 0 /\ ~Fresh(kept, "session")
       IN  chain' = [n \in Messages |->
               IF n = m THEN [Idle EXCEPT !.pc = "done"]
               ELSE IF UnderWay(n) /\ own THEN [chain[n] EXCEPT !.crossed = TRUE] ELSE chain[n]]
    /\ kept' = Persisted(kept, chain[m])
    /\ UNCHANGED <<read, now>> /\ Quiet

(* A query or a call on the way throws. *)
Fails(m) == Waits(m, {"answering", "direct"}) /\ Answered(m, kept) /\ Quiet

(* An entry past its window is as good as none; it goes at once here, when *)
(* it is next looked at in the code.                                       *)
Tick == /\ now < MaxTime
        /\ \A m \in Messages : UnderWay(m) => now - chain[m].at < MaxFlight
        /\ now' = now + 1
        /\ kept' = [c \in Caches |-> IF now' - kept[c].at <= Lasts(c) THEN kept[c] ELSE Absent]
        /\ UNCHANGED <<chain, read>> /\ Quiet

Next ==
    \/ \E m \in Messages :
         \/ Arrive(m) \/ PassOver(m) \/ Ask(m) \/ Reply(m)
         \/ Export(m) \/ ExportTarget(m) \/ SettleSource(m) \/ SettleTarget(m)
         \/ ShowPart(m) \/ Settle(m) \/ Estimate(m) \/ Digest(m) \/ Describe(m)
         \/ ReadDocument(m) \/ ReadNothing(m) \/ ChooseMode(m)
         \/ Direct(m) \/ Answer(m) \/ Fails(m)
    \/ Tick

Spec == Init /\ [][Next]_chatVars

-----------------------------------------------------------------------------
TypeOK ==
    /\ read \in Docs /\ now \in 0..MaxTime
    /\ \A c \in Caches : kept[c].of <= read /\ kept[c].name <= read /\ kept[c].at <= now
    /\ \A m \in Messages : chain[m].of <= read /\ chain[m].floor <= read

(* A file with the full text of "the document" is that of the document     *)
(* read last when the request came in, or of a newer one, if that one was  *)
(* read in the last half hour: however the chains of other messages about  *)
(* older documents save theirs in between.  What the code does lose is     *)
(* excepted: after the session went, and while the request was under way,  *)
(* the answer about a file without text was saved with its own message for *)
(* the document; then the file may hold that message, but still no older   *)
(* document.                                                               *)
FullTextIsNewest == sent.of >= sent.floor \/ (sent.of = 0 /\ sent.crossed)

(* A summary, a part or an answer is kept under the name of the document   *)
(* it is of, unless another document was read while it was being made or   *)
(* its own could not be read: then handlePostAiExportPersistence takes the *)
(* name of whatever the session holds.                                     *)
NamesMatch ==
    \A t \in Texts : kept[t].sure /\ kept[t].name # 0 => kept[t].name = kept[t].of
=============================================================================
