------------------------ MODULE Conversation_proofs ------------------------
(***************************************************************************)
(* Proofs about what a server process keeps of a chat.  First its memory,  *)
(* the caches of src/bot/handlers/chat and the chains of its messages, for *)
(* any number of messages and documents and any windows, if a message is   *)
(* under way no longer than the session and the texts are kept.  Then the  *)
(* pages of its history, for any commands, chats, page sizes and clock.    *)
(***************************************************************************)
EXTENDS ServerProcess_proofs, FiniteSetTheorems

-----------------------------------------------------------------------------
(* The memory of a chat                                                    *)

Kinds  == {"none", "document", "summary", "part", "answer", "reply", "source", "target", "detail",
           "size", "found", "full"}
Places == {"new", "done", "clarify", "correct", "digest", "part", "export", "followup", "size",
           "target", "describe", "reading", "intent", "mode", "direct", "answering"}

Entry == [there : BOOLEAN, kind : Kinds, of : Nat, name : Nat, at : Nat, sure : BOOLEAN]
Chain == [pc : Places, text : BOOLEAN, file : BOOLEAN, of : Nat, kind : Kinds, at : Nat,
          floor : Nat, sure : BOOLEAN, crossed : BOOLEAN]

(* The caches alone.  The session is of the document read last; what is    *)
(* kept of documents has their name, if it is known to have.               *)
CachesOK(k) ==
    /\ k \in [Chat!Caches -> Entry]
    /\ \A c \in Chat!Caches : k[c].of <= read /\ k[c].name <= read /\ k[c].at <= now
    /\ k["session"].there => /\ k["session"].of = read /\ read > 0
                             /\ now - k["session"].at <= ChatWindow
    /\ \A c \in {"session", "context", "document"} :
          k[c].name # 0 => k[c].name = k[c].of
    /\ \A t \in Chat!Texts : k[t].sure /\ k[t].name # 0 => k[t].name = k[t].of

(* A text that may stand for the document to a message: it is of none that *)
(* is older than what the message found in the session; it is of none at   *)
(* all only if such a text was saved since.                                *)
Owed(of, ch) == of >= ch.floor \/ (of = 0 /\ ch.crossed)

(* What the caches owe a message under way: since it came in, nothing that *)
(* may not stand for it was saved as the document or as the active one,    *)
(* and the document has not expired.                                       *)
Serves(k, ch) ==
    /\ ch.at <= now
    /\ ch.floor > 0 => /\ k["document"].there /\ k["document"].at >= ch.at
                       /\ Owed(k["document"].of, ch)
    /\ k["context"].there => Owed(k["context"].of, ch)

(* A chain that has settled on the text that it will save.                 *)
Settled(ch) == ch.pc \in {"intent", "mode"} \/ (ch.pc = "answering" /\ ch.kind # Chat!None)

Alive(ch) == ch.pc \notin {"new", "done"}

(* A chain and the caches: a text that is sure to be of its document is    *)
(* the session's; and the document a chain has settled on, if any, is the  *)
(* newest, unless the session is younger than the chain.                   *)
ChainOK(k, ch) ==
    /\ ch.of <= read /\ ch.floor <= read
    /\ Alive(ch) => /\ ch.at <= now /\ now - ch.at <= MaxFlight["chat"]
                    /\ Serves(k, ch)
    /\ Settled(ch) /\ ch.sure /\ k["session"].there => ch.of = read
    /\ Settled(ch) /\ k["session"].there =>
          ch.at <= k["session"].at \/ ch.of = read \/ ch.of = 0

(* When the session is gone, a chain has settled on no document, or on one *)
(* no older than any message found in the session.                         *)
NewestSettled(k, cs) ==
    ~k["session"].there =>
        \A m, n \in Chat!Messages :
           Settled(cs[m]) /\ Alive(cs[n]) => cs[m].of >= cs[n].floor \/ cs[m].of = 0

FileOK(f) == f \in [of : Nat, floor : Nat, crossed : BOOLEAN] /\ Owed(f.of, f)

ChatInv ==
    /\ read \in Chat!Docs /\ now \in 0..MaxTime["chat"]
    /\ chats \in [Chat!Messages -> Chain]
    /\ CachesOK(kept)
    /\ \A m \in Chat!Messages : ChainOK(kept, chats[m])
    /\ NewestSettled(kept, chats)
    /\ FileOK(file)

(* From one content of the caches to another, which serves the messages    *)
(* for which the given document, or none, may stand.                       *)
Keeps(k, l, bound) ==
    /\ CachesOK(l)
    /\ l["session"].there = k["session"].there /\ l["session"].at >= k["session"].at
    /\ \A ch \in Chain : Owed(bound, ch) /\ Serves(k, ch) => Serves(l, ch)

LEMMA ChatNames ==
    /\ Chat!Texts = {"document", "summary", "part", "answer"}
    /\ Chat!Slots = {"document", "summary", "part", "answer", "reply"}
    /\ Chat!Caches = {"document", "summary", "part", "answer", "reply", "session", "context",
                      "estimate", "source", "target", "pending"}
    /\ Chat!Absent \in Entry /\ Chat!Idle \in Chain /\ Chat!None = "none"
BY DEF Chat!Texts, Chat!Slots, Chat!Caches, Chat!Absent, Chat!Idle, Chat!None, Entry, Chain,
   Kinds, Places

LEMMA KeepsTwice ==
    ASSUME NEW k, NEW l, NEW m, NEW bound, CachesOK(k), Keeps(k, l, bound), Keeps(l, m, bound)
    PROVE  Keeps(k, m, bound)
<1>1. \A x : CachesOK(x) => x["session"].at \in Nat
  BY ChatNames DEF CachesOK, Entry
<1> QED
  BY <1>1 DEF Keeps

LEMMA KeepsSame ==
    ASSUME NEW k, NEW bound, CachesOK(k)
    PROVE  Keeps(k, k, bound)
BY ChatNames DEF Keeps, CachesOK, Entry

(* saveRecent...ForExport, of a text that is not "the document". *)
LEMMA PutKeeps ==
    ASSUME NEW k, NEW bound, CachesOK(k), now \in Nat, read \in Nat,
           NEW c \in Chat!Caches \ {"session", "context", "document"},
           NEW of \in 0..read, NEW name \in 0..read, NEW sure \in BOOLEAN,
           sure /\ name # 0 => name = of
    PROVE  Keeps(k, Chat!Put(k, c, of, name, sure), bound)
<1> DEFINE e == [there |-> TRUE, kind |-> Chat!None, of |-> of, name |-> name, at |-> now,
                 sure |-> sure]
           l == Chat!Put(k, c, of, name, sure)
<1>1. e \in Entry /\ k \in [Chat!Caches -> Entry]
  <2>1. of \in Nat /\ name \in Nat /\ Chat!None \in Kinds
    BY ChatNames DEF Kinds
  <2> QED
    BY <2>1 DEF Entry, CachesOK
<1>2. l = [k EXCEPT ![c] = e]
  BY DEF Chat!Put
<1>3. l \in [Chat!Caches -> Entry] /\ l[c] = e /\ \A d \in Chat!Caches \ {c} : l[d] = k[d]
  BY <1>1, <1>2
<1> HIDE DEF l
<1>4. {"session", "context", "document"} \subseteq Chat!Caches \ {c} /\ c \in Chat!Caches
      /\ Chat!Texts \subseteq Chat!Caches
  BY ChatNames
<1>5. CachesOK(l)
  BY <1>3, <1>4 DEF CachesOK
<1>6. k["session"].at \in Nat
  BY <1>1, <1>4 DEF Entry
<1>7. \A ch \in Chain : Serves(k, ch) => Serves(l, ch)
  BY <1>3, <1>4 DEF Serves
<1>8. l["session"].there = k["session"].there /\ l["session"].at >= k["session"].at
  BY <1>3, <1>4, <1>6
<1> QED
  BY <1>5, <1>7, <1>8 DEF Keeps, l

(* saveActive...Source and Target, savePendingClarification and            *)
(* clearPendingClarification: what is kept of documents stays.             *)
LEMMA OtherKeeps ==
    ASSUME NEW k, NEW bound, CachesOK(k), now \in Nat, read \in Nat,
           NEW c \in {"source", "target", "pending"},
           NEW e \in Entry, e.of = 0, e.name = 0, e.at <= now
    PROVE  Keeps(k, [k EXCEPT ![c] = e], bound)
<1> DEFINE l == [k EXCEPT ![c] = e]
<1>1. k \in [Chat!Caches -> Entry] /\ c \in Chat!Caches
  BY ChatNames DEF CachesOK
<1>3. l \in [Chat!Caches -> Entry] /\ l[c] = e /\ \A d \in Chat!Caches \ {c} : l[d] = k[d]
  BY <1>1
<1> HIDE DEF l
<1>4. {"session", "context", "document"} \subseteq Chat!Caches \ {c} /\ c \in Chat!Caches
      /\ Chat!Texts \subseteq Chat!Caches \ {c}
  BY ChatNames
<1>5. CachesOK(l)
  BY <1>3, <1>4 DEF CachesOK
<1>6. k["session"].at \in Nat
  BY <1>1, <1>4 DEF Entry
<1>7. \A ch \in Chain : Serves(k, ch) => Serves(l, ch)
  BY <1>3, <1>4 DEF Serves
<1>8. l["session"].there = k["session"].there /\ l["session"].at >= k["session"].at
  BY <1>3, <1>4, <1>6
<1> QED
  BY <1>5, <1>7, <1>8 DEF Keeps, l

LEMMA MarkKeeps ==
    ASSUME NEW k, NEW bound, CachesOK(k), now \in Nat, read \in Nat,
           NEW c \in {"source", "target", "pending"}, NEW kind \in Kinds
    PROVE  Keeps(k, Chat!Mark(k, c, kind), bound)
<1> DEFINE a == Chat!Absent
           e == [a EXCEPT !.there = TRUE, !.kind = kind, !.at = now]
<1>1. a \in Entry /\ a.of = 0 /\ a.name = 0
  BY ChatNames DEF Chat!Absent
<1>2. e \in Entry /\ e.of = 0 /\ e.name = 0 /\ e.at <= now
  <2> HIDE DEF a
  <2>1. e \in Entry
    BY <1>1 DEF Entry
  <2>2. e.of = a.of /\ e.name = a.name
    BY <1>1 DEF Entry
  <2>3. e.at = now
    BY <1>1 DEF Entry
  <2> QED
    BY <1>1, <2>1, <2>2, <2>3
<1>3. Chat!Mark(k, c, kind) = [k EXCEPT ![c] = e]
  BY DEF Chat!Mark, e
<1> HIDE DEF e
<1>4. Keeps(k, [k EXCEPT ![c] = e], bound)
  BY <1>2, OtherKeeps
<1> QED
  BY <1>3, <1>4

LEMMA ClearKeeps ==
    ASSUME NEW k, NEW bound, CachesOK(k), now \in Nat, read \in Nat
    PROVE  Keeps(k, Chat!Clear(k, "pending"), bound)
<1>1. /\ Chat!Absent \in Entry /\ Chat!Absent.of = 0 /\ Chat!Absent.name = 0
      /\ Chat!Absent.at <= now
  BY ChatNames DEF Chat!Absent
<1>2. Chat!Clear(k, "pending") = [k EXCEPT !["pending"] = Chat!Absent]
  BY DEF Chat!Clear
<1> QED
  BY <1>1, <1>2, OtherKeeps

(* touchCacheRecord. *)
LEMMA TouchKeeps ==
    ASSUME NEW k, NEW bound, CachesOK(k), now \in Nat, read \in Nat, NEW slots
    PROVE  Keeps(k, Chat!Touch(k, slots), bound)
<1> DEFINE l == Chat!Touch(k, slots)
<1>1. k \in [Chat!Caches -> Entry]
  BY DEF CachesOK
<1>2. ASSUME NEW c \in Chat!Caches
      PROVE  /\ l[c] \in Entry /\ l[c].there = k[c].there /\ l[c].of = k[c].of
             /\ l[c].name = k[c].name /\ l[c].sure = k[c].sure
             /\ l[c].at \in {k[c].at, now}
  <2>1. l[c] = [k[c] EXCEPT !.at = now] \/ l[c] = k[c]
    BY DEF Chat!Touch
  <2>2. k[c] \in Entry
    BY <1>1
  <2>3. [k[c] EXCEPT !.at = now] \in Entry
    BY <2>2 DEF Entry
  <2> QED
    BY <2>1, <2>2, <2>3 DEF Entry
<1>3. l \in [Chat!Caches -> Entry]
  <2>1. l = [c \in Chat!Caches |-> l[c]]
    BY DEF Chat!Touch
  <2> HIDE DEF l
  <2> QED
    BY <1>2, <2>1
<1> HIDE DEF l
<1>4. {"session", "context", "document"} \subseteq Chat!Caches /\ Chat!Texts \subseteq Chat!Caches
  BY ChatNames
<1>5. \A c \in Chat!Caches :
         /\ k[c].at \in Nat /\ k[c].at <= now
         /\ l[c].at \in Nat /\ l[c].at >= k[c].at /\ l[c].at <= now
  BY <1>1, <1>2, <1>3 DEF Entry, CachesOK
<1>6. CachesOK(l)
  <2>1. \A c \in Chat!Caches : l[c].of <= read /\ l[c].name <= read /\ l[c].at <= now
    BY <1>2, <1>5 DEF CachesOK
  <2>2. l["session"].there => /\ l["session"].of = read /\ read > 0
                              /\ now - l["session"].at <= ChatWindow
    BY <1>2, <1>4, <1>5, ChatAssumption DEF CachesOK
  <2>3. \A c \in {"session", "context", "document"} :
          l[c].name # 0 => l[c].name = l[c].of
    BY <1>2, <1>4 DEF CachesOK
  <2>4. \A t \in Chat!Texts : l[t].sure /\ l[t].name # 0 => l[t].name = l[t].of
    BY <1>2, <1>4 DEF CachesOK
  <2> QED
    BY <1>3, <2>1, <2>2, <2>3, <2>4 DEF CachesOK
<1>7. ASSUME NEW ch \in Chain, Serves(k, ch)
      PROVE  Serves(l, ch)
  <2>1. ch.at \in Nat /\ ch.floor \in Nat
    BY DEF Chain
  <2> QED
    BY <1>2, <1>4, <1>5, <1>7, <2>1 DEF Serves, Owed
<1> QED
  BY <1>2, <1>4, <1>5, <1>6, <1>7 DEF Keeps, l

(* saveRecentDocumentForExport and saveActiveDocumentContext. *)
LEMMA PutDocument ==
    ASSUME NEW k, CachesOK(k), now \in Nat, read \in Nat, NEW c \in {"document", "context"},
           NEW of \in 0..read, NEW name \in 0..read, name # 0 => name = of
    PROVE  Keeps(k, Chat!Put(k, c, of, name, TRUE), of)
<1> DEFINE e == [there |-> TRUE, kind |-> Chat!None, of |-> of, name |-> name, at |-> now,
                 sure |-> TRUE]
           l == Chat!Put(k, c, of, name, TRUE)
<1>1. e \in Entry /\ k \in [Chat!Caches -> Entry]
  <2>1. of \in Nat /\ name \in Nat /\ Chat!None \in Kinds
    BY ChatNames DEF Kinds
  <2> QED
    BY <2>1 DEF Entry, CachesOK
<1>2. l = [k EXCEPT ![c] = e]
  BY DEF Chat!Put
<1>3. l \in [Chat!Caches -> Entry] /\ l[c] = e /\ \A d \in Chat!Caches \ {c} : l[d] = k[d]
  BY <1>1, <1>2, ChatNames
<1> HIDE DEF l
<1>4. {"session", "context", "document"} \subseteq Chat!Caches /\ c # "session"
      /\ Chat!Texts \subseteq Chat!Caches
  BY ChatNames
<1>5. CachesOK(l)
  BY <1>3, <1>4 DEF CachesOK
<1>6. k["session"].at \in Nat
  BY <1>1, <1>4 DEF Entry
<1>7. ASSUME NEW ch \in Chain, Owed(of, ch), Serves(k, ch)
      PROVE  Serves(l, ch)
  <2>2. /\ e.there /\ e.of = of /\ e.at = now
        /\ ch.at <= now
    BY <1>7 DEF Serves
  <2> HIDE DEF e
  <2> QED
    BY <1>3, <1>4, <1>7, <2>2 DEF Serves
<1>8. l["session"].there = k["session"].there /\ l["session"].at >= k["session"].at
  BY <1>3, <1>4, <1>6
<1> QED
  BY <1>5, <1>7, <1>8 DEF Keeps, l

(* The window of the session: when it is there, it is fresh. *)
LEMMA SessionFresh ==
    ASSUME NEW k, CachesOK(k)
    PROVE  /\ Chat!Fresh(k, "session") <=> k["session"].there
           /\ \A c : Chat!Fresh(k, c) => k[c].there
BY DEF CachesOK, Chat!Fresh, Chat!Lasts

(* resolveRecentDocumentRawCandidate: the session, or else the active      *)
(* document, or else the text kept as the document.                        *)
LEMMA RawIs ==
    ASSUME NEW k
    PROVE  Chat!RawCandidate(k) = IF Chat!Fresh(k, "session") THEN "session"
                                  ELSE IF Chat!Fresh(k, "context") THEN "context"
                                  ELSE IF Chat!Fresh(k, "document") THEN "document" ELSE "none"
<1> DEFINE order == <<"session", "context", "document">>
           found == {i \in DOMAIN order : Chat!Fresh(k, order[i])}
<1>1. DOMAIN order = {1, 2, 3}
  BY SMT
<1>2. /\ 1 \in found <=> Chat!Fresh(k, "session")
      /\ 2 \in found <=> Chat!Fresh(k, "context")
      /\ 3 \in found <=> Chat!Fresh(k, "document")
      /\ found \subseteq {1, 2, 3}
  BY <1>1
<1>3. Chat!RawCandidate(k) = IF found = {} THEN Chat!None ELSE order[Chat!Min(found)]
  BY DEF Chat!RawCandidate, Chat!FirstFresh
<1> HIDE DEF found
<1>4. found # {} => Chat!Min(found) \in found /\ \A i \in found : Chat!Min(found) <= i
  <2>1. ASSUME found # {}
        PROVE  \E i \in found : \A j \in found : i <= j
    <3>1. CASE 1 \in found
      BY <1>2, <3>1
    <3>2. CASE 1 \notin found /\ 2 \in found
      BY <1>2, <3>2
    <3>3. CASE 1 \notin found /\ 2 \notin found
      <4>1. found = {3}
        BY <1>2, <2>1, <3>3
      <4> QED
        BY <4>1
    <3> QED
      BY <3>1, <3>2, <3>3
  <2> QED
    BY <2>1 DEF Chat!Min
<1>5. order[1] = "session" /\ order[2] = "context" /\ order[3] = "document"
  OBVIOUS
<1> HIDE DEF order
<1> DEFINE first == Chat!Min(found)
<1>5a. ASSUME NEW i \in found
          PROVE  first \in found /\ first \in {1, 2, 3} /\ first <= i
  BY <1>2, <1>4
<1> HIDE DEF first
<1>6. CASE 1 \in found
  <2>1. first = 1
    BY <1>5a, <1>6
  <2> QED
    BY <1>2, <1>3, <1>5, <1>6, <2>1 DEF first
<1>7. CASE 1 \notin found /\ 2 \in found
  <2>1. first = 2
    BY <1>5a, <1>7
  <2> QED
    BY <1>2, <1>3, <1>5, <1>7, <2>1 DEF first
<1>8. CASE 1 \notin found /\ 2 \notin found /\ 3 \in found
  <2>1. first = 3
    BY <1>2, <1>4, <1>8 DEF first
  <2> QED
    BY <1>2, <1>3, <1>5, <1>8, <2>1 DEF first
<1>9. CASE found = {}
  BY <1>2, <1>3, <1>9, ChatNames
<1> QED
  BY <1>2, <1>6, <1>7, <1>8, <1>9

(* What the candidate has is of the documents, under their name. *)
LEMMA RawOf ==
    ASSUME NEW k, CachesOK(k), read \in Nat, Chat!RawCandidate(k) # Chat!None
    PROVE  /\ k[Chat!RawCandidate(k)].of \in 0..read
           /\ k[Chat!RawCandidate(k)].name \in 0..read
           /\ k[Chat!RawCandidate(k)].name # 0 =>
                 k[Chat!RawCandidate(k)].name = k[Chat!RawCandidate(k)].of
           /\ k["session"].there => k[Chat!RawCandidate(k)].of = read
<1>1. Chat!RawCandidate(k) \in {"session", "context", "document"}
  BY RawIs, ChatNames
<1>2. k["session"].there => Chat!RawCandidate(k) = "session"
  BY RawIs, SessionFresh
<1>3. k[Chat!RawCandidate(k)] \in Entry
  BY <1>1, ChatNames DEF CachesOK
<1> QED
  BY <1>1, <1>2, <1>3, ChatNames DEF CachesOK, Entry

LEMMA ProbedKeeps ==
    ASSUME NEW k, NEW bound, CachesOK(k), now \in Nat, read \in Nat
    PROVE  Keeps(k, Chat!Probed(k), bound)
BY KeepsSame, TouchKeeps DEF Chat!Probed

(* hydrateRecentRuntimeDocumentIntoCaches: a message that comes in is      *)
(* served from the session.                                                *)
LEMMA HydratedKeeps ==
    ASSUME NEW k, CachesOK(k), now \in Nat, read \in Nat
    PROVE  LET h == Chat!Hydrated(k) IN
           /\ Keeps(k, h, read)
           /\ h["session"] = k["session"]
           /\ \A ch \in Chain :
                 ch.at = now /\ ch.floor = (IF k["session"].there THEN read ELSE 0) => Serves(h, ch)
<1> DEFINE h == Chat!Hydrated(k)
<1>1. CASE ~k["session"].there
  <2>1. h = k
    BY <1>1, SessionFresh DEF Chat!Hydrated
  <2>2. k["context"] \in Entry
    BY ChatNames DEF CachesOK
  <2> HIDE DEF h
  <2>3. \A ch \in Chain : ch.at = now /\ ch.floor = 0 => Serves(k, ch)
    BY <2>2 DEF Serves, Owed, Entry
  <2> QED
    BY <1>1, <2>1, <2>3, KeepsSame DEF h
<1>2. CASE k["session"].there
  <2> DEFINE a == Chat!Put(k, "document", read, read, TRUE)
             b == Chat!Put(a, "context", read, read, TRUE)
  <2>1. h = Chat!Mark(b, "source", "document")
    BY <1>2, SessionFresh DEF Chat!Hydrated, CachesOK
  <2>0. read \in 0..read
    OBVIOUS
  <2>2. Keeps(k, a, read)
    BY <2>0, PutDocument
  <2>3. CachesOK(a)
    BY <2>2 DEF Keeps
  <2>4. a["document"].of = read /\ a["document"].at = now /\ a["document"].there
        /\ a["session"] = k["session"]
    BY ChatNames DEF CachesOK, Chat!Put
  <2> HIDE DEF a
  <2>5. Keeps(a, b, read)
    BY <2>0, <2>3, PutDocument
  <2>6. CachesOK(b)
    BY <2>5 DEF Keeps
  <2>7. b["context"].of = read /\ b["document"] = a["document"] /\ b["session"] = a["session"]
    BY <2>3, ChatNames DEF CachesOK, Chat!Put
  <2> HIDE DEF b
  <2>8. Keeps(b, h, read)
    BY <2>1, <2>6, MarkKeeps DEF Kinds
  <2>9. /\ h["context"] = b["context"] /\ h["document"] = b["document"]
        /\ h["session"] = b["session"]
    BY <2>1, <2>6, ChatNames DEF CachesOK, Chat!Mark
  <2> HIDE DEF h
  <2>10. Keeps(k, h, read)
    BY <2>2, <2>3, <2>5, <2>8, KeepsTwice
  <2>11. ASSUME NEW ch \in Chain, ch.at = now, ch.floor = read
         PROVE  Serves(h, ch)
    BY <2>4, <2>7, <2>9, <2>11 DEF Serves, Owed, Chain
  <2> QED
    BY <1>2, <2>4, <2>7, <2>9, <2>10, <2>11 DEF h
<1> QED
  BY <1>1, <1>2

(* handlePostAiExportPersistence: the name is that of the session, which   *)
(* is that of a text that is sure; the text is the newest there is, or the *)
(* one it was given.                                                       *)
LEMMA PersistedKeeps ==
    ASSUME NEW k, CachesOK(k), now \in Nat, read \in Nat, NEW ch \in Chain, ch.of <= read,
           NEW bound, ch.kind # Chat!None =>
              /\ ch.sure /\ k["session"].there => ch.of = read
              /\ bound = IF k["session"].there THEN read ELSE ch.of
    PROVE  Keeps(k, Chat!Persisted(k, ch), bound)
<1> DEFINE name == Chat!RuntimeName(k, ch.kind)
           text == IF name # 0 THEN name ELSE ch.of
           r    == Chat!Put(k, "reply", 0, 0, TRUE)
<1>1. 0 \in 0..read /\ ch.of \in 0..read /\ ch.sure \in BOOLEAN
  BY DEF Chain
<1>2. Keeps(k, r, bound) /\ CachesOK(r)
  <2>1. "reply" \in Chat!Caches \ {"session", "context", "document"}
    BY ChatNames
  <2>2. Keeps(k, r, bound)
    BY <1>1, <2>1, PutKeeps
  <2> QED
    BY <2>2 DEF Keeps
<1> HIDE DEF r
<1>3. CASE ch.kind = Chat!None
  <2>1. Chat!Persisted(k, ch) = Chat!Mark(r, "source", "reply")
    BY <1>3 DEF Chat!Persisted, r
  <2>2. Keeps(r, Chat!Mark(r, "source", "reply"), bound)
    BY <1>2, MarkKeeps DEF Kinds
  <2> QED
    BY <1>2, <2>1, <2>2, KeepsTwice
<1>4. CASE ch.kind # Chat!None
  <2>1. name = IF k["session"].there THEN read ELSE 0
    BY <1>4, SessionFresh DEF Chat!RuntimeName, CachesOK
  <2>2. k["session"].there => read > 0
    BY DEF CachesOK
  <2> HIDE DEF name
  <2>3. name \in 0..read /\ (ch.sure /\ name # 0 => name = ch.of)
    BY <1>1, <1>4, <2>1
  <2>4. text \in 0..read /\ (name # 0 => name = text) /\ bound = text
    BY <1>1, <1>4, <2>1, <2>2, <2>3
  <2> HIDE DEF text
  <2> DEFINE slot == IF ch.kind = "summary" THEN "summary" ELSE "part"
             a == Chat!Put(r, slot, ch.of, name, ch.sure)
             b == Chat!Put(a, "answer", ch.of, name, ch.sure)
             c == Chat!Mark(b, "target", slot)
             d == Chat!Put(c, "document", text, name, TRUE)
             e == Chat!Put(d, "context", text, name, TRUE)
             f == Chat!Mark(e, "source", "document")
  <2>5. Chat!Persisted(k, ch) = f
    BY <1>4 DEF Chat!Persisted, r, name, text
  <2>6. /\ {slot, "answer"} \subseteq Chat!Caches \ {"session", "context", "document"}
        /\ slot \in Kinds
    BY ChatNames DEF Kinds
  <2> HIDE DEF slot
  <2>7. Keeps(r, a, bound) /\ CachesOK(a)
    <3>1. Keeps(r, a, bound)
      BY <1>1, <1>2, <2>3, <2>6, PutKeeps
    <3> QED
      BY <3>1 DEF Keeps
  <2> HIDE DEF a
  <2>8. Keeps(a, b, bound) /\ CachesOK(b)
    <3>1. Keeps(a, b, bound)
      BY <1>1, <2>3, <2>6, <2>7, PutKeeps
    <3> QED
      BY <3>1 DEF Keeps
  <2> HIDE DEF b
  <2>9. Keeps(b, c, bound) /\ CachesOK(c)
    <3>1. Keeps(b, c, bound)
      BY <2>6, <2>8, MarkKeeps
    <3> QED
      BY <3>1 DEF Keeps
  <2> HIDE DEF c
  <2>10. Keeps(c, d, bound) /\ CachesOK(d)
    <3>1. Keeps(c, d, bound)
      BY <2>3, <2>4, <2>9, PutDocument
    <3> QED
      BY <3>1 DEF Keeps
  <2> HIDE DEF d
  <2>11. Keeps(d, e, bound) /\ CachesOK(e)
    <3>1. Keeps(d, e, bound)
      BY <2>3, <2>4, <2>10, PutDocument
    <3> QED
      BY <3>1 DEF Keeps
  <2> HIDE DEF e
  <2>12. Keeps(e, f, bound)
    BY <2>11, MarkKeeps DEF Kinds
  <2> HIDE DEF f
  <2>13. Keeps(k, b, bound)
    BY <1>2, <2>7, <2>8, KeepsTwice
  <2>14. Keeps(k, d, bound)
    BY <2>13, <2>8, <2>9, <2>10, KeepsTwice
  <2> QED
    BY <2>5, <2>14, <2>10, <2>11, <2>12, KeepsTwice
<1> QED
  BY <1>3, <1>4

LEMMA EnteredKeeps ==
    ASSUME NEW k, NEW bound, CachesOK(k), now \in Nat, read \in Nat, NEW flow
    PROVE  Keeps(k, Chat!Entered(k, flow), bound)
<1>1. \A slots : Keeps(k, Chat!Touch(k, slots), bound)
  BY TouchKeeps
<1>2. Keeps(k, Chat!Probed(k), bound) /\ CachesOK(Chat!Probed(k))
  BY ProbedKeeps DEF Keeps
<1>3. \A slots : Keeps(Chat!Probed(k), Chat!Touch(Chat!Probed(k), slots), bound)
  BY <1>2, TouchKeeps
<1>4. \A slots : Keeps(k, Chat!Touch(Chat!Probed(k), slots), bound)
  BY <1>2, <1>3, KeepsTwice
<1>5. Keeps(k, k, bound)
  BY KeepsSame
<1> QED
  BY <1>1, <1>2, <1>4, <1>5 DEF Chat!Entered

(* What a chain has settled on is no document, or no older than what any   *)
(* message found in the session, if that is gone.                          *)
SettledNewest(k, ch) ==
    Settled(ch) /\ ~k["session"].there /\ ch.of # 0 =>
       /\ ch.of >= ch.floor
       /\ \A n \in Chat!Messages : Alive(chats[n]) => ch.of >= chats[n].floor

(* A chain under way. *)
GoesOn(k, ch) == ch \in Chain /\ Alive(ch) /\ ChainOK(k, ch) /\ SettledNewest(k, ch)

LEMMA FlowsAre ==
    /\ DOMAIN Chat!Flows = 1..7 /\ Len(Chat!Flows) = 7
    /\ Chat!Flows[1] = "clarify" /\ Chat!Flows[2] = "correct" /\ Chat!Flows[3] = "digest"
    /\ Chat!Flows[4] = "part" /\ Chat!Flows[5] = "export" /\ Chat!Flows[6] = "followup"
    /\ Chat!Flows[7] = "size"
BY DEF Chat!Flows

(* In front of a flow, with what the message read there, it has settled on *)
(* nothing yet.                                                            *)
LEMMA AtGoes ==
    ASSUME NEW k, CachesOK(k), now \in Nat, read \in Nat, NEW ch \in Chain, ChainOK(k, ch),
           ch.at <= now, now - ch.at <= MaxFlight["chat"], Serves(k, ch), NEW i \in 1..7
    PROVE  LET c == Chat!At(ch, k, Chat!Flows[i]) IN
              GoesOn(k, c) /\ c.at = ch.at /\ c.floor = ch.floor
<1>0. Chat!RawCandidate(k) # Chat!None => k[Chat!RawCandidate(k)].of \in 0..read
  BY RawOf
<1> DEFINE flow == Chat!Flows[i]
           raw  == Chat!RawCandidate(k)
           of   == IF flow \in {"correct", "digest", "size"} /\ raw # Chat!None
                   THEN k[raw].of ELSE 0
           kind == IF flow = "clarify" THEN k["pending"].kind
                   ELSE IF raw = Chat!None THEN Chat!None ELSE "found"
           c    == Chat!At(ch, k, flow)
<1>1. flow \in {"clarify", "correct", "digest", "part", "export", "followup", "size"}
  <2>1. i = 1 \/ i = 2 \/ i = 3 \/ i = 4 \/ i = 5 \/ i = 6 \/ i = 7
    OBVIOUS
  <2> QED
    BY <2>1, FlowsAre
<1> HIDE DEF flow
<1>2. of \in 0..read
  <2>1. CASE raw # Chat!None
    BY <1>0, <2>1
  <2>2. CASE raw = Chat!None
    BY <2>2
  <2> QED
    BY <2>1, <2>2
<1>3. kind \in Kinds
  BY ChatNames DEF CachesOK, Entry, Kinds
<1>4. c = [ch EXCEPT !.pc = flow, !.of = of, !.kind = kind]
  BY DEF Chat!At
<1> HIDE DEF of, kind, raw
<1>5. /\ c \in Chain /\ c.pc = flow /\ c.of = of /\ c.at = ch.at /\ c.floor = ch.floor
      /\ c.crossed = ch.crossed
  <2>1. flow \in Places /\ of \in Nat
    BY <1>1, <1>2 DEF Places
  <2> HIDE DEF c
  <2> QED
    BY <1>3, <1>4, <2>1 DEF Chain
<1> HIDE DEF c
<1>6. Alive(c) /\ ~Settled(c)
  BY <1>1, <1>5 DEF Alive, Settled
<1>7. ChainOK(k, c)
  BY <1>2, <1>5, <1>6 DEF ChainOK, Serves, Owed
<1> QED
  BY <1>5, <1>6, <1>7 DEF GoesOn, SettledNewest, c, flow

(* resolveFileIntakeDecision, for a file, a document of the session or a   *)
(* message of its own.                                                     *)
LEMMA IntakeGoes ==
    ASSUME NEW k, CachesOK(k), now \in Nat, read \in Nat, NEW ch \in Chain, ChainOK(k, ch),
           ch.at <= now, now - ch.at <= MaxFlight["chat"], Serves(k, ch)
    PROVE  LET c == Chat!Intake(ch, k) IN
              GoesOn(k, c) /\ c.at = ch.at /\ c.floor = ch.floor
<1> DEFINE c == Chat!Intake(ch, k)
<1>1. CASE ch.file
  <2>1. c = [ch EXCEPT !.pc = "reading"]
    BY <1>1 DEF Chat!Intake
  <2> HIDE DEF c
  <2>2. c \in Chain
    BY <2>1 DEF Chain, Places
  <2>3. /\ c.pc = "reading" /\ c.of = ch.of /\ c.at = ch.at /\ c.floor = ch.floor
        /\ c.crossed = ch.crossed
    BY <2>1 DEF Chain
  <2>4. Alive(c) /\ ~Settled(c)
    BY <2>3 DEF Alive, Settled
  <2>5. ChainOK(k, c)
    BY <2>3, <2>4 DEF ChainOK, Serves, Owed
  <2> QED
    BY <2>2, <2>3, <2>4, <2>5 DEF GoesOn, SettledNewest, c
<1>2. CASE ~ch.file /\ k["session"].there
  <2>1. c = [ch EXCEPT !.pc = "intent", !.of = read, !.sure = TRUE]
    BY <1>2, SessionFresh DEF Chat!Intake, CachesOK
  <2> HIDE DEF c
  <2>2. c \in Chain
    BY <2>1 DEF Chain, Places
  <2>3. /\ c.pc = "intent" /\ c.of = read /\ c.at = ch.at /\ c.floor = ch.floor
        /\ c.crossed = ch.crossed
    BY <2>1 DEF Chain
  <2>5. Alive(c) /\ ChainOK(k, c)
    BY <2>3 DEF ChainOK, Serves, Owed, Alive
  <2>6. SettledNewest(k, c)
    BY <1>2 DEF SettledNewest
  <2> QED
    BY <2>2, <2>3, <2>5, <2>6 DEF GoesOn, c
<1>3. CASE ~ch.file /\ ~k["session"].there
  <2>1. c = [ch EXCEPT !.pc = "answering", !.of = 0, !.kind = "none"]
    BY <1>3, SessionFresh, ChatNames DEF Chat!Intake
  <2> HIDE DEF c
  <2>2. c \in Chain
    BY <2>1 DEF Chain, Places, Kinds
  <2>3. /\ c.pc = "answering" /\ c.of = 0 /\ c.at = ch.at /\ c.floor = ch.floor
        /\ c.kind = "none" /\ c.crossed = ch.crossed
    BY <2>1 DEF Chain
  <2>4. Alive(c) /\ ~Settled(c)
    BY <2>3, ChatNames DEF Alive, Settled
  <2>5. ChainOK(k, c)
    BY <2>3, <2>4 DEF ChainOK, Serves, Owed
  <2> QED
    BY <2>2, <2>3, <2>4, <2>5 DEF GoesOn, SettledNewest, c
<1> QED
  BY <1>1, <1>2, <1>3

(* On with the first flow that opens, or with the intake. *)
LEMMA GoOnGoes ==
    ASSUME NEW k, CachesOK(k), now \in Nat, read \in Nat, NEW ch \in Chain, ChainOK(k, ch),
           ch.at <= now, now - ch.at <= MaxFlight["chat"], Serves(k, ch),
           NEW m \in Chat!Messages, NEW i \in 1..8, Chat!GoOn(m, ch, k, i)
    PROVE  /\ Keeps(k, kept', read)
           /\ \E c \in Chain : /\ chats' = [chats EXCEPT ![m] = c]
                               /\ GoesOn(k, c) /\ c.at = ch.at /\ c.floor = ch.floor
<1> DEFINE open == {j \in i..Len(Chat!Flows) : Chat!Opens(k, Chat!Flows[j])}
           take == ch.text /\ open # {}
           f    == Chat!Min(open)
<1>1. open \subseteq 1..7 /\ open \subseteq Nat
  BY FlowsAre
<1>3. /\ chats' = [chats EXCEPT ![m] = IF take THEN Chat!At(ch, k, Chat!Flows[f])
                                       ELSE Chat!Intake(ch, k)]
      /\ kept' = IF take THEN Chat!Entered(k, Chat!Flows[f]) ELSE k
  BY DEF Chat!GoOn
<1> HIDE DEF open
<1>4. CASE take
  <2>1. \E x \in open : \A y \in open : x <= y
    BY <1>1, <1>4, Calls!Least
  <2>2. f \in 1..7
    BY <1>1, <2>1 DEF Chat!Min
  <2> HIDE DEF f
  <2> DEFINE c == Chat!At(ch, k, Chat!Flows[f])
  <2>3. GoesOn(k, c) /\ c.at = ch.at /\ c.floor = ch.floor
    BY <2>2, AtGoes
  <2> HIDE DEF c
  <2>4. chats' = [chats EXCEPT ![m] = c] /\ c \in Chain
    BY <1>3, <1>4, <2>3 DEF c, GoesOn
  <2>5. Keeps(k, kept', read)
    BY <1>3, <1>4, EnteredKeeps
  <2> QED
    BY <2>3, <2>4, <2>5
<1>5. CASE ~take
  <2> DEFINE c == Chat!Intake(ch, k)
  <2>2. GoesOn(k, c) /\ c.at = ch.at /\ c.floor = ch.floor
    BY IntakeGoes
  <2> HIDE DEF c
  <2>3. chats' = [chats EXCEPT ![m] = c] /\ c \in Chain
    BY <1>3, <1>5, <2>2 DEF c, GoesOn
  <2>4. Keeps(k, kept', read)
    BY <1>3, <1>5, KeepsSame
  <2> QED
    BY <2>2, <2>3, <2>4
<1> QED
  BY <1>4, <1>5

(* What is given of a step: the caches keep serving, and one chain goes on *)
(* or is answered.                                                         *)
LEMMA ChainStays ==
    ASSUME NEW k, NEW l, NEW ch \in Chain, CachesOK(k), now \in Nat, read \in Nat,
           ChainOK(k, ch), NEW bound, Keeps(k, l, bound), Alive(ch) => Owed(bound, ch)
    PROVE  ChainOK(l, ch)
<1>1. /\ k["session"].at \in Nat /\ l["session"].at \in Nat /\ ch.at \in Nat
      /\ k["session"].there \in BOOLEAN /\ l["session"].there \in BOOLEAN
  BY ChatNames DEF Keeps, CachesOK, Entry, Chain
<1>2. Alive(ch) => (Serves(k, ch) => Serves(l, ch))
  BY DEF Keeps
<1> QED
  BY <1>1, <1>2 DEF ChainOK, Keeps

LEMMA GoesInv ==
    ASSUME ChatInv, Keeps(kept, kept', read), UNCHANGED <<read, now>>,
           NEW m \in Chat!Messages, NEW c, chats' = [chats EXCEPT ![m] = c], GoesOn(kept', c),
           \/ c.floor = chats[m].floor /\ Alive(chats[m])
           \/ c.floor = 0 \/ kept["session"].there,
           FileOK(file')
    PROVE  ChatInv'
<1>1. /\ now \in Nat /\ read \in Nat /\ chats \in [Chat!Messages -> Chain] /\ CachesOK(kept)
      /\ read' = read /\ now' = now
  BY ChatAssumption DEF ChatInv, Chat!Docs
<1>2. CachesOK(kept)' /\ kept'["session"].there = kept["session"].there
  BY <1>1 DEF Keeps, CachesOK
<1>3. /\ chats'[m] = c /\ c \in Chain /\ chats' \in [Chat!Messages -> Chain]
      /\ \A n \in Chat!Messages \ {m} : chats'[n] = chats[n]
  BY <1>1 DEF GoesOn
<1>4. ASSUME NEW n \in Chat!Messages
      PROVE  ChainOK(kept, chats[n])'
  <2>1. ChainOK(kept', chats'[n])
    <3>1. CASE n = m
      BY <1>3, <3>1 DEF GoesOn
    <3>2. CASE n # m
      <4>1. ChainOK(kept, chats[n]) /\ chats[n] \in Chain
        BY <1>1 DEF ChatInv
      <4>2. Owed(read, chats[n])
        BY <1>1, <4>1 DEF ChainOK, Owed, Chain
      <4> QED
        BY <1>1, <1>3, <3>2, <4>1, <4>2, ChainStays
    <3> QED
      BY <3>1, <3>2
  <2> QED
    BY <1>1, <2>1 DEF ChainOK, Serves
<1>5. NewestSettled(kept, chats)'
  <2> SUFFICES ASSUME ~kept'["session"].there, NEW n \in Chat!Messages, NEW o \in Chat!Messages,
                      Settled(chats'[n]), Alive(chats'[o]), chats'[n].of # 0
               PROVE  chats'[n].of >= chats'[o].floor
    BY DEF NewestSettled
  <2>1. ~kept["session"].there
    BY <1>2
  <2>2. CASE n = m
    <3>1. Settled(c) /\ c.of # 0
      BY <1>3, <2>2
    <3>2. c.of >= c.floor /\ \A q \in Chat!Messages : Alive(chats[q]) => c.of >= chats[q].floor
      BY <3>1 DEF GoesOn, SettledNewest
    <3> QED
      BY <1>3, <2>2, <3>2
  <2>3. CASE n # m /\ o # m
    BY <1>3, <2>1, <2>3 DEF ChatInv, NewestSettled
  <2>4. CASE n # m /\ o = m
    <3>1. chats'[o].floor = c.floor /\ chats[n] \in Chain /\ chats[n].of \in Nat
      BY <1>1, <1>3, <2>4 DEF Chain
    <3>2. CASE c.floor = 0
      BY <1>3, <2>4, <3>1, <3>2
    <3>3. CASE c.floor = chats[m].floor /\ Alive(chats[m])
      BY <1>3, <2>1, <2>4, <3>1, <3>3 DEF ChatInv, NewestSettled
    <3> QED
      BY <2>1, <3>2, <3>3
  <2> QED
    BY <2>2, <2>3, <2>4
<1> QED
  BY <1>1, <1>2, <1>3, <1>4, <1>5 DEF ChatInv

(* A message is answered; of the others, some are told that a text of no   *)
(* document has become the document.                                       *)
LEMMA EndsInv ==
    ASSUME ChatInv, NEW m \in Chat!Messages, NEW bound, Keeps(kept, kept', bound),
           UNCHANGED <<read, now>>, FileOK(file'), NEW others \in SUBSET Chat!Messages,
           chats' = [n \in Chat!Messages |->
                       IF n = m THEN [Chat!Idle EXCEPT !.pc = "done"]
                       ELSE IF n \in others THEN [chats[n] EXCEPT !.crossed = TRUE] ELSE chats[n]],
           \A n \in Chat!Messages : Alive(chats'[n]) => Owed(bound, chats'[n])
    PROVE  ChatInv'
<1> DEFINE c == [Chat!Idle EXCEPT !.pc = "done"]
<1>1. /\ now \in Nat /\ read \in Nat /\ chats \in [Chat!Messages -> Chain] /\ CachesOK(kept)
      /\ read' = read /\ now' = now
  BY ChatAssumption DEF ChatInv, Chat!Docs
<1>2. c \in Chain /\ c.pc = "done" /\ c.of = 0 /\ c.floor = 0
  <2>1. Chat!Idle \in Chain /\ Chat!Idle.of = 0 /\ Chat!Idle.floor = 0
    BY ChatNames DEF Chat!Idle
  <2> DEFINE d == Chat!Idle
  <2>2. d \in Chain /\ d.of = 0 /\ d.floor = 0
    BY <2>1
  <2> HIDE DEF d
  <2>3. [d EXCEPT !.pc = "done"] \in Chain
    BY <2>2 DEF Chain, Places
  <2>4. [d EXCEPT !.pc = "done"].pc = "done" /\ [d EXCEPT !.pc = "done"].of = 0
        /\ [d EXCEPT !.pc = "done"].floor = 0
    BY <2>2 DEF Chain
  <2> QED
    BY <2>3, <2>4 DEF d
<1>3. /\ chats'[m] = c
      /\ \A n \in Chat!Messages \ {m} :
            chats'[n] = [chats[n] EXCEPT !.crossed = TRUE] \/ chats'[n] = chats[n]
  OBVIOUS
<1>4. \A n \in Chat!Messages : chats'[n] =
         IF n = m THEN c
         ELSE IF n \in others THEN [chats[n] EXCEPT !.crossed = TRUE] ELSE chats[n]
  OBVIOUS
<1> HIDE DEF c
<1>5. ~Alive(c) /\ ~Settled(c)
  BY <1>2 DEF Alive, Settled
<1>6. CachesOK(kept)' /\ kept'["session"].there = kept["session"].there
  BY <1>1 DEF Keeps, CachesOK
<1>7. ASSUME NEW n \in Chat!Messages, n # m
      PROVE  /\ chats'[n] \in Chain /\ chats'[n].of = chats[n].of
             /\ chats'[n].floor = chats[n].floor /\ chats'[n].at = chats[n].at
             /\ chats'[n].sure = chats[n].sure /\ chats'[n].pc = chats[n].pc
             /\ chats'[n].kind = chats[n].kind
             /\ chats[n].crossed => chats'[n].crossed
  <2>1. chats[n] \in Chain
    BY <1>1
  <2>2. CASE chats'[n] = chats[n]
    BY <2>1, <2>2
  <2>3. CASE chats'[n] = [chats[n] EXCEPT !.crossed = TRUE]
    BY <2>1, <2>3 DEF Chain
  <2> QED
    BY <1>3, <1>7, <2>2, <2>3
<1>8. chats' \in [Chat!Messages -> Chain]
  <2>1. \A n \in Chat!Messages : chats'[n] \in Chain
    BY <1>2, <1>3, <1>7
  <2>2. chats' = [n \in Chat!Messages |-> chats'[n]]
    OBVIOUS
  <2> QED
    BY <2>1, <2>2
<1>9. ASSUME NEW n \in Chat!Messages, n # m
      PROVE  (Alive(chats'[n]) <=> Alive(chats[n])) /\ (Settled(chats'[n]) <=> Settled(chats[n]))
  BY <1>7, <1>9 DEF Alive, Settled
<1>10. ASSUME NEW n \in Chat!Messages
       PROVE  ChainOK(kept, chats[n])'
  <2>1. ChainOK(kept', chats'[n])
    <3>1. CASE n = m
      BY <1>1, <1>2, <1>3, <1>5, <3>1 DEF ChainOK
    <3>2. CASE n # m
      <4>1. ChainOK(kept, chats[n]) /\ chats[n] \in Chain
        BY <1>1 DEF ChatInv
      <4>2. Serves(kept, chats[n]) => Serves(kept, chats'[n])
        BY <1>7, <3>2 DEF Serves, Owed
      <4>3. ChainOK(kept, chats'[n])
        BY <1>7, <1>9, <3>2, <4>1, <4>2 DEF ChainOK
      <4> QED
        BY <1>1, <1>7, <3>2, <4>3, ChainStays
    <3> QED
      BY <3>1, <3>2
  <2> QED
    BY <1>1, <2>1 DEF ChainOK, Serves
<1>11. NewestSettled(kept, chats)'
  <2> SUFFICES ASSUME ~kept'["session"].there, NEW n \in Chat!Messages, NEW o \in Chat!Messages,
                      Settled(chats'[n]), Alive(chats'[o])
               PROVE  chats'[n].of >= chats'[o].floor \/ chats'[n].of = 0
    BY DEF NewestSettled
  <2>1. n # m /\ o # m
    BY <1>3, <1>5
  <2> QED
    BY <1>6, <1>7, <1>9, <2>1 DEF ChatInv, NewestSettled
<1> QED
  BY <1>1, <1>6, <1>8, <1>10, <1>11 DEF ChatInv

LEMMA AnsweredInv ==
    ASSUME ChatInv, NEW m \in Chat!Messages, NEW k, Keeps(kept, k, read),
           Chat!Answered(m, k), FileOK(file')
    PROVE  ChatInv'
<1>1. /\ Keeps(kept, kept', read) /\ UNCHANGED <<read, now>>
      /\ chats' = [chats EXCEPT ![m] = [Chat!Idle EXCEPT !.pc = "done"]]
      /\ read \in Nat /\ chats \in [Chat!Messages -> Chain]
  BY ChatAssumption DEF Chat!Answered, ChatInv, Chat!Docs
<1>2. chats' = [n \in Chat!Messages |->
                  IF n = m THEN [Chat!Idle EXCEPT !.pc = "done"]
                  ELSE IF n \in {} THEN [chats[n] EXCEPT !.crossed = TRUE] ELSE chats[n]]
  BY <1>1
<1>3. ASSUME NEW n \in Chat!Messages, Alive(chats'[n])
      PROVE  Owed(read, chats'[n])
  <2>1. CASE n = m
    <3>1. chats'[n] = [Chat!Idle EXCEPT !.pc = "done"]
      BY <1>2, <2>1
    <3>2. chats'[n].pc = "done"
      BY <3>1 DEF Chat!Idle
    <3> QED
      BY <1>3, <3>2 DEF Alive
  <2>2. CASE n # m
    <3>1. chats'[n] = chats[n] /\ chats[n] \in Chain /\ ChainOK(kept, chats[n])
      BY <1>1, <2>2 DEF ChatInv
    <3> QED
      BY <1>1, <3>1 DEF ChainOK, Owed, Chain
  <2> QED
    BY <2>1, <2>2
<1>4. {} \in SUBSET Chat!Messages
  OBVIOUS
<1> QED
  BY <1>1, <1>2, <1>3, <1>4, EndsInv

(* The floors of the messages under way are documents that were read. *)
LEMMA FloorsRead ==
    ASSUME ChatInv
    PROVE  /\ now \in Nat /\ read \in Nat /\ CachesOK(kept)
           /\ \A n \in Chat!Messages : /\ chats[n] \in Chain
                                       /\ Alive(chats[n]) => chats[n].floor <= read
                                       /\ ChainOK(kept, chats[n])
BY ChatAssumption DEF ChatInv, Chat!Docs, ChainOK

LEMMA QuietInv ==
    ASSUME ChatInv, NEW m \in Chat!Messages, NEW k, Keeps(kept, k, read), Chat!Answered(m, k),
           UNCHANGED file
    PROVE  ChatInv'
<1>1. FileOK(file')
  BY DEF ChatInv, FileOK, Owed
<1> QED
  BY <1>1, AnsweredInv

(* sendCreatedExportFile: the document is the one kept when the message is *)
(* answered.                                                               *)
LEMMA DeliverInv ==
    ASSUME ChatInv, NEW m \in Chat!Messages, NEW k, Keeps(kept, k, read), Alive(chats[m]),
           NEW slot, Chat!Deliver(m, k, slot)
    PROVE  ChatInv'
<1>1. CachesOK(k)
  BY DEF Keeps
<1>2. Keeps(k, Chat!Touch(k, {slot}), read)
  BY <1>1, FloorsRead, TouchKeeps
<1>3. Keeps(kept, Chat!Touch(k, {slot}), read)
  BY <1>2, FloorsRead, KeepsTwice
<1>4. /\ k["document"].of \in Nat /\ chats[m].floor \in Nat
      /\ chats[m].crossed \in BOOLEAN
  <2>1. k["document"] \in Entry /\ chats[m] \in Chain
    BY <1>1, FloorsRead, ChatNames DEF CachesOK
  <2> QED
    BY <2>1 DEF Entry, Chain
<1>5. Owed(k["document"].of, chats[m])
  <2>1. Serves(kept, chats[m]) /\ Owed(read, chats[m]) /\ chats[m] \in Chain
    BY FloorsRead DEF ChainOK, Owed, Chain
  <2>2. Serves(k, chats[m])
    BY <2>1 DEF Keeps
  <2> QED
    BY <1>4, <2>2 DEF Serves, Owed
<1>6. FileOK(file')
  <2>1. CASE file' = file
    BY <2>1 DEF ChatInv, FileOK, Owed
  <2>2. CASE file' = [of |-> k["document"].of, floor |-> chats[m].floor,
                      crossed |-> chats[m].crossed]
    BY <1>4, <1>5, <2>2 DEF FileOK, Owed
  <2> QED
    BY <2>1, <2>2 DEF Chat!Deliver
<1>7. Chat!Answered(m, Chat!Touch(k, {slot}))
  BY DEF Chat!Deliver
<1> QED
  BY <1>3, <1>6, <1>7, AnsweredInv

(* The flows that export. *)
LEMMA ExportsInv ==
    ASSUME ChatInv, NEW m \in Chat!Messages,
           \/ Chat!Export(m) \/ Chat!ExportTarget(m)
           \/ Chat!SettleSource(m) \/ Chat!SettleTarget(m)
    PROVE  ChatInv'
<1> USE FloorsRead
<1>1. Keeps(kept, kept, read)
  BY KeepsSame
<1>2. ASSUME NEW k, Keeps(kept, k, read), NEW c \in {"source", "target"}, NEW kind \in Kinds
      PROVE  Keeps(kept, Chat!Mark(k, c, kind), read)
  <2>1. CachesOK(k)
    BY <1>2 DEF Keeps
  <2>2. Keeps(k, Chat!Mark(k, c, kind), read)
    BY <2>1, MarkKeeps
  <2> QED
    BY <1>2, <2>2, KeepsTwice
<1>3. ASSUME NEW k, Keeps(kept, k, read)
      PROVE  Keeps(kept, Chat!Clear(k, "pending"), read)
  <2>1. CachesOK(k)
    BY <1>3 DEF Keeps
  <2>2. Keeps(k, Chat!Clear(k, "pending"), read)
    BY <2>1, ClearKeeps
  <2> QED
    BY <1>3, <2>2, KeepsTwice
<1>4. {"document", "reply"} \subseteq Kinds /\ Chat!Texts \subseteq Kinds
  BY ChatNames DEF Kinds
<1>5. Alive(chats[m])
  BY DEF Alive, Chat!Export, Chat!ExportTarget, Chat!SettleSource, Chat!SettleTarget, Chat!Waits
<1>6. CASE Chat!ExportTarget(m)
  <2>1. PICK t \in Chat!Texts \cup {Chat!None} :
           LET k == IF t = Chat!None THEN kept ELSE Chat!Mark(kept, "target", t)
           IN  Chat!Deliver(m, k, Chat!TargetCandidate(k, t))
    BY <1>6 DEF Chat!ExportTarget
  <2> DEFINE k == IF t = Chat!None THEN kept ELSE Chat!Mark(kept, "target", t)
  <2>2. Keeps(kept, k, read)
    BY <1>1, <1>2, <1>4, <2>1
  <2>3. Chat!Deliver(m, k, Chat!TargetCandidate(k, t))
    BY <2>1
  <2> HIDE DEF k
  <2> QED
    BY <1>5, <2>2, <2>3, DeliverInv
<1>7. CASE Chat!SettleTarget(m)
  <2>1. PICK t \in Chat!Texts \cup {Chat!None} :
           LET a == IF t = Chat!None THEN kept ELSE Chat!Mark(kept, "target", t)
               k == Chat!Mark(Chat!Clear(a, "pending"), "source", "document")
           IN  Chat!Deliver(m, k, Chat!TargetCandidate(k, t))
    BY <1>7 DEF Chat!SettleTarget
  <2> DEFINE a == IF t = Chat!None THEN kept ELSE Chat!Mark(kept, "target", t)
             b == Chat!Clear(a, "pending")
             k == Chat!Mark(b, "source", "document")
  <2>2. Keeps(kept, a, read)
    BY <1>1, <1>2, <1>4, <2>1
  <2>3. Chat!Deliver(m, k, Chat!TargetCandidate(k, t))
    BY <2>1
  <2> HIDE DEF a
  <2>4. Keeps(kept, b, read)
    BY <1>3, <2>2
  <2> HIDE DEF b
  <2>5. Keeps(kept, k, read)
    BY <1>2, <1>4, <2>4
  <2> HIDE DEF k
  <2> QED
    BY <1>5, <2>3, <2>5, DeliverInv
<1>8. CASE Chat!SettleSource(m)
  <2> DEFINE b == Chat!Clear(kept, "pending")
             k == Chat!Mark(b, "source", "document")
             l == Chat!Mark(b, "source", "reply")
  <2>1. \/ Chat!Deliver(m, k, Chat!TargetCandidate(k, Chat!None))
        \/ Chat!Deliver(m, l, Chat!ExplicitCandidate(l, "reply"))
        \/ Chat!Deliver(m, b, Chat!ExplicitCandidate(b, Chat!None))
    BY <1>8 DEF Chat!SettleSource
  <2>2. Keeps(kept, b, read)
    BY <1>1, <1>3
  <2> HIDE DEF b
  <2>3. Keeps(kept, k, read) /\ Keeps(kept, l, read)
    BY <1>2, <1>4, <2>2
  <2> HIDE DEF k, l
  <2> QED
    BY <1>5, <2>1, <2>2, <2>3, DeliverInv
<1>9. CASE Chat!Export(m)
  <2> DEFINE k == Chat!Mark(kept, "source", "document")
             l == Chat!Mark(kept, "source", "reply")
             c == [chats[m] EXCEPT !.pc = "target"]
  <2>1. \/ /\ kept' = Chat!Touch(k, Chat!Texts)
           /\ chats' = [chats EXCEPT ![m] = c]
           /\ UNCHANGED <<read, now, file>>
        \/ Chat!Deliver(m, l, Chat!ExplicitCandidate(l, "reply"))
        \/ Chat!Deliver(m, kept, Chat!ExplicitCandidate(kept, Chat!None))
    BY <1>9 DEF Chat!Export, Chat!Quiet
  <2>2. Keeps(kept, k, read) /\ Keeps(kept, l, read)
    BY <1>1, <1>2, <1>4
  <2> HIDE DEF k, l
  <2>3. CachesOK(k)
    BY <2>2 DEF Keeps
  <2>4. Keeps(k, Chat!Touch(k, Chat!Texts), read)
    BY <2>3, TouchKeeps
  <2>5. Keeps(kept, Chat!Touch(k, Chat!Texts), read)
    BY <2>2, <2>4, KeepsTwice
  <2>6. ASSUME kept' = Chat!Touch(k, Chat!Texts), chats' = [chats EXCEPT ![m] = c],
               UNCHANGED <<read, now, file>>
        PROVE  ChatInv'
    <3>1. chats[m] \in Chain /\ ChainOK(kept, chats[m]) /\ chats[m].floor <= read
      BY <1>5
    <3>2. c \in Chain /\ c.pc = "target" /\ c.of = chats[m].of /\ c.at = chats[m].at
          /\ c.floor = chats[m].floor /\ c.crossed = chats[m].crossed
      BY <3>1 DEF Chain, Places
    <3> HIDE DEF c
    <3>3. Alive(c) /\ ~Settled(c)
      BY <3>2 DEF Alive, Settled
    <3>4. ChainOK(kept, c)
      BY <1>5, <3>1, <3>2, <3>3 DEF ChainOK, Serves, Owed
    <3>4a. Owed(read, c)
      BY <3>1, <3>2 DEF Owed, Chain
    <3>5. ChainOK(kept', c)
      BY <2>5, <2>6, <3>2, <3>4, <3>4a, ChainStays
    <3>6. GoesOn(kept', c)
      BY <3>2, <3>3, <3>5 DEF GoesOn, SettledNewest
    <3>7. FileOK(file')
      BY <2>6 DEF ChatInv, FileOK, Owed
    <3>8. Keeps(kept, kept', read)
      BY <2>5, <2>6
    <3> QED
      BY <1>5, <2>6, <3>2, <3>6, <3>7, <3>8, GoesInv
  <2> QED
    BY <1>1, <1>5, <2>1, <2>2, <2>6, DeliverInv
<1> QED
  BY <1>6, <1>7, <1>8, <1>9

(* The flows and the answers that leave something behind. *)
LEMMA AnswersInv ==
    ASSUME ChatInv, NEW m \in Chat!Messages,
           \/ Chat!Ask(m) \/ Chat!Reply(m) \/ Chat!ShowPart(m) \/ Chat!Settle(m)
           \/ Chat!Estimate(m) \/ Chat!Describe(m) \/ Chat!Direct(m) \/ Chat!Answer(m)
           \/ Chat!Fails(m)
    PROVE  ChatInv'
<1> USE FloorsRead
<1>1. Keeps(kept, kept, read)
  BY KeepsSame
<1>2. ASSUME NEW k, Keeps(kept, k, read), NEW c \in {"source", "target", "pending"},
             NEW kind \in Kinds
      PROVE  Keeps(kept, Chat!Mark(k, c, kind), read)
  <2>1. CachesOK(k)
    BY <1>2 DEF Keeps
  <2>2. Keeps(k, Chat!Mark(k, c, kind), read)
    BY <2>1, MarkKeeps
  <2> QED
    BY <1>2, <2>2, KeepsTwice
<1>3. ASSUME NEW k, Keeps(kept, k, read), NEW c \in {"part", "answer", "estimate", "reply"},
             NEW of \in 0..read, NEW name \in 0..read, name # 0 => name = of
      PROVE  Keeps(kept, Chat!Put(k, c, of, name, TRUE), read)
  <2>1. CachesOK(k) /\ c \in Chat!Caches \ {"session", "context", "document"}
    BY <1>3, ChatNames DEF Keeps
  <2>2. Keeps(k, Chat!Put(k, c, of, name, TRUE), read)
    BY <1>3, <2>1, PutKeeps
  <2> QED
    BY <1>3, <2>2, KeepsTwice
<1>4. chats[m].of \in 0..read /\ chats[m].kind \in Kinds
  BY DEF Chain, ChainOK
<1>5. Keeps(kept, Chat!Probed(kept), read) /\ Keeps(kept, Chat!Clear(kept, "pending"), read)
  BY ProbedKeeps, ClearKeeps
<1>6. CASE Chat!Ask(m)
  <2>1. UNCHANGED file
    BY <1>6 DEF Chat!Ask, Chat!Quiet
  <2>2. \/ \E kind \in Kinds : Chat!Answered(m, Chat!Mark(kept, "pending", kind))
        \/ Chat!Answered(m, kept)
    <3>1. Chat!Waits(m, DOMAIN Chat!Question) => Chat!Question[chats[m].pc] \in Kinds
      BY DEF Chat!Waits, Chat!Question, Kinds
    <3> QED
      BY <1>4, <1>6, <3>1 DEF Chat!Ask
  <2> QED
    BY <1>1, <1>2, <2>1, <2>2, QuietInv
<1>7. CASE Chat!Reply(m)
  <2>1. UNCHANGED file
    BY <1>7 DEF Chat!Reply, Chat!Quiet
  <2>2. Chat!Answered(m, Chat!Probed(kept)) \/ Chat!Answered(m, kept)
    BY <1>7 DEF Chat!Reply
  <2> QED
    BY <1>1, <1>5, <2>1, <2>2, QuietInv
<1>8. CASE Chat!ShowPart(m) \/ Chat!Settle(m)
  <2> DEFINE k == IF Chat!Waits(m, {"clarify"}) THEN Chat!Clear(kept, "pending") ELSE kept
             d == k[Chat!RawCandidate(k)]
             p == Chat!Probed(k)
             a == Chat!Put(p, "part", d.of, d.name, TRUE)
             b == Chat!Mark(a, "target", "part")
             e == Chat!Put(p, "estimate", d.of, d.name, TRUE)
  <2>1. UNCHANGED file
    BY <1>8 DEF Chat!ShowPart, Chat!Settle, Chat!Quiet
  <2>2. \/ Chat!Answered(m, k)
        \/ /\ Chat!RawCandidate(k) # Chat!None
           /\ \/ Chat!Answered(m, Chat!Mark(b, "source", "document"))
              \/ Chat!Answered(m, e)
    <3>1. Chat!Settle(m) => k = Chat!Clear(kept, "pending")
      BY DEF Chat!Settle
    <3>2. CASE Chat!Settle(m)
      BY <3>1, <3>2 DEF Chat!Settle
    <3>3. CASE Chat!ShowPart(m)
      BY <3>3 DEF Chat!ShowPart
    <3> QED
      BY <1>8, <3>2, <3>3
  <2>3. Keeps(kept, k, read) /\ CachesOK(k)
    BY <1>1, <1>5 DEF Keeps
  <2> HIDE DEF k
  <2>4. Keeps(kept, p, read)
    BY <2>3, ProbedKeeps, KeepsTwice
  <2>5. ASSUME Chat!RawCandidate(k) # Chat!None
        PROVE  d.of \in 0..read /\ d.name \in 0..read /\ (d.name # 0 => d.name = d.of)
    BY <2>3, <2>5, RawOf
  <2> HIDE DEF d, p
  <2>6. ASSUME Chat!RawCandidate(k) # Chat!None
        PROVE  Keeps(kept, a, read) /\ Keeps(kept, e, read)
    BY <1>3, <2>4, <2>5, <2>6
  <2> HIDE DEF a, e
  <2>7. ASSUME Chat!RawCandidate(k) # Chat!None
        PROVE  Keeps(kept, b, read)
    BY <1>2, <2>6, <2>7 DEF Kinds
  <2> HIDE DEF b
  <2>8. ASSUME Chat!RawCandidate(k) # Chat!None
        PROVE  Keeps(kept, Chat!Mark(b, "source", "document"), read)
    BY <1>2, <2>7, <2>8 DEF Kinds
  <2> QED
    BY <2>1, <2>2, <2>3, <2>6, <2>8, QuietInv
<1>9. CASE Chat!Estimate(m)
  <2> DEFINE of == chats[m].of
  <2>1. UNCHANGED file
    BY <1>9 DEF Chat!Estimate, Chat!Quiet
  <2>2. \/ Chat!Answered(m, Chat!Put(kept, "estimate", of, of, TRUE))
        \/ Chat!Answered(m, Chat!Mark(kept, "pending", "size"))
    BY <1>9 DEF Chat!Estimate
  <2>3. Keeps(kept, Chat!Put(kept, "estimate", of, of, TRUE), read)
    BY <1>1, <1>3, <1>4
  <2>4. Keeps(kept, Chat!Mark(kept, "pending", "size"), read)
    BY <1>1, <1>2 DEF Kinds
  <2> QED
    BY <2>1, <2>2, <2>3, <2>4, QuietInv
<1>10. CASE Chat!Describe(m)
  <2> DEFINE of == chats[m].of
             a == Chat!Put(kept, "answer", of, of, TRUE)
             b == Chat!Mark(a, "target", "answer")
             c == Chat!Mark(b, "source", "document")
  <2>1. UNCHANGED file /\ Chat!Answered(m, c)
    BY <1>10 DEF Chat!Describe, Chat!Quiet
  <2>2. Keeps(kept, a, read)
    BY <1>1, <1>3, <1>4
  <2> HIDE DEF a
  <2>3. Keeps(kept, b, read)
    BY <1>2, <2>2 DEF Kinds
  <2> HIDE DEF b
  <2>4. Keeps(kept, c, read)
    BY <1>2, <2>3 DEF Kinds
  <2> QED
    BY <2>1, <2>4, QuietInv
<1>11. CASE Chat!Direct(m)
  <2> DEFINE a == Chat!Put(kept, "reply", 0, 0, TRUE)
             c == Chat!Mark(a, "source", "reply")
  <2>1. UNCHANGED file /\ Chat!Answered(m, c)
    BY <1>11 DEF Chat!Direct, Chat!Quiet
  <2>2. Keeps(kept, a, read)
    <3>1. 0 \in 0..read
      OBVIOUS
    <3> QED
      BY <1>1, <1>3, <3>1
  <2> HIDE DEF a
  <2>4. Keeps(kept, c, read)
    BY <1>2, <2>2 DEF Kinds
  <2> QED
    BY <2>1, <2>4, QuietInv
<1>12. CASE Chat!Answer(m)
  <2> DEFINE own    == /\ chats[m].kind # Chat!None /\ chats[m].of = 0
                      /\ ~Chat!Fresh(kept, "session")
             others == {n \in Chat!Messages : Alive(chats[n]) /\ own}
             bound  == IF chats[m].kind = Chat!None \/ kept["session"].there THEN read
                                                                            ELSE chats[m].of
  <2>1. /\ UNCHANGED <<read, now, file>> /\ kept' = Chat!Persisted(kept, chats[m])
        /\ chats[m].pc = "answering"
        /\ chats' = [n \in Chat!Messages |->
                        IF n = m THEN [Chat!Idle EXCEPT !.pc = "done"]
                        ELSE IF n \in others THEN [chats[n] EXCEPT !.crossed = TRUE]
                        ELSE chats[n]]
    <3>1. \A n \in Chat!Messages : Chat!UnderWay(n) = Alive(chats[n])
      BY DEF Chat!UnderWay, Alive
    <3> QED
      BY <1>12, <3>1 DEF Chat!Answer, Chat!Quiet, Chat!Waits
  <2>2. chats[m].of \in Nat /\ chats[m].of <= read
    BY <1>4
  <2>3. ASSUME chats[m].kind # Chat!None
        PROVE  /\ chats[m].sure /\ kept["session"].there => chats[m].of = read
               /\ bound = IF kept["session"].there THEN read ELSE chats[m].of
    <3>1. Settled(chats[m]) /\ ChainOK(kept, chats[m])
      BY <2>1, <2>3 DEF Settled
    <3> QED
      BY <2>2, <2>3, <3>1 DEF ChainOK
  <2>4. /\ own <=> chats[m].kind # Chat!None /\ chats[m].of = 0 /\ ~kept["session"].there
        /\ others \in SUBSET Chat!Messages
        /\ \A n \in Chat!Messages : n \in others <=> Alive(chats[n]) /\ own
    BY SessionFresh
  <2> HIDE DEF own, others
  <2>5. ASSUME NEW n \in Chat!Messages, Alive(chats'[n])
        PROVE  Owed(bound, chats'[n])
    <3>1. n # m
      <4>1. CASE n = m
        <5>1. chats'[n] = [Chat!Idle EXCEPT !.pc = "done"]
          BY <2>1, <4>1
        <5>2. chats'[n].pc = "done"
          BY <5>1 DEF Chat!Idle
        <5> QED
          BY <2>5, <5>2 DEF Alive
      <4> QED
        BY <4>1
    <3>2. /\ chats[n] \in Chain /\ chats[n].floor \in Nat /\ chats[n].floor <= read
          /\ read \in Nat
      BY DEF Chain, ChainOK
    <3>3. /\ chats'[n].floor = chats[n].floor /\ chats'[n].pc = chats[n].pc
          /\ n \in others => chats'[n].crossed
      <4>1. chats'[n] = IF n \in others THEN [chats[n] EXCEPT !.crossed = TRUE] ELSE chats[n]
        BY <2>1, <3>1
      <4> QED
        BY <3>2, <4>1 DEF Chain
    <3>4. Alive(chats[n])
      BY <2>5, <3>3 DEF Alive
    <3>5. CASE chats[m].kind = Chat!None \/ kept["session"].there
      BY <3>2, <3>3, <3>5 DEF Owed
    <3>6. CASE ~(chats[m].kind = Chat!None \/ kept["session"].there) /\ chats[m].of = 0
      <4>1. chats'[n].crossed
        BY <2>4, <3>3, <3>4, <3>6
      <4> QED
        BY <3>6, <4>1 DEF Owed
    <3>7. CASE ~(chats[m].kind = Chat!None \/ kept["session"].there) /\ chats[m].of # 0
      <4>1. Settled(chats[m])
        BY <2>1, <3>7 DEF Settled
      <4>2. chats[m].of >= chats[n].floor
        BY <3>4, <3>7, <4>1 DEF ChatInv, NewestSettled
      <4> QED
        BY <3>3, <3>7, <4>2 DEF Owed
    <3> QED
      BY <3>5, <3>6, <3>7
  <2> HIDE DEF bound
  <2>6. Keeps(kept, Chat!Persisted(kept, chats[m]), bound)
    BY <2>2, <2>3, PersistedKeeps
  <2>7. FileOK(file') /\ Keeps(kept, kept', bound)
    BY <2>1, <2>6 DEF ChatInv, FileOK, Owed
  <2> QED
    BY <2>1, <2>4, <2>5, <2>7, EndsInv
<1>13. CASE Chat!Fails(m)
  <2>1. UNCHANGED file /\ Chat!Answered(m, kept)
    BY <1>13 DEF Chat!Fails, Chat!Quiet
  <2> QED
    BY <1>1, <2>1, QuietInv
<1> QED
  BY <1>6, <1>7, <1>8, <1>9, <1>10, <1>11, <1>12, <1>13

(* A chain that goes on while the caches stay as they are. *)
LEMMA StaysInv ==
    ASSUME ChatInv, NEW m \in Chat!Messages, NEW c \in Chain, UNCHANGED <<kept, read, now, file>>,
           chats' = [chats EXCEPT ![m] = c], Alive(chats[m]), Alive(c),
           c.at = chats[m].at, c.floor = chats[m].floor, c.crossed = chats[m].crossed,
           c.of <= read,
           Settled(c) /\ c.sure => Settled(chats[m]) /\ chats[m].sure /\ c.of = chats[m].of,
           Settled(c) /\ c.of # 0 => Settled(chats[m]) /\ c.of = chats[m].of
    PROVE  ChatInv'
<1>1. ChainOK(kept, chats[m]) /\ chats[m] \in Chain /\ CachesOK(kept) /\ chats[m].floor <= read
  BY FloorsRead
<1>2. ChainOK(kept, c)
  BY <1>1 DEF ChainOK, Serves, Owed
<1>3. SettledNewest(kept, c)
  BY DEF SettledNewest, ChatInv, NewestSettled
<1>4. GoesOn(kept', c)
  BY <1>2, <1>3 DEF GoesOn
<1>5. Keeps(kept, kept', read)
  BY <1>1, KeepsSame
<1>6. FileOK(file')
  BY DEF ChatInv, FileOK, Owed
<1> QED
  BY <1>4, <1>5, <1>6, GoesInv

LEMMA PlainGoesInv ==
    ASSUME ChatInv, NEW m \in Chat!Messages,
           Chat!Digest(m) \/ Chat!ReadNothing(m) \/ Chat!ChooseMode(m)
    PROVE  ChatInv'
<1> DEFINE ch == chats[m]
<1>1. /\ ch \in Chain /\ ch.of <= read /\ ch.of \in Nat /\ read \in Nat
  BY FloorsRead DEF Chain, ChainOK
<1>2. UNCHANGED <<kept, read, now, file>>
  BY DEF Chat!Digest, Chat!ReadNothing, Chat!ChooseMode, Chat!Quiet
<1>3. CASE Chat!Digest(m)
  <2> DEFINE c == [ch EXCEPT !.pc = "describe"]
  <2>1. chats' = [chats EXCEPT ![m] = c] /\ ch.pc = "digest"
    BY <1>3 DEF Chat!Digest, Chat!Waits
  <2>2. /\ c \in Chain /\ c.pc = "describe" /\ c.at = ch.at /\ c.floor = ch.floor
        /\ c.of = ch.of /\ c.crossed = ch.crossed
    BY <1>1 DEF Chain, Places
  <2> HIDE DEF c
  <2>3. Alive(ch) /\ Alive(c) /\ ~Settled(c)
    BY <2>1, <2>2 DEF Alive, Settled
  <2> QED
    BY <1>1, <1>2, <2>1, <2>2, <2>3, StaysInv
<1>4. CASE Chat!ReadNothing(m)
  <2>1. PICK c : /\ chats' = [chats EXCEPT ![m] = c]
                 /\ \/ c = [ch EXCEPT !.pc = "direct"]
                    \/ \E mode \in {"summary", "none"} :
                          c = [ch EXCEPT !.pc = "answering", !.of = 0, !.kind = mode,
                                         !.sure = FALSE]
    BY <1>4, ChatNames DEF Chat!ReadNothing
  <2>2. /\ c \in Chain /\ c.at = ch.at /\ c.floor = ch.floor /\ c.crossed = ch.crossed
        /\ c.of <= read
        /\ c.pc = "direct" \/ (c.pc = "answering" /\ c.of = 0 /\ ~c.sure)
    <3>1. CASE c = [ch EXCEPT !.pc = "direct"]
      BY <1>1, <3>1 DEF Chain, Places
    <3>2. CASE \E mode \in {"summary", "none"} :
                  c = [ch EXCEPT !.pc = "answering", !.of = 0, !.kind = mode, !.sure = FALSE]
      <4>1. PICK mode \in {"summary", "none"} :
               c = [ch EXCEPT !.pc = "answering", !.of = 0, !.kind = mode, !.sure = FALSE]
        BY <3>2
      <4>2. mode \in Kinds /\ 0 \in Nat /\ "answering" \in Places /\ FALSE \in BOOLEAN
        BY DEF Kinds, Places
      <4>3. c \in Chain
        BY <1>1, <4>1, <4>2 DEF Chain
      <4>4. /\ c.at = ch.at /\ c.floor = ch.floor /\ c.crossed = ch.crossed
            /\ c.of = 0 /\ c.pc = "answering" /\ c.sure = FALSE
        BY <1>1, <4>1 DEF Chain
      <4> QED
        BY <1>1, <4>3, <4>4
    <3> QED
      BY <2>1, <3>1, <3>2
  <2>3. Alive(ch) /\ Alive(c)
    BY <1>4, <2>2 DEF Alive, Chat!ReadNothing, Chat!Waits
  <2>4. ~(Settled(c) /\ c.sure) /\ (Settled(c) => c.of = 0)
    BY <2>2 DEF Settled
  <2> QED
    BY <1>2, <2>1, <2>2, <2>3, <2>4, StaysInv
<1>5. CASE Chat!ChooseMode(m)
  <2>1. Settled(ch) /\ Alive(ch) /\ ch.pc \in {"intent", "mode"}
    BY <1>5 DEF Chat!ChooseMode, Chat!Waits, Settled, Alive
  <2>2. ASSUME NEW c, chats' = [chats EXCEPT ![m] = c], c = [ch EXCEPT !.pc = "direct"]
        PROVE  ChatInv'
    <3>1. /\ c \in Chain /\ c.pc = "direct" /\ c.at = ch.at /\ c.floor = ch.floor
          /\ c.of = ch.of /\ c.crossed = ch.crossed
      BY <1>1, <2>2 DEF Chain, Places
    <3>2. Alive(c) /\ ~Settled(c)
      BY <3>1 DEF Alive, Settled
    <3> QED
      BY <1>1, <1>2, <2>1, <2>2, <3>1, <3>2, StaysInv
  <2>3. ASSUME NEW c, NEW mode \in {"summary", "full"}, chats' = [chats EXCEPT ![m] = c],
               c = [ch EXCEPT !.pc = "answering", !.kind = mode]
        PROVE  ChatInv'
    <3>1. /\ c \in Chain /\ c.at = ch.at /\ c.floor = ch.floor /\ c.of = ch.of
          /\ c.pc = "answering" /\ c.sure = ch.sure /\ c.crossed = ch.crossed
      BY <1>1, <2>3 DEF Chain, Places, Kinds
    <3>2. Alive(c)
      BY <3>1 DEF Alive
    <3> QED
      BY <1>1, <1>2, <2>1, <2>3, <3>1, <3>2, StaysInv
  <2>4. ASSUME NEW c, chats' = [chats EXCEPT ![m] = c],
               c = [ch EXCEPT !.pc = "answering", !.kind = "none", !.of = 0]
        PROVE  ChatInv'
    <3>1. /\ c \in Chain /\ c.pc = "answering" /\ c.at = ch.at /\ c.floor = ch.floor
          /\ c.of = 0 /\ c.kind = "none" /\ c.crossed = ch.crossed
      BY <1>1, <2>4 DEF Chain, Places, Kinds
    <3>2. Alive(c) /\ ~Settled(c)
      BY <3>1, ChatNames DEF Alive, Settled
    <3>3. c.of <= read
      BY <1>1, <3>1
    <3> QED
      BY <1>2, <2>1, <2>4, <3>1, <3>2, <3>3, StaysInv
  <2>5. \/ chats' = [chats EXCEPT ![m] = [ch EXCEPT !.pc = "direct"]]
        \/ \E mode \in {"summary", "full"} :
              chats' = [chats EXCEPT ![m] = [ch EXCEPT !.pc = "answering", !.kind = mode]]
        \/ chats' = [chats EXCEPT ![m] =
                       [ch EXCEPT !.pc = "answering", !.kind = "none", !.of = 0]]
    BY <1>5, ChatNames DEF Chat!ChooseMode
  <2> QED
    BY <2>2, <2>3, <2>4, <2>5
<1> QED
  BY <1>3, <1>4, <1>5

LEMMA PassOverInv ==
    ASSUME ChatInv, NEW m \in Chat!Messages, Chat!PassOver(m)
    PROVE  ChatInv'
<1> DEFINE ch == chats[m]
           i  == Chat!Position(ch.pc) + 1
<1>1. PICK j \in 2..7 : ch.pc = Chat!Flows[j]
  BY FlowsAre DEF Chat!PassOver, Chat!Waits
<1>2. Chat!Position(ch.pc) = j
  <2>1. \A x, y \in 1..7 : Chat!Flows[x] = Chat!Flows[y] => x = y
    <3>1. \A x \in 1..7 : x = 1 \/ x = 2 \/ x = 3 \/ x = 4 \/ x = 5 \/ x = 6 \/ x = 7
      OBVIOUS
    <3> QED
      BY <3>1, FlowsAre
  <2>2. j \in 1..7
    OBVIOUS
  <2> QED
    BY <1>1, <2>1, <2>2, FlowsAre DEF Chat!Position
<1>3. i \in 1..8
  BY <1>1, <1>2
<1>4. Alive(ch)
  <2>1. j = 2 \/ j = 3 \/ j = 4 \/ j = 5 \/ j = 6 \/ j = 7
    OBVIOUS
  <2> QED
    BY <1>1, <2>1, FlowsAre DEF Alive
<1>5. /\ now \in Nat /\ read \in Nat /\ CachesOK(kept) /\ ch \in Chain /\ ChainOK(kept, ch)
  BY FloorsRead
<1>6. ch.at <= now /\ now - ch.at <= MaxFlight["chat"] /\ Serves(kept, ch)
  BY <1>4, <1>5 DEF ChainOK
<1>8. Chat!GoOn(m, ch, kept, i) /\ UNCHANGED <<read, now, file>>
  BY DEF Chat!PassOver, Chat!Quiet
<1> HIDE DEF i
<1>9. /\ Keeps(kept, kept', read)
      /\ \E c \in Chain : /\ chats' = [chats EXCEPT ![m] = c]
                          /\ GoesOn(kept, c) /\ c.at = ch.at /\ c.floor = ch.floor
  BY <1>3, <1>5, <1>6, <1>8, GoOnGoes
<1>10. PICK c \in Chain : /\ chats' = [chats EXCEPT ![m] = c]
                          /\ GoesOn(kept, c) /\ c.at = ch.at /\ c.floor = ch.floor
  BY <1>9
<1>11. GoesOn(kept', c)
  <2>1. ChainOK(kept', c)
    <3>1. ChainOK(kept, c) /\ Owed(read, c)
      BY <1>5, <1>10 DEF GoesOn, ChainOK, Owed, Chain
    <3> QED
      BY <1>5, <1>9, <1>10, <3>1, ChainStays
  <2> QED
    BY <1>9, <1>10, <2>1 DEF GoesOn, SettledNewest, Keeps
<1>12. FileOK(file')
  BY <1>8 DEF ChatInv, FileOK, Owed
<1> QED
  BY <1>4, <1>8, <1>9, <1>10, <1>11, <1>12, GoesInv

LEMMA ArriveInv ==
    ASSUME ChatInv, NEW m \in Chat!Messages, Chat!Arrive(m)
    PROVE  ChatInv'
<1> DEFINE h     == Chat!Hydrated(kept)
           floor == IF Chat!Fresh(h, "session") THEN h["session"].of ELSE 0
           k     == IF /\ Chat!Fresh(h, "pending") /\ ~Chat!Fresh(h, "estimate")
                       /\ h["pending"].kind \in Chat!NeedsEstimate
                    THEN Chat!Clear(h, "pending") ELSE h
<1>1. /\ now \in Nat /\ read \in Nat /\ CachesOK(kept) /\ chats[m] \in Chain
      /\ ChainOK(kept, chats[m]) /\ chats[m].pc = "new"
  BY FloorsRead DEF Chat!Arrive
<1>2. PICK t \in BOOLEAN, f \in BOOLEAN, l \in {k, h} :
         Chat!GoOn(m, [chats[m] EXCEPT !.text = t, !.file = f, !.at = now, !.floor = floor], l, 1)
  BY DEF Chat!Arrive
<1>3. UNCHANGED <<read, now, file>>
  BY DEF Chat!Arrive
<1> DEFINE ch == [chats[m] EXCEPT !.text = t, !.file = f, !.at = now, !.floor = floor]
<1>4. /\ Keeps(kept, h, read) /\ CachesOK(h) /\ h["session"] = kept["session"]
      /\ \A d \in Chain :
            d.at = now /\ d.floor = (IF kept["session"].there THEN read ELSE 0) => Serves(h, d)
  BY <1>1, HydratedKeeps DEF Keeps
<1>5. floor = IF kept["session"].there THEN read ELSE 0
  BY <1>4, SessionFresh DEF CachesOK
<1> HIDE DEF h
<1>6. Keeps(h, h, read) /\ Keeps(h, Chat!Clear(h, "pending"), read)
  BY <1>1, <1>4, KeepsSame, ClearKeeps
<1>7. Keeps(h, l, read) /\ CachesOK(l)
  BY <1>2, <1>6 DEF Keeps
<1>8. l["session"].there = kept["session"].there
  BY <1>4, <1>7 DEF Keeps
<1> HIDE DEF floor
<1>9. floor \in 0..read /\ floor \in Nat
  BY <1>1, <1>5
<1>10. /\ ch \in Chain /\ ch.pc = "new" /\ ch.of = chats[m].of /\ ch.at = now
       /\ ch.floor = floor
  BY <1>1, <1>9 DEF Chain
<1> HIDE DEF ch
<1>11. Serves(h, ch) /\ Serves(l, ch)
  <2>1. Serves(h, ch)
    BY <1>4, <1>5, <1>10
  <2>2. Owed(read, ch)
    BY <1>1, <1>9, <1>10 DEF Owed
  <2> QED
    BY <1>7, <1>10, <2>1, <2>2 DEF Keeps
<1>12. ChainOK(l, ch) /\ now - ch.at <= MaxFlight["chat"] /\ ch.at <= now
  <2>1. ~Settled(ch) /\ ~Alive(ch)
    BY <1>10 DEF Settled, Alive
  <2>2. now - ch.at <= MaxFlight["chat"] /\ ch.at <= now
    BY <1>1, <1>10, ChatAssumption
  <2>3. ch.of <= read /\ ch.floor <= read
    BY <1>1, <1>9, <1>10 DEF ChainOK
  <2> QED
    BY <2>1, <2>2, <2>3 DEF ChainOK
<1>13. Keeps(kept, l, read)
  BY <1>1, <1>4, <1>7, KeepsTwice
<1>15. Chat!GoOn(m, ch, l, 1) /\ 1 \in 1..8
  BY <1>2 DEF ch
<1>16. /\ Keeps(l, kept', read)
       /\ \E c \in Chain : /\ chats' = [chats EXCEPT ![m] = c]
                           /\ GoesOn(l, c) /\ c.at = ch.at /\ c.floor = ch.floor
  BY <1>1, <1>7, <1>10, <1>11, <1>12, <1>15, GoOnGoes
<1>17. PICK c \in Chain : /\ chats' = [chats EXCEPT ![m] = c]
                          /\ GoesOn(l, c) /\ c.at = ch.at /\ c.floor = ch.floor
  BY <1>16
<1>18. GoesOn(kept', c)
  <2>1. ChainOK(kept', c)
    <3>1. ChainOK(l, c) /\ Owed(read, c)
      BY <1>1, <1>17 DEF GoesOn, ChainOK, Owed, Chain
    <3> QED
      BY <1>1, <1>7, <1>16, <1>17, <3>1, ChainStays
  <2> QED
    BY <1>16, <1>17, <2>1 DEF GoesOn, SettledNewest, Keeps
<1>19. Keeps(kept, kept', read)
  BY <1>1, <1>13, <1>16, KeepsTwice
<1>20. FileOK(file')
  BY <1>3 DEF ChatInv, FileOK, Owed
<1>21. c.floor = 0 \/ kept["session"].there
  BY <1>5, <1>10, <1>17
<1> QED
  BY <1>3, <1>17, <1>18, <1>19, <1>20, <1>21, GoesInv

(* processIncomingFile: the document is the newest there is, and every     *)
(* other message under way is overtaken.                                   *)
LEMMA ReadDocumentInv ==
    ASSUME ChatInv, NEW m \in Chat!Messages, Chat!ReadDocument(m)
    PROVE  ChatInv'
<1> DEFINE e  == [there |-> TRUE, kind |-> Chat!None, of |-> read', name |-> read', at |-> now,
                  sure |-> TRUE]
           ch == chats[m]
           c  == [ch EXCEPT !.of = read', !.kind = "summary",
                            !.pc = IF ch.text THEN "mode" ELSE "answering"]
<1>1. /\ now \in Nat /\ read \in Nat /\ CachesOK(kept) /\ ch \in Chain /\ ChainOK(kept, ch)
      /\ kept \in [Chat!Caches -> Entry] /\ chats \in [Chat!Messages -> Chain]
  BY FloorsRead DEF CachesOK, ChatInv
<1>2. /\ read' = read + 1 /\ read' \in Chat!Docs /\ UNCHANGED <<now, file>>
      /\ kept' = [kept EXCEPT !["session"] = e]
      /\ ch.pc = "reading"
      /\ chats' = [n \in Chat!Messages |->
           IF n = m THEN c
           ELSE IF Alive(chats[n]) THEN [chats[n] EXCEPT !.sure = FALSE] ELSE chats[n]]
  <2>1. read' = read + 1 /\ UNCHANGED <<now, file>> /\ ch.pc = "reading" /\ read < MaxDocs
    BY DEF Chat!ReadDocument, Chat!Quiet, Chat!Waits
  <2>2. read' \in Chat!Docs
    BY <1>1, <2>1, ChatAssumption DEF Chat!Docs
  <2>3. kept' = [kept EXCEPT !["session"] = e]
    BY DEF Chat!ReadDocument, Chat!Put
  <2>4. \A n \in Chat!Messages : Chat!UnderWay(n) = Alive(chats[n])
    BY DEF Chat!UnderWay, Alive
  <2>5. chats' = [n \in Chat!Messages |->
           IF n = m THEN c
           ELSE IF Alive(chats[n]) THEN [chats[n] EXCEPT !.sure = FALSE] ELSE chats[n]]
    BY <2>4, ChatNames DEF Chat!ReadDocument
  <2> QED
    BY <2>1, <2>2, <2>3, <2>5
<1>3. e \in Entry
  <2>1. read' \in Nat /\ Chat!None \in Kinds
    BY <1>1, <1>2, ChatNames DEF Kinds
  <2> QED
    BY <1>1, <2>1 DEF Entry
<1>4. /\ kept' \in [Chat!Caches -> Entry] /\ kept'["session"] = e
      /\ \A x \in Chat!Caches \ {"session"} : kept'[x] = kept[x]
  BY <1>1, <1>2, <1>3, ChatNames
<1>5. CachesOK(kept)'
  <2>1. ASSUME NEW x \in Chat!Caches
        PROVE  kept'[x].of <= read' /\ kept'[x].name <= read' /\ kept'[x].at <= now'
    <3>1. CASE x = "session"
      BY <1>1, <1>2, <1>4, <3>1
    <3>2. CASE x # "session"
      <4>1. kept[x] \in Entry /\ kept[x].of <= read /\ kept[x].name <= read /\ kept[x].at <= now
        BY <1>1 DEF CachesOK
      <4> QED
        BY <1>1, <1>2, <1>4, <3>2, <4>1 DEF Entry
    <3> QED
      BY <3>1, <3>2
  <2>2. /\ kept'["session"].of = read' /\ read' > 0
        /\ now' - kept'["session"].at <= ChatWindow
    BY <1>1, <1>2, <1>4, ChatAssumption
  <2>3. \A x \in {"session", "context", "document"} :
           kept'[x].name # 0 => kept'[x].name = kept'[x].of
    BY <1>1, <1>4, ChatNames DEF CachesOK
  <2>4. \A t \in Chat!Texts :
           kept'[t].sure /\ kept'[t].name # 0 => kept'[t].name = kept'[t].of
    BY <1>1, <1>4, ChatNames DEF CachesOK
  <2> QED
    BY <1>4, <2>1, <2>2, <2>3, <2>4 DEF CachesOK
<1>6. kept'["session"].there /\ kept'["session"].at = now'
      /\ kept'["document"] = kept["document"] /\ kept'["context"] = kept["context"]
  BY <1>2, <1>4, ChatNames
<1>7. ASSUME NEW n \in Chat!Messages
      PROVE  chats'[n] \in Chain /\ ChainOK(kept, chats[n])'
  <2>1. /\ chats[n] \in Chain /\ ChainOK(kept, chats[n])
        /\ chats[n].of \in Nat /\ chats[n].floor \in Nat /\ chats[n].at \in Nat
    BY FloorsRead DEF Chain
  <2>2. CASE n = m
    <3>1. chats'[n] = c
      BY <1>2, <2>2
    <3>2. read' \in Nat
      BY <1>1, <1>2
    <3>3. c \in Chain /\ c.of = read' /\ c.floor = ch.floor /\ c.at = ch.at
          /\ c.crossed = ch.crossed
      BY <1>1, <3>2 DEF Chain, Places, Kinds
    <3>4. Alive(ch)
      BY <1>2 DEF Alive
    <3> HIDE DEF c
    <3> QED
      BY <1>1, <1>2, <1>6, <2>1, <2>2, <3>1, <3>2, <3>3, <3>4 DEF ChainOK, Serves, Owed
  <2>3. CASE n # m /\ Alive(chats[n])
    <3> DEFINE d == [chats[n] EXCEPT !.sure = FALSE]
    <3>1. chats'[n] = d
      BY <1>2, <2>3
    <3>2. d \in Chain /\ ~d.sure /\ d.of = chats[n].of /\ d.floor = chats[n].floor
          /\ d.at = chats[n].at /\ d.crossed = chats[n].crossed
      BY <2>1 DEF Chain
    <3> HIDE DEF d
    <3>3. /\ chats[n].at <= now /\ now - chats[n].at <= MaxFlight["chat"]
          /\ Serves(kept, chats[n])
      BY <2>1, <2>3 DEF ChainOK
    <3>4. d.of <= read' /\ d.floor <= read'
      BY <1>1, <1>2, <2>1, <3>2 DEF ChainOK
    <3>5. d.at <= now' /\ now' - d.at <= MaxFlight["chat"]
      BY <1>1, <1>2, <2>1, <3>2, <3>3
    <3>6. Serves(kept, chats[n])'
      BY <1>6, <3>1, <3>2, <3>3, <3>5 DEF Serves, Owed
    <3>7. d.at <= kept'["session"].at
      BY <1>6, <3>5
    <3> QED
      BY <3>1, <3>2, <3>4, <3>5, <3>6, <3>7 DEF ChainOK
  <2>4. CASE n # m /\ ~Alive(chats[n])
    <3>1. chats'[n] = chats[n]
      BY <1>2, <2>4
    <3>2. ~Settled(chats[n])
      BY <2>4 DEF Alive, Settled
    <3> QED
      BY <1>1, <1>2, <2>1, <2>4, <3>1, <3>2 DEF ChainOK
  <2> QED
    BY <2>2, <2>3, <2>4
<1>8. chats' \in [Chat!Messages -> Chain]
  BY <1>2, <1>7
<1>9. NewestSettled(kept, chats)'
  BY <1>6 DEF NewestSettled
<1> QED
  BY <1>2, <1>5, <1>7, <1>8, <1>9 DEF ChatInv, FileOK, Owed

-----------------------------------------------------------------------------
(* Time: what is past its window goes.  The document that a message under  *)
(* way counts on was saved since it came in, and outlasts it; and when the *)
(* session goes, whatever has settled came in after it was read, so it has *)
(* settled on the newest, or on no document.                               *)
LEMMA TickInv ==
    ASSUME ChatInv, Chat!Tick
    PROVE  ChatInv'
<1>1. /\ now \in Nat /\ read \in Nat /\ CachesOK(kept) /\ now < MaxTime["chat"]
      /\ kept \in [Chat!Caches -> Entry] /\ now \in 0..MaxTime["chat"]
      /\ MaxTime["chat"] \in Nat
  BY FloorsRead, ChatAssumption DEF CachesOK, ChatInv, Chat!Tick
<1>2. /\ now' = now + 1 /\ UNCHANGED <<chats, read, file>>
      /\ kept' = [c \in Chat!Caches |-> IF now' - kept[c].at <= Chat!Lasts(c)
                                        THEN kept[c] ELSE Chat!Absent]
      /\ \A m \in Chat!Messages : Alive(chats[m]) => now - chats[m].at < MaxFlight["chat"]
  BY DEF Chat!Tick, Chat!Quiet, Alive, Chat!UnderWay
<1>3. now' \in 0..MaxTime["chat"] /\ now' \in Nat /\ now <= now'
  BY <1>1, <1>2
<1>4. Chat!Absent \in Entry /\ Chat!Absent.there = FALSE /\ Chat!Absent.of = 0
      /\ Chat!Absent.name = 0 /\ Chat!Absent.at = 0
  BY ChatNames DEF Chat!Absent
<1>5. ASSUME NEW c \in Chat!Caches
      PROVE  /\ kept'[c] = kept[c] \/ kept'[c] = Chat!Absent
             /\ kept'[c].there => kept'[c] = kept[c]
             /\ kept[c].there /\ ~kept'[c].there => ~(now' - kept[c].at <= Chat!Lasts(c))
             /\ kept[c] \in Entry /\ kept'[c] \in Entry
             /\ kept[c].of <= read /\ kept[c].name <= read /\ kept[c].at <= now
  BY <1>1, <1>2, <1>4 DEF CachesOK
<1>6. {"session", "context", "document"} \subseteq Chat!Caches /\ Chat!Texts \subseteq Chat!Caches
  BY ChatNames
<1>7. kept' \in [Chat!Caches -> Entry]
  BY <1>2, <1>5
<1>8. Chat!Lasts("session") = ChatWindow /\ Chat!Lasts("document") = ChatWindow
  BY DEF Chat!Lasts
<1>9. CachesOK(kept)'
  <2>1. ASSUME NEW x \in Chat!Caches
        PROVE  kept'[x].of <= read' /\ kept'[x].name <= read' /\ kept'[x].at <= now'
    <3>1. kept[x].at \in Nat
      BY <1>5 DEF Entry
    <3> QED
      BY <1>1, <1>2, <1>3, <1>4, <1>5, <3>1
  <2>2. kept'["session"].there =>
           /\ kept'["session"].of = read' /\ read' > 0
           /\ now' - kept'["session"].at <= ChatWindow
    <3>1. kept'["session"].there => now' - kept["session"].at <= ChatWindow
      BY <1>2, <1>4, <1>6, <1>8
    <3> QED
      BY <1>1, <1>2, <1>5, <1>6, <3>1 DEF CachesOK
  <2>3. \A x \in {"session", "context", "document"} :
           kept'[x].name # 0 => kept'[x].name = kept'[x].of
    BY <1>1, <1>4, <1>5, <1>6 DEF CachesOK
  <2>4. \A t \in Chat!Texts :
           kept'[t].sure /\ kept'[t].name # 0 => kept'[t].name = kept'[t].of
    BY <1>1, <1>4, <1>5, <1>6 DEF CachesOK
  <2> QED
    BY <1>7, <2>1, <2>2, <2>3, <2>4 DEF CachesOK
<1>10. ASSUME NEW m \in Chat!Messages
       PROVE  /\ chats[m] \in Chain /\ chats'[m] = chats[m]
              /\ chats[m].of \in Nat /\ chats[m].floor \in Nat /\ chats[m].at \in Nat
              /\ chats[m].of <= read /\ chats[m].floor <= read
              /\ Alive(chats[m]) => /\ chats[m].at <= now
                                    /\ now' - chats[m].at <= MaxFlight["chat"]
                                    /\ Serves(kept, chats[m])
              /\ Settled(chats[m]) /\ chats[m].sure /\ kept["session"].there => chats[m].of = read
              /\ Settled(chats[m]) /\ kept["session"].there =>
                    \/ chats[m].at <= kept["session"].at
                    \/ chats[m].of = read \/ chats[m].of = 0
  <2>1. chats[m] \in Chain /\ ChainOK(kept, chats[m])
    BY FloorsRead
  <2>2. MaxFlight["chat"] \in Nat /\ chats[m].at \in Nat
    BY <2>1, ChatAssumption DEF Chain
  <2>3. Alive(chats[m]) => now' - chats[m].at <= MaxFlight["chat"]
    BY <1>1, <1>2, <2>2
  <2> QED
    BY <1>2, <2>1, <2>3 DEF ChainOK, Chain
<1>11. ASSUME NEW m \in Chat!Messages, Alive(chats[m])
       PROVE  Serves(kept, chats[m])'
  <2>1. Serves(kept, chats[m]) /\ chats'[m] = chats[m] /\ chats[m].at <= now'
    BY <1>1, <1>2, <1>10, <1>11
  <2>2. ASSUME chats[m].floor > 0
        PROVE  kept'["document"] = kept["document"]
    <3>1. kept["document"].there /\ kept["document"].at >= chats[m].at
      BY <2>1, <2>2 DEF Serves
    <3>2. kept["document"].at \in Nat /\ ChatWindow \in Nat /\ MaxFlight["chat"] \in Nat
      BY <1>5, <1>6, ChatAssumption DEF Entry
    <3>3. now' - kept["document"].at <= ChatWindow
      BY <1>3, <1>10, <1>11, <3>1, <3>2, ChatAssumption
    <3> QED
      BY <1>2, <1>6, <1>8, <3>3
  <2>3. kept'["context"].there => kept'["context"] = kept["context"]
    BY <1>5, <1>6
  <2> QED
    BY <2>1, <2>2, <2>3 DEF Serves, Owed
<1>12. ASSUME NEW m \in Chat!Messages
       PROVE  ChainOK(kept, chats[m])'
  <2>1. kept'["session"].there => kept'["session"] = kept["session"]
    BY <1>5, <1>6
  <2>2. Alive(chats[m]) => /\ chats[m].at <= now' /\ now' - chats[m].at <= MaxFlight["chat"]
                           /\ Serves(kept, chats[m])'
    BY <1>1, <1>2, <1>10, <1>11
  <2> QED
    BY <1>2, <1>10, <2>1, <2>2 DEF ChainOK
<1>13. NewestSettled(kept, chats)'
  <2> SUFFICES ASSUME ~kept'["session"].there, NEW m \in Chat!Messages, NEW n \in Chat!Messages,
                      Settled(chats[m]), Alive(chats[n])
               PROVE  chats[m].of >= chats[n].floor \/ chats[m].of = 0
    BY <1>2 DEF NewestSettled
  <2>1. CASE ~kept["session"].there
    BY <2>1 DEF ChatInv, NewestSettled
  <2>2. CASE kept["session"].there
    <3>1. ~(now' - kept["session"].at <= ChatWindow)
      BY <1>5, <1>6, <1>8, <2>2
    <3>2. kept["session"].at \in Nat /\ ChatWindow \in Nat /\ MaxFlight["chat"] \in Nat
      BY <1>5, <1>6, ChatAssumption DEF Entry
    <3>3. Alive(chats[m])
      BY DEF Settled, Alive
    <3>4. ~(chats[m].at <= kept["session"].at)
      BY <1>3, <1>10, <3>1, <3>2, <3>3, ChatAssumption
    <3> QED
      BY <1>10, <2>2, <3>4
  <2> QED
    BY <2>1, <2>2
<1> QED
  BY <1>2, <1>3, <1>9, <1>12, <1>13 DEF ChatInv, FileOK, Owed

LEMMA ChatInit ==
    ASSUME Chat!Init
    PROVE  ChatInv
<1>1. /\ Chat!Absent \in Entry /\ Chat!Absent.there = FALSE /\ Chat!Absent.of = 0
      /\ Chat!Absent.name = 0 /\ Chat!Absent.at = 0
      /\ Chat!Idle \in Chain /\ Chat!Idle.pc = "new" /\ Chat!Idle.of = 0 /\ Chat!Idle.floor = 0
  BY ChatNames DEF Chat!Absent, Chat!Idle
<1>2. /\ kept = [c \in Chat!Caches |-> Chat!Absent] /\ chats = [m \in Chat!Messages |-> Chat!Idle]
      /\ read = 0 /\ now = 0 /\ file = [of |-> 0, floor |-> 0, crossed |-> FALSE]
  BY DEF Chat!Init, Chat!Nothing
<1>3. read \in Chat!Docs /\ now \in 0..MaxTime["chat"]
  BY <1>2, ChatAssumption DEF Chat!Docs
<1>4. {"session", "context", "document"} \subseteq Chat!Caches /\ Chat!Texts \subseteq Chat!Caches
  BY ChatNames
<1>5. CachesOK(kept)
  BY <1>1, <1>2, <1>4 DEF CachesOK
<1>6. \A m \in Chat!Messages :
         chats[m] \in Chain /\ ChainOK(kept, chats[m]) /\ ~Settled(chats[m])
  BY <1>1, <1>2 DEF ChainOK, Alive, Settled
<1>7. chats \in [Chat!Messages -> Chain]
  BY <1>1, <1>2
<1>8. FileOK(file)
  BY <1>2 DEF FileOK, Owed
<1> QED
  BY <1>3, <1>5, <1>6, <1>7, <1>8 DEF ChatInv, NewestSettled

LEMMA ChatStep ==
    ASSUME ChatInv, [Chat!Next]_(Chat!chatVars)
    PROVE  ChatInv'
<1>1. CASE UNCHANGED Chat!chatVars
  BY <1>1 DEF Chat!chatVars, ChatInv, CachesOK, ChainOK, Serves, Owed, NewestSettled, FileOK
<1>2. ASSUME NEW m \in Chat!Messages,
             \/ Chat!Export(m) \/ Chat!ExportTarget(m)
             \/ Chat!SettleSource(m) \/ Chat!SettleTarget(m)
      PROVE  ChatInv'
  BY <1>2, ExportsInv
<1>3. ASSUME NEW m \in Chat!Messages,
             \/ Chat!Ask(m) \/ Chat!Reply(m) \/ Chat!ShowPart(m) \/ Chat!Settle(m)
             \/ Chat!Estimate(m) \/ Chat!Describe(m) \/ Chat!Direct(m) \/ Chat!Answer(m)
             \/ Chat!Fails(m)
      PROVE  ChatInv'
  BY <1>3, AnswersInv
<1>4. ASSUME NEW m \in Chat!Messages, Chat!Digest(m) \/ Chat!ReadNothing(m) \/ Chat!ChooseMode(m)
      PROVE  ChatInv'
  BY <1>4, PlainGoesInv
<1> QED
  BY <1>1, <1>2, <1>3, <1>4, PassOverInv, ArriveInv, ReadDocumentInv, TickInv DEF Chat!Next

(* The memory of a chat: at every message of every conversation, its       *)
(* caches agree about the document read last; and once the session is gone *)
(* a chain under way has settled on no document older than what another    *)
(* found there, so that "the document" is older for none, or, where the    *)
(* answer about a file without text saved its own message for it, is none  *)
(* (chat.js and the caches of src/bot/handlers/chat).                      *)
THEOREM ChatInvariant == ProcessSpec => [](used = "chat" => ChatInv)
<1> DEFINE Inv == used = "chat" => ChatInv
<1>1. ProcessInit => Inv
  BY ChatInit DEF ProcessInit
<1>2. Inv /\ [ProcessNext]_processVars => Inv'
  <2> SUFFICES ASSUME Inv, [ProcessNext]_processVars, used' = "chat"
               PROVE  ChatInv'
    OBVIOUS
  <2>1. used = "chat" /\ [Chat!Next]_(Chat!chatVars)
    BY DEF ProcessNext, processVars, chatMaps, Chat!chatVars
  <2> QED
    BY <2>1, ChatStep
<1> QED
  BY <1>1, <1>2, PTL DEF ProcessSpec, processVars

(* However the chains of other messages about older documents save theirs  *)
(* in between, a file with the full text of the document is that of the    *)
(* document read last when the request came in, or of a newer one, or it   *)
(* holds the message that was saved for the document while the request was *)
(* under way; never an older document (sendCreatedExportFile of the export *)
(* handlers, handlePostAiExportPersistence).                               *)
THEOREM FullTextIsNewestHolds == ProcessSpec => []FullTextIsNewest
<1>1. (used = "chat" => ChatInv) => FullTextIsNewest
  <2> SUFFICES ASSUME ChatInv
               PROVE  Chat!TypeOK /\ Chat!FullTextIsNewest
    BY DEF FullTextIsNewest
  <2> QED
    BY DEF ChatInv, CachesOK, ChainOK, FileOK, Owed, Chat!TypeOK, Chat!FullTextIsNewest
<1> QED
  BY <1>1, ChatInvariant, PTL

(* A summary, a part or an answer is kept under the name of the document   *)
(* it is of, unless another document was read while it was being made      *)
(* (handlePostAiExportPersistence).                                        *)
THEOREM NamesMatchHolds == ProcessSpec => []NamesMatch
<1>1. (used = "chat" => ChatInv) => NamesMatch
  BY DEF NamesMatch, ChatInv, CachesOK, Chat!NamesMatch
<1> QED
  BY <1>1, ChatInvariant, PTL

-----------------------------------------------------------------------------
(* Recall: the pages of a chat's messages (recall.js, RecallEngine.js)     *)

Cursors == [at : Nat, id : Nat, limit : Nat, keyword : History!Keywords, chat : Chats \cup {""},
            list : Nat, there : SUBSET Nat, paged : SUBSET Nat, blurred : SUBSET Nat,
            whole : BOOLEAN]
Commanded == [pc : {"idle", "search", "keep", "send"}, chat : Chats \cup {""}, from : Cursors,
              page : SUBSET Nat, more : BOOLEAN]
Row == [chat : Chats, has : Wordings, at : Nat]

(* The messages have the order of their ids and of time. *)
MessagesOK ==
    /\ \E n \in 0..MaxRows : messages \in [1..n -> Row]
    /\ \A i \in DOMAIN messages : messages[i].at <= now
    /\ \A i, j \in DOMAIN messages : i < j => messages[i].at <= messages[j].at

(* What was on a page is not below a cursor, and what was there, has the   *)
(* keyword and is not below was on a page, or shared the millisecond of an *)
(* end of one.                                                             *)
Good(cursor) ==
    /\ cursor.paged \subseteq DOMAIN messages /\ cursor.there \subseteq DOMAIN messages
    /\ cursor.limit > 0
    /\ \A i \in cursor.paged : ~History!Below(cursor, i)
    /\ cursor.whole => \A i \in cursor.there \cap History!Young :
                          /\ i \in History!Recent(cursor.chat, cursor.keyword)
                          /\ i \in cursor.paged \cup cursor.blurred \/ History!Below(cursor, i)

(* A page not yet shown: it is below its cursor, and what is still to come *)
(* is below the page.                                                      *)
PageOK(query) ==
    LET from == query.from IN
    /\ query.page \subseteq DOMAIN messages /\ (query.more => query.page # {})
    /\ \A i \in query.page : History!Below(from, i) /\ i \notin from.paged
    /\ from.whole => \A i \in from.there \cap History!Young :
          \/ i \in from.paged \cup query.page \cup from.blurred
          \/ query.more /\ History!Below(from, i) /\ \A j \in query.page : i < j

CallOK(query) ==
    /\ query.pc # "idle" => /\ Good(query.from)
                            /\ query.from.whole => query.from.chat = query.chat
    /\ query.pc = "search" => /\ query.page = {} /\ ~query.more
                              /\ query.from.paged = {} => query.from.at = MaxTime["recall"] + 1
    /\ query.pc \in {"keep", "send"} => PageOK(query)

(* The messages of all pages that were shown, could not be, or are on      *)
(* their way, each with its /recall; those of a cursor are among them: the *)
(* stored cursor is ahead of its page, which is then on its way.           *)
Sheets == shown \cup lost \cup History!OnTheirWay
Sheet(cursor, i) == [list |-> cursor.list, id |-> i]
OnSheets(cursor) == \A i \in cursor.paged : Sheet(cursor, i) \in Sheets

(* The cursors a user may go on from. *)
Held == given \cup ({store} \ {History!NoCursor, History!End})
HeldOK == \A cursor \in Held :
             cursor \in Cursors /\ Good(cursor) /\ OnSheets(cursor) /\ cursor.paged # {}
CallsSeen == \A c \in Recalls : pages[c].pc # "idle" => OnSheets(pages[c].from)

RecallInv ==
    /\ now \in 0..MaxTime["recall"] /\ asked \in Nat /\ MessagesOK /\ HeldOK
    /\ pages \in [Recalls -> Commanded]
    /\ \A c \in Recalls : CallOK(pages[c])
    /\ CallsSeen
    /\ History!PagesExact

(* Messages only come, and time passes. *)
Grows == /\ DOMAIN messages \subseteq DOMAIN messages' /\ now <= now'
         /\ \A i \in DOMAIN messages : messages'[i] = messages[i]

LEMMA RecallTypes ==
    ASSUME RecallInv
    PROVE  /\ now \in Nat /\ now <= MaxTime["recall"]
           /\ DOMAIN messages \subseteq Nat \ {0} /\ IsFiniteSet(DOMAIN messages)
           /\ \A i \in DOMAIN messages : messages[i].at \in Nat /\ messages[i].at <= now
           /\ \A i, j \in DOMAIN messages : i < j => messages[i].at <= messages[j].at
<1>1. PICK n \in 0..MaxRows : messages \in [1..n -> Row]
  BY DEF RecallInv, MessagesOK
<1>2. IsFiniteSet(1..n) /\ DOMAIN messages = 1..n /\ n \in Nat
  BY <1>1, FS_Interval, RecallAssumption
<1> QED
  BY <1>1, <1>2, RecallAssumption DEF RecallInv, MessagesOK, Row

LEMMA YoungShrinks ==
    ASSUME RecallInv, Grows, now' \in Nat, NEW i \in DOMAIN messages, i \in History!Young'
    PROVE  /\ i \in History!Young
           /\ \A chat, keyword : i \in History!Recent(chat, keyword) =>
                                    i \in History!Recent(chat, keyword)'
<1>1. i \in History!Young
  BY RecallTypes, RecallAssumption DEF Grows, History!Young
<1> QED
  BY <1>1 DEF Grows, History!Recent

LEMMA GoodGrows ==
    ASSUME RecallInv, Grows, now' \in Nat, NEW cursor \in Cursors, Good(cursor)
    PROVE  Good(cursor)'
<1>1. \A i \in DOMAIN messages : History!Below(cursor, i)' <=> History!Below(cursor, i)
  BY DEF Grows, History!Below
<1>2. ASSUME cursor.whole, NEW i \in cursor.there, i \in History!Young'
      PROVE  /\ i \in History!Recent(cursor.chat, cursor.keyword)'
             /\ i \in cursor.paged \cup cursor.blurred \/ History!Below(cursor, i)'
  <2>1. i \in DOMAIN messages
    BY DEF Good
  <2>2. i \in History!Young
    BY <1>2, <2>1, YoungShrinks
  <2>3. /\ i \in History!Recent(cursor.chat, cursor.keyword)
        /\ i \in cursor.paged \cup cursor.blurred \/ History!Below(cursor, i)
    BY <1>2, <2>2 DEF Good
  <2> QED
    BY <1>1, <1>2, <2>1, <2>3, YoungShrinks
<1>3. \A i \in cursor.paged : ~History!Below(cursor, i)'
  BY <1>1 DEF Good
<1>4. /\ cursor.paged \subseteq DOMAIN messages' /\ cursor.there \subseteq DOMAIN messages'
      /\ cursor.limit > 0
  BY DEF Good, Grows
<1> QED
  BY <1>2, <1>3, <1>4 DEF Good

LEMMA CallGrows ==
    ASSUME RecallInv, Grows, now' \in Nat, NEW query \in Commanded, CallOK(query)
    PROVE  CallOK(query)'
<1>1. \A i \in DOMAIN messages : History!Below(query.from, i)' <=> History!Below(query.from, i)
  BY DEF Grows, History!Below
<1>2. \A i \in DOMAIN messages : i \in History!Young' => i \in History!Young
  BY YoungShrinks
<1>3. query.from \in Cursors
  BY DEF Commanded
<1>4. query.pc # "idle" => Good(query.from) /\ Good(query.from)'
  BY <1>3, GoodGrows DEF CallOK
<1>5. PageOK(query) /\ Good(query.from) => PageOK(query)'
  BY <1>1, <1>2 DEF PageOK, Grows, Good
<1> QED
  BY <1>4, <1>5 DEF CallOK

(* Nothing is changed that the calls and the cursors depend on. *)
LEMMA CallSame ==
    ASSUME UNCHANGED <<messages, now>>, NEW query, NEW cursor
    PROVE  (CallOK(query)' <=> CallOK(query)) /\ (Good(cursor)' <=> Good(cursor))
BY DEF CallOK, PageOK, Good, History!Below, History!Recent, History!Young

(* The order of a page is that of the ids. *)
LEMMA NewerIs ==
    ASSUME RecallInv, NEW i \in DOMAIN messages, NEW j \in DOMAIN messages
    PROVE  History!Newer(i, j) <=> i > j
<1>1. /\ messages[i].at \in Nat /\ messages[j].at \in Nat /\ i \in Nat /\ j \in Nat
      /\ i < j => messages[i].at <= messages[j].at
      /\ j < i => messages[j].at <= messages[i].at
  BY RecallTypes
<1> QED
  BY <1>1 DEF History!Newer

LEMMA OldestIs ==
    ASSUME RecallInv, NEW ids \in SUBSET DOMAIN messages, ids # {}
    PROVE  History!Oldest(ids) \in ids /\ \A j \in ids : History!Oldest(ids) <= j
<1>1. ids \in SUBSET Nat
  BY RecallTypes
<1>2. PICK m \in ids : \A k \in ids : m <= k
  BY <1>1, Calls!Least
<1>3. \A k \in ids : m = k \/ History!Newer(k, m)
  BY <1>1, <1>2, NewerIs
<1>4. /\ History!Oldest(ids) \in ids
      /\ \A j \in ids : History!Oldest(ids) = j \/ History!Newer(j, History!Oldest(ids))
  BY <1>2, <1>3 DEF History!Oldest
<1> QED
  BY <1>1, <1>4, NewerIs

(* Millisecond rounds down. *)
LEMMA RoundedDown ==
    ASSUME NEW time \in Nat
    PROVE  History!Millisecond(time) \in Nat /\ History!Millisecond(time) <= time
<1>1. time % Ms \in 0..(Ms - 1)
  BY RecallAssumption
<1>2. time % Ms <= time
  <2>1. CASE time < Ms
    <3>1. time % Ms = time
      BY <2>1, RecallAssumption
    <3> QED
      BY <3>1
  <2>2. CASE time >= Ms
    BY <1>1, <2>2, RecallAssumption
  <2> QED
    BY <2>1, <2>2, RecallAssumption
<1> QED
  BY <1>1, <1>2, RecallAssumption DEF History!Millisecond

(* LIMIT lim + 1: of the messages below a cursor, those with no more than  *)
(* the limit above them; a message that is not among them is below them    *)
(* all, and then they are more than the limit.                             *)
LEMMA FetchedNewest ==
    ASSUME RecallInv, NEW cursor \in Cursors, NEW chat
    PROVE  /\ History!Fetched(cursor, chat) \subseteq DOMAIN messages
           /\ IsFiniteSet(History!Fetched(cursor, chat))
           /\ \A i \in History!Low(cursor, chat) :
                 i \notin History!Fetched(cursor, chat) =>
                    /\ Cardinality(History!Fetched(cursor, chat)) > cursor.limit
                    /\ \A j \in History!Fetched(cursor, chat) : i < j
<1> DEFINE Low      == History!Low(cursor, chat)
           Over(i)  == {j \in Low : j > i}
           Hits     == History!Fetched(cursor, chat)
<1>1. Low \subseteq DOMAIN messages /\ DOMAIN messages \subseteq Nat \ {0}
      /\ IsFiniteSet(DOMAIN messages)
  BY RecallTypes DEF History!Low, History!Recent, History!Young
<1> HIDE DEF Low
<1>2. IsFiniteSet(Low) /\ Low \in SUBSET Nat
  BY <1>1, FS_Subset
<1>3. cursor.limit \in Nat
  BY DEF Cursors
<1>4. \A i : IsFiniteSet(Over(i)) /\ Cardinality(Over(i)) \in Nat
  BY <1>2, FS_Subset, FS_CardinalityType
<1>5. Hits = {i \in Low : Cardinality(Over(i)) <= cursor.limit}
  <2>1. ASSUME NEW i \in Low
        PROVE  Over(i) = History!Above(cursor, chat, i)
    BY <1>1, NewerIs DEF Low, History!Above
  <2>2. \A S : History!Cardinality(S) = Cardinality(S)
    BY DEF History!Cardinality, Cardinality
  <2>3. Hits = {i \in Low : Cardinality(History!Above(cursor, chat, i)) <= cursor.limit}
    BY <2>2 DEF History!Fetched, Low
  <2> HIDE DEF Hits, Over
  <2> QED
    BY <2>1, <2>3
<1> HIDE DEF Hits
<1>6. IsFiniteSet(Hits) /\ Cardinality(Hits) \in Nat /\ Hits \subseteq Low
  BY <1>2, <1>5, FS_Subset, FS_CardinalityType
<1>7. \A i \in Low, j \in Low : i < j => Cardinality(Over(j)) <= Cardinality(Over(i))
  <2> SUFFICES ASSUME NEW i \in Low, NEW j \in Low, i < j
               PROVE  Cardinality(Over(j)) <= Cardinality(Over(i))
    OBVIOUS
  <2>1. ASSUME NEW k \in Low, k > j
        PROVE  k > i
    <3>1. i \in Nat /\ j \in Nat /\ k \in Nat
      BY <1>2
    <3> QED
      BY <2>1, <3>1
  <2>2. Over(j) \subseteq Over(i)
    BY <2>1
  <2> QED
    BY <1>4, <2>2, FS_Subset
<1>8. ASSUME NEW i \in Low, i \notin Hits
      PROVE  \A j \in Hits : i < j
  <2> SUFFICES ASSUME NEW j \in Hits, j < i
               PROVE  FALSE
    BY <1>2, <1>6, <1>8
  <2>1. Cardinality(Over(i)) <= Cardinality(Over(j))
    BY <1>6, <1>7, <1>8
  <2>2. Cardinality(Over(j)) <= cursor.limit /\ ~(Cardinality(Over(i)) <= cursor.limit)
    BY <1>5, <1>8
  <2> HIDE DEF Over
  <2> QED
    BY <1>3, <1>4, <2>1, <2>2
<1>9. ASSUME NEW i \in Low, i \notin Hits
      PROVE  Cardinality(Hits) > cursor.limit
  <2> DEFINE Missed == Low \ Hits
  <2>1. \E k \in Missed : \A j \in Missed : j <= k
    <3>1. PICK n \in 0..MaxRows : messages \in [1..n -> Row]
      BY DEF RecallInv, MessagesOK
    <3>2. n \in Nat /\ \A j \in Missed : j <= n /\ j \in Nat
      BY <1>1, <3>1, RecallAssumption
    <3> DEFINE Back == {d \in 0..n : n - d \in Missed}
    <3>3. Back \in SUBSET Nat /\ Back # {}
      <4>1. i \in Missed /\ i \in Nat /\ i <= n
        BY <1>9, <3>2
      <4>2. n - i \in 0..n /\ n - (n - i) = i
        BY <3>2, <4>1
      <4>3. n - i \in Back
        BY <4>1, <4>2
      <4>4. Back \subseteq Nat
        BY <3>2
      <4> QED
        BY <4>3, <4>4
    <3>4. PICK d \in Back : \A e \in Back : d <= e
      BY <3>3, Calls!Least
    <3>5. n - d \in Missed /\ d \in 0..n
      BY <3>4
    <3>6. ASSUME NEW j \in Missed
          PROVE  j <= n - d
      <4>1. j \in Nat /\ j <= n
        BY <3>2
      <4>2. n - j \in 0..n /\ n - (n - j) = j
        BY <3>2, <4>1
      <4>3. n - j \in Back
        BY <4>2
      <4>4. d <= n - j
        BY <3>4, <4>3
      <4> QED
        BY <3>2, <3>5, <4>1, <4>4
    <3> QED
      BY <3>5, <3>6
  <2>2. PICK k \in Missed : \A j \in Missed : j <= k
    BY <2>1
  <2>3. Over(k) \subseteq Hits
    <3>1. ASSUME NEW j \in Low, j > k, j \notin Hits
          PROVE  FALSE
      <4>1. j <= k /\ j \in Nat /\ k \in Nat
        BY <1>2, <2>2, <3>1
      <4> QED
        BY <3>1, <4>1
    <3> QED
      BY <3>1
  <2>4. Cardinality(Over(k)) <= Cardinality(Hits)
    BY <1>6, <2>3, FS_Subset
  <2>5. ~(Cardinality(Over(k)) <= cursor.limit)
    BY <1>5, <2>2
  <2> HIDE DEF Over
  <2> QED
    BY <1>3, <1>4, <1>6, <2>4, <2>5
<1> QED
  BY <1>1, <1>6, <1>8, <1>9 DEF Hits, Low

LEMMA IdleIs ==
    History!Idle \in Commanded /\ History!Idle.pc = "idle" /\ History!Idle.page = {}
    /\ History!Idle.more = FALSE
<1>1. History!NoCursor \in Cursors
  <2>1. History!NoCursor = [at |-> MaxTime["recall"] + 1, id |-> 0, limit |-> 0,
                            keyword |-> "short", chat |-> "", list |-> 0, there |-> {},
                            paged |-> {}, blurred |-> {}, whole |-> TRUE]
    BY DEF History!NoCursor, History!Start
  <2>2. MaxTime["recall"] + 1 \in Nat /\ 0 \in Nat /\ {} \in SUBSET Nat /\ TRUE \in BOOLEAN
    BY RecallAssumption
  <2> QED
    BY <2>1, <2>2 DEF Cursors, History!Keywords
<1> QED
  BY <1>1 DEF History!Idle, Commanded

LEMMA RecallInit ==
    ASSUME History!Init
    PROVE  RecallInv
<1>2. History!Idle \in Commanded /\ History!Idle.pc = "idle"
  BY IdleIs
<1>3. now = 0 /\ messages = [i \in {} |-> 0] /\ given = {} /\ store = History!NoCursor
      /\ pages = [c \in Recalls |-> History!Idle]
      /\ gaps = [again |-> {}, missed |-> {}] /\ asked = 0
  BY DEF History!Init
<1>4. now \in 0..MaxTime["recall"]
  BY <1>3, RecallAssumption
<1>5. MessagesOK
  <2>1. DOMAIN messages = {} /\ messages = [i \in {} |-> 0]
    BY <1>3
  <2>2. 0 \in 0..MaxRows /\ 1..0 = {}
    BY RecallAssumption
  <2>3. messages \in [1..0 -> Row]
    BY <2>1, <2>2
  <2> QED
    BY <2>1, <2>2, <2>3 DEF MessagesOK
<1>6. pages \in [Recalls -> Commanded] /\ \A c \in Recalls : CallOK(pages[c])
  BY <1>2, <1>3 DEF CallOK
<1>7. History!PagesExact
  BY <1>3 DEF History!PagesExact
<1> QED
  BY <1>2, <1>3, <1>4, <1>5, <1>6, <1>7 DEF RecallInv, HeldOK, Held, CallsSeen

(* A command goes on: what is on its way stays so, or was sent or lost;    *)
(* and every cursor held is old, or good.                                  *)
LEMMA CommandInv ==
    ASSUME RecallInv, UNCHANGED <<messages, now>>, asked' \in Nat, NEW c \in Recalls,
           NEW q \in Commanded, pages' = [pages EXCEPT ![c] = q], CallOK(q),
           q.pc # "idle" => OnSheets(q.from),
           shown \subseteq shown', lost \subseteq lost',
           pages[c].pc = "send" => History!Items(pages[c]) \subseteq shown' \cup lost',
           \A cursor \in Held' : \/ cursor \in Held
                                 \/ /\ cursor \in Cursors /\ Good(cursor) /\ cursor.paged # {}
                                    /\ \A i \in cursor.paged :
                                          Sheet(cursor, i) \in Sheets \cup Sheets',
           History!PagesExact'
    PROVE  RecallInv'
<1>1. /\ pages \in [Recalls -> Commanded] /\ pages' \in [Recalls -> Commanded]
      /\ \A d \in Recalls : pages'[d] = IF d = c THEN q ELSE pages[d]
  BY DEF RecallInv
<1>2. Sheets \subseteq Sheets'
  <2> SUFFICES ASSUME NEW x \in History!OnTheirWay
               PROVE  x \in Sheets'
    BY DEF Sheets
  <2>1. PICK d \in Recalls : pages[d].pc = "send" /\ x \in History!Items(pages[d])
    BY DEF History!OnTheirWay
  <2>2. CASE d = c
    BY <2>1, <2>2 DEF Sheets
  <2>3. CASE d # c
    <3>1. pages'[d] = pages[d]
      BY <1>1, <2>3
    <3>2. x \in History!OnTheirWay'
      BY <2>1, <3>1 DEF History!OnTheirWay, History!Items
    <3> QED
      BY <3>2 DEF Sheets
  <2> QED
    BY <2>2, <2>3
<1>3. MessagesOK'
  BY DEF RecallInv, MessagesOK
<1>4. HeldOK'
  <2> SUFFICES ASSUME NEW cursor \in Held'
               PROVE  (/\ cursor \in Cursors /\ Good(cursor)
                       /\ OnSheets(cursor) /\ cursor.paged # {})'
    BY DEF HeldOK
  <2>1. cursor \in Cursors /\ Good(cursor) /\ cursor.paged # {}
        /\ \A i \in cursor.paged : Sheet(cursor, i) \in Sheets \cup Sheets'
    BY DEF RecallInv, HeldOK, OnSheets
  <2>2. Good(cursor)'
    BY <2>1, CallSame
  <2>3. OnSheets(cursor)'
    BY <1>2, <2>1 DEF OnSheets, Sheet
  <2> QED
    BY <2>1, <2>2, <2>3
<1>5. \A d \in Recalls : CallOK(pages[d])'
  <2> SUFFICES ASSUME NEW d \in Recalls
               PROVE  CallOK(pages[d])'
    OBVIOUS
  <2>1. CallOK(pages'[d])
    BY <1>1 DEF RecallInv
  <2> QED
    BY <2>1 DEF CallOK, PageOK, Good, History!Below, History!Recent, History!Young
<1>6. CallsSeen'
  <2> SUFFICES ASSUME NEW d \in Recalls, pages'[d].pc # "idle"
               PROVE  OnSheets(pages[d].from)'
    BY DEF CallsSeen
  <2>1. OnSheets(pages'[d].from)
    BY <1>1 DEF RecallInv, CallsSeen
  <2> QED
    BY <1>2, <2>1 DEF OnSheets, Sheet
<1>7. now' \in 0..MaxTime["recall"]
  BY DEF RecallInv
<1> QED
  BY <1>1, <1>3, <1>4, <1>5, <1>6, <1>7 DEF RecallInv

LEMMA GrowsInv ==
    ASSUME RecallInv, \/ \E chat \in Chats, has \in Wordings : History!Message(chat, has)
                      \/ History!Tick
    PROVE  RecallInv'
<1>1. now' \in 0..MaxTime["recall"] /\ now <= now' /\ now' \in Nat
      /\ UNCHANGED <<store, given, pages, asked, gaps, shown, lost>>
  BY RecallTypes, RecallAssumption DEF RecallInv, History!Message, History!Tick
<1>2. PICK n \in 0..MaxRows : messages \in [1..n -> Row]
  BY DEF RecallInv, MessagesOK
<1>3. n \in Nat /\ DOMAIN messages = 1..n /\ now \in Nat
  BY <1>2, RecallAssumption, RecallTypes
<1>4. Grows /\ MessagesOK'
  <2>1. CASE History!Tick
    <3>1. messages' = messages
      BY <2>1 DEF History!Tick
    <3>2. \A i \in DOMAIN messages : messages[i].at <= now'
      BY <1>1, <1>3, RecallTypes
    <3> QED
      BY <1>1, <3>1, <3>2 DEF Grows, MessagesOK, RecallInv
  <2>2. ASSUME NEW chat \in Chats, NEW has \in Wordings, History!Message(chat, has)
        PROVE  Grows /\ MessagesOK'
    <3>1. History!Cardinality(DOMAIN messages) = n
      <4>1. Cardinality(1..n) = n
        BY <1>3, FS_Interval
      <4> QED
        BY <1>3, <4>1 DEF History!Cardinality, Cardinality
    <3> DEFINE row == [chat |-> chat, has |-> has, at |-> now]
    <3>2. /\ n < MaxRows /\ now' = now
          /\ messages' = [i \in 1..n \cup {n + 1} |-> IF i \in 1..n THEN messages[i] ELSE row]
      BY <1>3, <2>2, <3>1 DEF History!Message
    <3>3. 1..n \cup {n + 1} = 1..(n + 1) /\ n + 1 \in 0..MaxRows /\ n + 1 \notin 1..n
      BY <1>3, <3>2, RecallAssumption
    <3>4. row \in Row
      BY <1>3, <2>2 DEF Row
    <3>5. /\ messages' \in [1..(n + 1) -> Row]
          /\ \A i \in 1..n : messages'[i] = messages[i]
          /\ messages'[n + 1] = row /\ DOMAIN messages' = 1..(n + 1)
      BY <1>2, <3>2, <3>3, <3>4
    <3> HIDE DEF row
    <3>6. row.at = now
      BY DEF row
    <3>7. \A i \in 1..n : messages[i].at \in Nat /\ messages[i].at <= now
      BY <1>3, RecallTypes
    <3>8. \A i \in 1..(n + 1) : i \in 1..n \/ i = n + 1
      BY <1>3
    <3>9. \A i \in DOMAIN messages' : messages'[i].at <= now'
      BY <1>3, <3>2, <3>5, <3>6, <3>7, <3>8
    <3>10. \A i, j \in DOMAIN messages' : i < j => messages'[i].at <= messages'[j].at
      <4> SUFFICES ASSUME NEW i \in 1..(n + 1), NEW j \in 1..(n + 1), i < j
                   PROVE  messages'[i].at <= messages'[j].at
        BY <3>5
      <4>1. i \in 1..n
        BY <1>3
      <4>2. CASE j \in 1..n
        BY <1>3, <3>5, <4>1, <4>2, RecallTypes
      <4>3. CASE j = n + 1
        BY <3>5, <3>6, <3>7, <4>1, <4>3
      <4> QED
        BY <3>8, <4>2, <4>3
    <3>11. 1..n \subseteq 1..(n + 1)
      BY <1>3
    <3> QED
      BY <1>1, <1>3, <3>3, <3>5, <3>9, <3>10, <3>11 DEF Grows, MessagesOK
  <2> QED
    BY <2>1, <2>2
<1>5. HeldOK' /\ CallsSeen'
  <2>1. Sheets' = Sheets /\ Held' = Held
    BY <1>1 DEF Sheets, Held, History!OnTheirWay, History!Items, History!NoCursor, History!End,
       History!Start
  <2>2. CallsSeen'
    BY <1>1, <2>1 DEF RecallInv, CallsSeen, OnSheets, Sheet
  <2>3. ASSUME NEW cursor \in Held
        PROVE  (/\ cursor \in Cursors /\ Good(cursor)
                /\ OnSheets(cursor) /\ cursor.paged # {})'
    <3>1. cursor \in Cursors /\ Good(cursor) /\ OnSheets(cursor) /\ cursor.paged # {}
      BY DEF RecallInv, HeldOK
    <3>2. Good(cursor)'
      BY <1>1, <1>4, <3>1, GoodGrows
    <3>3. OnSheets(cursor)'
      BY <2>1, <3>1 DEF OnSheets, Sheet
    <3> QED
      BY <3>1, <3>2, <3>3
  <2> QED
    BY <2>1, <2>2, <2>3 DEF HeldOK
<1>6. \A c \in Recalls : CallOK(pages[c])'
  <2> SUFFICES ASSUME NEW c \in Recalls
               PROVE  CallOK(pages[c])'
    OBVIOUS
  <2> DEFINE query == pages[c]
  <2>1. query \in Commanded /\ CallOK(query) /\ pages'[c] = query
    BY <1>1 DEF RecallInv
  <2>2. \A q \in Commanded : CallOK(q) => CallOK(q)'
    BY <1>1, <1>4, CallGrows
  <2> QED
    BY <1>1, <2>1, <2>2 DEF CallOK, PageOK, Good, History!Below, History!Recent, History!Young
<1>7. History!PagesExact'
  BY <1>1 DEF RecallInv, History!PagesExact
<1> QED
  BY <1>1, <1>4, <1>5, <1>6, <1>7 DEF RecallInv

(* handleRecall and handleRecallMore: from the newest message, or from a   *)
(* cursor that was given or is kept.                                       *)
LEMMA AsksInv ==
    ASSUME RecallInv, NEW c \in Recalls, NEW chat \in Chats, NEW from \in Cursors, Good(from),
           OnSheets(from), from.paged = {} => from.at = MaxTime["recall"] + 1,
           from.whole => from.chat = chat, History!Asks(c, chat, from)
    PROVE  RecallInv'
<1> DEFINE query == [History!Idle EXCEPT !.pc = "search", !.chat = chat, !.from = from]
<1>1. /\ pages' = [pages EXCEPT ![c] = query] /\ pages[c].pc = "idle" /\ asked' \in Nat
      /\ UNCHANGED <<messages, now, store, given, gaps, shown, lost>>
  BY DEF History!Asks, RecallInv
<1>2. /\ query \in Commanded /\ query.pc = "search" /\ query.chat = chat /\ query.from = from
      /\ query.page = {} /\ query.more = FALSE
  <2> DEFINE a == History!Idle
  <2>1. a \in Commanded /\ a.page = {} /\ a.more = FALSE
    BY IdleIs
  <2>2. query = [a EXCEPT !.pc = "search", !.chat = chat, !.from = from]
    OBVIOUS
  <2> HIDE DEF a, query
  <2> QED
    BY <2>1, <2>2 DEF Commanded
<1> HIDE DEF query
<1>3. query \in Commanded
  BY <1>2
<1>4. CallOK(query)
  BY <1>2 DEF CallOK
<1>5. Held' = Held /\ History!PagesExact'
  BY <1>1 DEF RecallInv, History!PagesExact, Held, History!NoCursor, History!End, History!Start
<1> QED
  BY <1>1, <1>2, <1>3, <1>4, <1>5, CommandInv

LEMMA AskInv ==
    ASSUME RecallInv, NEW c \in Recalls, History!Ask(c) \/ History!AskMore(c)
    PROVE  RecallInv'
<1>1. ASSUME NEW chat \in Chats, NEW limit \in PageSizes, NEW keyword \in {"short", "long"},
             History!Asks(c, chat, History!Start(chat, limit, keyword, asked + 1))
      PROVE  RecallInv'
  <2> DEFINE from == History!Start(chat, limit, keyword, asked + 1)
  <2>1. from = [at |-> MaxTime["recall"] + 1, id |-> 0, limit |-> limit, keyword |-> keyword,
                chat |-> chat, list |-> asked + 1, there |-> {}, paged |-> {}, blurred |-> {},
                whole |-> TRUE]
    BY DEF History!Start
  <2>2. /\ MaxTime["recall"] + 1 \in Nat /\ 0 \in Nat /\ {} \in SUBSET Nat /\ TRUE \in BOOLEAN
        /\ limit \in Nat /\ limit > 0 /\ asked + 1 \in Nat
    BY RecallAssumption DEF RecallInv
  <2>3. History!Asks(c, chat, from)
    BY <1>1
  <2> HIDE DEF from
  <2>4. from \in Cursors
    BY <2>1, <2>2 DEF Cursors, History!Keywords
  <2>5. Good(from) /\ OnSheets(from)
    BY <2>1, <2>2 DEF Good, OnSheets
  <2> QED
    BY <2>1, <2>3, <2>4, <2>5, AsksInv
<1>2. ASSUME NEW chat \in Chats, NEW cursor \in Held,
             History!Asks(c, chat, [cursor EXCEPT !.whole = @ /\ cursor.chat = chat])
      PROVE  RecallInv'
  <2> DEFINE from == [cursor EXCEPT !.whole = @ /\ cursor.chat = chat]
  <2>1. cursor \in Cursors /\ Good(cursor) /\ OnSheets(cursor) /\ cursor.paged # {}
    BY DEF RecallInv, HeldOK
  <2>2. from = [cursor EXCEPT !.whole = cursor.whole /\ cursor.chat = chat]
    BY <2>1 DEF Cursors
  <2>3. History!Asks(c, chat, from)
    BY <1>2
  <2> HIDE DEF from
  <2>4. (cursor.whole /\ cursor.chat = chat) \in BOOLEAN
    OBVIOUS
  <2>5. /\ from \in Cursors /\ from.at = cursor.at /\ from.id = cursor.id
        /\ from.limit = cursor.limit /\ from.chat = cursor.chat /\ from.there = cursor.there
        /\ from.paged = cursor.paged /\ from.blurred = cursor.blurred
        /\ from.keyword = cursor.keyword /\ from.list = cursor.list
    BY <2>1, <2>2, <2>4 DEF Cursors
  <2>6. from.whole <=> cursor.whole /\ cursor.chat = chat
    BY <2>1, <2>2 DEF Cursors
  <2>7. Good(from) /\ OnSheets(from)
    BY <2>1, <2>5, <2>6 DEF Good, OnSheets, Sheet, History!Below
  <2> QED
    BY <2>1, <2>3, <2>5, <2>6, <2>7, AsksInv
<1> QED
  BY <1>1, <1>2 DEF History!Ask, History!AskMore, Held

(* searchPage *)
LEMMA SearchInv ==
    ASSUME RecallInv, NEW c \in Recalls, History!SearchPage(c)
    PROVE  RecallInv'
<1> DEFINE query == pages[c]
           from  == query.from
           found == History!Fetched(from, query.chat)
           more  == Cardinality(found) > from.limit
           page  == IF more THEN found \ {History!Oldest(found)} ELSE found
           first == [from EXCEPT !.there = History!Recent(query.chat, from.keyword)]
           next  == IF from.paged = {} THEN first ELSE from
<1>1. /\ query \in Commanded /\ CallOK(query) /\ query.pc = "search" /\ from \in Cursors
      /\ OnSheets(from) /\ UNCHANGED <<messages, now, store, given, asked, gaps, shown, lost>>
  BY DEF RecallInv, CallsSeen, History!SearchPage, Commanded
<1>2. ASSUME NEW q \in Commanded, CallOK(q), pages' = [pages EXCEPT ![c] = q],
             q.from.paged = from.paged, q.from.list = from.list
      PROVE  RecallInv'
  <2>1. Held' = Held /\ History!PagesExact' /\ asked' \in Nat
    BY <1>1 DEF RecallInv, History!PagesExact, Held, History!NoCursor, History!End, History!Start
  <2>2. OnSheets(q.from)
    BY <1>1, <1>2 DEF OnSheets, Sheet
  <2> QED
    BY <1>1, <1>2, <2>1, <2>2, CommandInv
<1>3. CASE pages' = [pages EXCEPT ![c] = [query EXCEPT !.pc = "keep", !.from.whole = FALSE]]
  <2> DEFINE q == [query EXCEPT !.pc = "keep", !.from.whole = FALSE]
             f == [from EXCEPT !.whole = FALSE]
  <2>1. /\ f \in Cursors /\ ~f.whole /\ f.paged = from.paged /\ f.there = from.there
        /\ f.limit = from.limit /\ f.at = from.at /\ f.id = from.id /\ f.list = from.list
    BY <1>1 DEF Cursors
  <2>2. /\ q \in Commanded /\ q.pc = "keep" /\ q.from = f /\ q.page = query.page
        /\ q.more = query.more
    BY <1>1, <2>1 DEF Commanded
  <2>3. pages' = [pages EXCEPT ![c] = q]
    BY <1>3
  <2> HIDE DEF q, f
  <2>4. Good(f)
    BY <1>1, <2>1 DEF CallOK, Good, History!Below
  <2>5. CallOK(q)
    BY <1>1, <2>1, <2>2, <2>4 DEF CallOK, PageOK
  <2> QED
    BY <1>2, <2>1, <2>2, <2>3, <2>5
<1>4. CASE pages' = [pages EXCEPT ![c] = [query EXCEPT !.pc = "keep", !.page = page,
                                                    !.more = more, !.from = next]]
  <2> DEFINE q == [query EXCEPT !.pc = "keep", !.page = page, !.more = more, !.from = next]
  <2>1. pages' = [pages EXCEPT ![c] = q]
    BY <1>4
  <2>2. /\ found \subseteq DOMAIN messages /\ IsFiniteSet(found)
        /\ \A i \in History!Low(from, query.chat) :
              i \notin found => more /\ \A j \in found : i < j
    BY <1>1, FetchedNewest
  <2>3. \A i \in found : History!Below(from, i)
    BY DEF History!Fetched, History!Low
  <2>4. from.limit \in Nat /\ from.limit > 0 /\ Cardinality(found) \in Nat
    BY <1>1, <2>2, FS_CardinalityType DEF CallOK, Good, Cursors
  <2>5. /\ page \subseteq found
        /\ more => /\ page # {} /\ History!Oldest(found) \in found
                   /\ \A j \in page : History!Oldest(found) < j
                   /\ found \subseteq page \cup {History!Oldest(found)}
        /\ ~more => page = found
    <3>1. CASE ~more
      BY <3>1
    <3>2. CASE more
      <4>1. found # {}
        BY <2>4, <3>2, FS_EmptySet
      <4>2. /\ History!Oldest(found) \in found
            /\ \A j \in found : History!Oldest(found) <= j
        BY <2>2, <4>1, OldestIs
      <4>3. page = found \ {History!Oldest(found)}
        BY <3>2
      <4>4. Cardinality(page) = Cardinality(found) - 1 /\ IsFiniteSet(page)
        BY <2>2, <4>2, <4>3, FS_RemoveElement
      <4>5. page # {}
        <5>1. Cardinality(page) # 0
          BY <2>4, <3>2, <4>4
        <5> QED
          BY <5>1, FS_EmptySet
      <4>6. found \subseteq Nat
        BY <2>2, RecallTypes
      <4> HIDE DEF page, found, more
      <4>7. page \subseteq found /\ found \subseteq page \cup {History!Oldest(found)}
        BY <4>3
      <4>8. ASSUME NEW j \in page
            PROVE  History!Oldest(found) < j
        <5> DEFINE oldest == History!Oldest(found)
        <5>1. j \in found /\ j # oldest
          BY <4>3
        <5>2. oldest <= j /\ j \in Nat /\ oldest \in Nat
          BY <4>2, <4>6, <5>1
        <5> HIDE DEF oldest
        <5>3. oldest < j
          BY <5>1, <5>2
        <5> QED
          BY <5>3 DEF oldest
      <4> QED
        BY <3>2, <4>2, <4>5, <4>7, <4>8
    <3> QED
      BY <3>1, <3>2
  <2> HIDE DEF page, found
  <2>6. /\ next \in Cursors /\ next.paged = from.paged /\ next.at = from.at /\ next.id = from.id
        /\ next.limit = from.limit /\ next.chat = from.chat /\ next.blurred = from.blurred
        /\ next.whole = from.whole /\ next.keyword = from.keyword /\ next.list = from.list
        /\ next.there = IF from.paged = {} THEN History!Recent(query.chat, from.keyword)
                                           ELSE from.there
    <3>1. History!Recent(query.chat, from.keyword) \in SUBSET Nat
      BY RecallTypes DEF History!Recent, History!Young
    <3> QED
      BY <1>1, <3>1 DEF Cursors
  <2>7. /\ q \in Commanded /\ q.pc = "keep" /\ q.from = next /\ q.page = page
        /\ q.more = more /\ q.chat = query.chat
    <3>1. page \in SUBSET Nat /\ more \in BOOLEAN
      BY <2>2, <2>5, RecallTypes
    <3> HIDE DEF next, more
    <3> QED
      BY <1>1, <2>6, <3>1 DEF Commanded
  <2> HIDE DEF next, q
  <2>8. \A i : History!Below(next, i) <=> History!Below(from, i)
    BY <2>6 DEF History!Below
  <2>9. next.whole => from.whole /\ next.chat = query.chat /\ from.chat = query.chat
    BY <1>1, <2>6 DEF CallOK
  <2>10. next.whole => \A i \in next.there \cap History!Young :
            /\ i \in History!Recent(query.chat, from.keyword)
            /\ i \in next.paged \cup next.blurred \/ History!Below(from, i)
    <3>1. CASE from.paged = {}
      <4>1. from.at = MaxTime["recall"] + 1
        BY <1>1, <3>1 DEF CallOK
      <4>2. \A i \in DOMAIN messages : History!Below(from, i)
        BY <4>1, RecallTypes, RecallAssumption DEF History!Below
      <4>3. History!Young \subseteq DOMAIN messages
        BY DEF History!Young
      <4> QED
        BY <2>6, <3>1, <4>2, <4>3
    <3>2. CASE from.paged # {}
      BY <1>1, <2>6, <2>9, <3>2 DEF CallOK, Good
    <3> QED
      BY <3>1, <3>2
  <2>11. Good(next)
    <3>1. next.there \subseteq DOMAIN messages
      BY <1>1, <2>6 DEF CallOK, Good, History!Recent, History!Young
    <3> QED
      BY <1>1, <2>6, <2>8, <2>9, <2>10, <3>1 DEF CallOK, Good
  <2>12. PageOK(q)
    <3>1. page \subseteq DOMAIN messages /\ (more => page # {})
      BY <2>2, <2>5
    <3>2. \A i \in page : History!Below(next, i) /\ i \notin next.paged
      BY <1>1, <2>3, <2>5, <2>6, <2>8 DEF CallOK, Good
    <3>3. ASSUME next.whole, NEW i \in next.there \cap History!Young,
                 i \notin next.paged \cup page \cup next.blurred
          PROVE  more /\ History!Below(next, i) /\ \A j \in page : i < j
      <4>1. History!Below(from, i) /\ i \in History!Low(from, query.chat)
        BY <2>10, <3>3 DEF History!Low
      <4>2. CASE i \notin found
        BY <2>2, <2>5, <2>8, <3>3, <4>1, <4>2
      <4>3. CASE i \in found
        BY <2>5, <2>8, <3>3, <4>1, <4>3
      <4> QED
        BY <4>2, <4>3
    <3> QED
      BY <2>7, <3>1, <3>2, <3>3 DEF PageOK
  <2>13. CallOK(q)
    BY <2>7, <2>9, <2>11, <2>12 DEF CallOK
  <2> QED
    BY <1>2, <2>1, <2>6, <2>7, <2>13
<1>5. \A S : History!Cardinality(S) = Cardinality(S)
  BY DEF History!Cardinality, Cardinality
<1>6. \/ pages' = [pages EXCEPT ![c] = [query EXCEPT !.pc = "keep", !.page = page,
                                                    !.more = more, !.from = next]]
      \/ pages' = [pages EXCEPT ![c] = [query EXCEPT !.pc = "keep", !.from.whole = FALSE]]
  <2> DEFINE counted == History!Cardinality(found) > from.limit
             rest    == IF counted THEN found \ {History!Oldest(found)} ELSE found
             begun   == [from EXCEPT !.there = IF from.paged = {}
                                               THEN History!Recent(query.chat, from.keyword)
                                               ELSE @]
  <2>1. \/ pages' = [pages EXCEPT ![c] = [query EXCEPT !.pc = "keep", !.page = rest,
                                                      !.more = counted, !.from = begun]]
        \/ pages' = [pages EXCEPT ![c] = [query EXCEPT !.pc = "keep", !.from.whole = FALSE]]
    BY DEF History!SearchPage
  <2>2. counted = more
    BY <1>5
  <2>3. rest = page
    BY <2>2
  <2>4. begun = next
    <3>1. from = [from EXCEPT !.there = from.there]
      BY <1>1 DEF Cursors
    <3> QED
      BY <3>1
  <2> HIDE DEF counted, rest, begun, more, page, next
  <2> QED
    BY <2>1, <2>2, <2>3, <2>4
<1> QED
  BY <1>3, <1>4, <1>6

(* The cursor after a page: what was shown is not below it, what was not   *)
(* is, unless it shares the millisecond of the page's end.                 *)
LEMMA CursorGood ==
    ASSUME RecallInv, NEW query \in Commanded, Good(query.from), PageOK(query), query.more,
           query.from.whole => query.from.chat = query.chat
    PROVE  /\ History!Cursor(query) \in Cursors /\ Good(History!Cursor(query))
           /\ History!Cursor(query).paged # {}
           /\ History!Cursor(query).paged = query.from.paged \cup query.page
           /\ History!Cursor(query).list = query.from.list
<1> DEFINE from   == query.from
           last   == History!Oldest(query.page)
           at     == History!Millisecond(messages[last].at)
           cursor == History!Cursor(query)
           word   == History!Cut(from.keyword)
           close  == {i \in DOMAIN messages : at < messages[i].at /\ History!Newer(last, i)}
<1>1. /\ from \in Cursors /\ query.page \subseteq DOMAIN messages /\ query.page # {}
      /\ DOMAIN messages \subseteq Nat \ {0}
  BY RecallTypes DEF Commanded, PageOK
<1>2. last \in query.page /\ \A i \in query.page : last <= i
  BY <1>1, OldestIs
<1>3. /\ messages[last].at \in Nat /\ at \in Nat /\ at <= messages[last].at /\ last \in Nat
      /\ last \in DOMAIN messages
  BY <1>1, <1>2, RecallTypes, RoundedDown
<1>4. close \in SUBSET Nat
  BY <1>1
<1>5. cursor = [from EXCEPT !.at = at, !.id = last, !.keyword = word,
                            !.paged = from.paged \cup query.page,
                            !.blurred = from.blurred \cup close,
                            !.whole = from.whole /\ word = from.keyword]
  <2>1. cursor = [from EXCEPT !.at = at, !.id = last, !.keyword = History!Cut(@),
                              !.paged = @ \cup query.page, !.blurred = @ \cup close,
                              !.whole = @ /\ word = from.keyword]
    BY DEF History!Cursor
  <2> HIDE DEF cursor, at, last, close
  <2> QED
    BY <1>1, <2>1 DEF Cursors
<1>6. \A i \in close : at < messages[i].at
  OBVIOUS
<1>7. \A i \in DOMAIN messages : at < messages[i].at /\ i < last => i \in close
  BY <1>3, NewerIs
<1>7a. word \in History!Keywords
  BY <1>1 DEF Cursors, History!Cut, History!Keywords
<1> HIDE DEF cursor, at, last, close, word
<1>8. /\ cursor \in Cursors /\ cursor.at = at /\ cursor.id = last /\ cursor.limit = from.limit
      /\ cursor.paged = from.paged \cup query.page /\ cursor.there = from.there
      /\ cursor.blurred = from.blurred \cup close /\ cursor.list = from.list
      /\ cursor.chat = from.chat /\ (cursor.whole => from.whole /\ cursor.keyword = from.keyword)
  <2>1. from.paged \cup query.page \in SUBSET Nat /\ from.blurred \cup close \in SUBSET Nat
    BY <1>1, <1>4 DEF Cursors
  <2> QED
    BY <1>1, <1>3, <1>5, <1>7a, <2>1 DEF Cursors
<1>9. \A i \in DOMAIN messages :
         /\ messages[i].at \in Nat /\ i \in Nat
         /\ i < last => messages[i].at <= messages[last].at
         /\ last < i => messages[last].at <= messages[i].at
  BY <1>3, RecallTypes
<1>10. ASSUME NEW i \in cursor.paged
       PROVE  ~History!Below(cursor, i)
  <2>1. CASE i \in query.page
    <3>1. last <= i /\ i \in DOMAIN messages
      BY <1>1, <1>2, <2>1
    <3>2. messages[last].at <= messages[i].at
      BY <1>3, <1>9, <3>1
    <3> QED
      BY <1>3, <1>8, <1>9, <3>1, <3>2 DEF History!Below
  <2>2. CASE i \in from.paged
    <3>1. i \in DOMAIN messages /\ ~History!Below(from, i)
      BY <2>2 DEF Good
    <3>2. History!Below(from, last)
      BY <1>2 DEF PageOK
    <3>3. from.at \in Nat /\ from.id \in Nat
      BY <1>1 DEF Cursors
    <3>4. \/ messages[i].at > messages[last].at
          \/ messages[i].at = messages[last].at /\ i > last
      BY <1>3, <1>9, <3>1, <3>2, <3>3 DEF History!Below
    <3> QED
      BY <1>3, <1>8, <1>9, <3>1, <3>4 DEF History!Below
  <2> QED
    BY <1>8, <2>1, <2>2
<1>11. ASSUME cursor.whole, NEW i \in cursor.there \cap History!Young
       PROVE  /\ i \in History!Recent(cursor.chat, cursor.keyword)
              /\ i \in cursor.paged \cup cursor.blurred \/ History!Below(cursor, i)
  <2>1. /\ i \in from.there \cap History!Young /\ i \in DOMAIN messages
    BY <1>8, <1>11 DEF History!Young
  <2>1a. i \in History!Recent(cursor.chat, cursor.keyword)
    BY <1>8, <1>11, <2>1 DEF Good
  <2>2. CASE i \in from.paged \cup query.page \cup from.blurred
    BY <1>8, <2>2, <2>1a
  <2>3. CASE \A j \in query.page : i < j
    <3>1. i < last /\ messages[i].at <= messages[last].at
      BY <1>2, <1>9, <2>1, <2>3
    <3>2. CASE at < messages[i].at
      BY <1>7, <1>8, <2>1, <2>1a, <3>1, <3>2
    <3>3. CASE ~(at < messages[i].at)
      BY <1>3, <1>8, <1>9, <2>1, <2>1a, <3>1, <3>3 DEF History!Below
    <3> QED
      BY <3>2, <3>3
  <2> QED
    BY <1>8, <1>11, <2>1, <2>2, <2>3 DEF PageOK
<1>12. Good(cursor)
  <2>1. cursor.paged \subseteq DOMAIN messages /\ cursor.there \subseteq DOMAIN messages
        /\ cursor.limit > 0
    BY <1>1, <1>8 DEF Good
  <2> QED
    BY <1>10, <1>11, <2>1 DEF Good
<1>13. cursor.paged # {}
  BY <1>1, <1>8
<1> QED
  BY <1>8, <1>12, <1>13 DEF cursor

(* What a page has is on its way once its cursor is stored. *)
LEMMA OnItsWay ==
    ASSUME NEW query, NEW i \in query.page
    PROVE  [list |-> query.from.list, id |-> i] \in History!Items(query)
BY DEF History!Items

(* The stored cursor is set before the page is sent. *)
LEMMA KeepInv ==
    ASSUME RecallInv, NEW c \in Recalls, History!Keep(c)
    PROVE  RecallInv'
<1> DEFINE query  == pages[c]
           cursor == History!Cursor(query)
           q      == [query EXCEPT !.pc = "send"]
<1>1. /\ query \in Commanded /\ query.pc = "keep" /\ CallOK(query) /\ OnSheets(query.from)
      /\ pages' = [pages EXCEPT ![c] = q] /\ pages \in [Recalls -> Commanded]
      /\ UNCHANGED <<messages, now, given, asked, gaps, shown, lost>> /\ asked' \in Nat
      /\ store' = IF query.more THEN cursor
                  ELSE IF query.from.id = 0 THEN History!NoCursor ELSE History!End
  BY DEF RecallInv, CallsSeen, History!Keep
<1>2. /\ q \in Commanded /\ q.pc = "send" /\ q.chat = query.chat /\ q.from = query.from
      /\ q.page = query.page /\ q.more = query.more
  BY <1>1 DEF Commanded
<1>3. pages'[c] = q
  BY <1>1
<1> HIDE DEF q
<1>4. CallOK(q) /\ OnSheets(q.from)
  BY <1>1, <1>2 DEF CallOK, PageOK
<1>5. query.more =>
         /\ cursor \in Cursors /\ Good(cursor) /\ cursor.paged # {}
         /\ cursor.paged = query.from.paged \cup query.page /\ cursor.list = query.from.list
  BY <1>1, CursorGood DEF CallOK
<1> HIDE DEF cursor
<1>6. ASSUME NEW i \in query.page
      PROVE  [list |-> query.from.list, id |-> i] \in Sheets'
  <2> DEFINE item == [list |-> query.from.list, id |-> i]
  <2>1. item \in History!Items(q)
    BY <1>2, OnItsWay
  <2> HIDE DEF item
  <2>2. item \in History!OnTheirWay'
    BY <1>2, <1>3, <2>1 DEF History!OnTheirWay, History!Items
  <2> QED
    BY <2>2 DEF Sheets, item
<1>7. \A x \in Held' : x \in Held \/ (query.more /\ x = cursor)
  BY <1>1 DEF Held, History!NoCursor, History!End, History!Start
<1>8. query.more => \A i \in cursor.paged : Sheet(cursor, i) \in Sheets \cup Sheets'
  BY <1>1, <1>5, <1>6 DEF OnSheets, Sheet
<1>9. History!PagesExact'
  BY <1>1 DEF RecallInv, History!PagesExact
<1>10. shown \subseteq shown' /\ lost \subseteq lost' /\ pages[c].pc # "send"
  BY <1>1
<1>11. \A x \in Held' : \/ x \in Held
                        \/ /\ x \in Cursors /\ Good(x) /\ x.paged # {}
                           /\ \A i \in x.paged : Sheet(x, i) \in Sheets \cup Sheets'
  BY <1>5, <1>7, <1>8
<1> QED
  BY <1>1, <1>2, <1>4, <1>9, <1>10, <1>11, CommandInv

(* bot.sendMessage: what the page, and with it the pages before, do not    *)
(* have is blurred; the pages before were shown, lost, or are on their way. *)
LEMMA SendInv ==
    ASSUME RecallInv, NEW c \in Recalls, History!Send(c)
    PROVE  RecallInv'
<1> DEFINE query  == pages[c]
           from   == query.from
           cursor == History!Cursor(query)
           missed == IF query.more \/ ~from.whole THEN {}
                     ELSE (from.there \cap History!Young)
                            \ (query.page \cup from.blurred
                                 \cup (from.paged \cap History!Accounted(from.list)))
<1>1. /\ query \in Commanded /\ query.pc = "send" /\ CallOK(query) /\ OnSheets(from)
      /\ pages' = [pages EXCEPT ![c] = History!Idle]
      /\ UNCHANGED <<messages, now, store, asked, lost>> /\ asked' \in Nat
      /\ given' = IF query.more THEN given \cup {cursor} ELSE given
      /\ shown' = shown \cup History!Items(query)
      /\ gaps' = [again |-> query.page \cap from.paged, missed |-> missed]
  BY DEF RecallInv, CallsSeen, History!Send
<1>2. from.paged \subseteq History!Accounted(from.list)
  <2> SUFFICES ASSUME NEW i \in from.paged
               PROVE  i \in History!Accounted(from.list)
    OBVIOUS
  <2> DEFINE item == [list |-> from.list, id |-> i]
  <2>1. item \in shown \cup lost \cup History!OnTheirWay
    BY <1>1 DEF OnSheets, Sheet, Sheets
  <2>2. item.list = from.list /\ item.id = i
    OBVIOUS
  <2> HIDE DEF item
  <2> QED
    BY <2>1, <2>2 DEF History!Accounted
<1>3. PageOK(query) /\ Good(from) /\ (from.whole => from.chat = query.chat)
  BY <1>1 DEF CallOK
<1>4. History!PagesExact'
  <2>1. query.page \cap from.paged = {}
    BY <1>3 DEF PageOK
  <2>2. missed = {}
    BY <1>2, <1>3 DEF PageOK
  <2> QED
    BY <1>1, <2>1, <2>2 DEF History!PagesExact
<1> HIDE DEF missed
<1>5. query.more =>
         /\ cursor \in Cursors /\ Good(cursor) /\ cursor.paged # {}
         /\ cursor.paged = from.paged \cup query.page /\ cursor.list = from.list
  BY <1>1, <1>3, CursorGood
<1> HIDE DEF cursor
<1>6. ASSUME NEW i \in query.page
      PROVE  [list |-> from.list, id |-> i] \in Sheets'
  <2>1. [list |-> from.list, id |-> i] \in shown'
    BY <1>1, OnItsWay
  <2> QED
    BY <2>1 DEF Sheets
<1>7. query.more => \A i \in cursor.paged : Sheet(cursor, i) \in Sheets \cup Sheets'
  BY <1>1, <1>5, <1>6 DEF OnSheets, Sheet
<1>8. \A x \in Held' : x \in Held \/ (query.more /\ x = cursor)
  BY <1>1 DEF Held, History!NoCursor, History!End, History!Start
<1>9. \A x \in Held' : \/ x \in Held
                       \/ /\ x \in Cursors /\ Good(x) /\ x.paged # {}
                          /\ \A i \in x.paged : Sheet(x, i) \in Sheets \cup Sheets'
  BY <1>5, <1>7, <1>8
<1>10. /\ shown \subseteq shown' /\ lost \subseteq lost'
       /\ History!Items(pages[c]) \subseteq shown' \cup lost'
  BY <1>1
<1>11. History!Idle \in Commanded /\ History!Idle.pc = "idle" /\ CallOK(History!Idle)
  BY IdleIs DEF CallOK
<1> QED
  BY <1>1, <1>4, <1>9, <1>10, <1>11, CommandInv

LEMMA SendFailsInv ==
    ASSUME RecallInv, NEW c \in Recalls, History!SendFails(c)
    PROVE  RecallInv'
<1>1. /\ pages' = [pages EXCEPT ![c] = History!Idle]
      /\ UNCHANGED <<messages, now, store, given, asked, gaps, shown>> /\ asked' \in Nat
      /\ lost' = lost \cup History!Items(pages[c])
  BY DEF RecallInv, History!SendFails
<1>2. Held' = Held /\ History!PagesExact'
  BY <1>1 DEF RecallInv, History!PagesExact, Held, History!NoCursor, History!End, History!Start
<1>3. /\ shown \subseteq shown' /\ lost \subseteq lost'
      /\ History!Items(pages[c]) \subseteq shown' \cup lost'
  BY <1>1
<1>4. History!Idle \in Commanded /\ History!Idle.pc = "idle" /\ CallOK(History!Idle)
  BY IdleIs DEF CallOK
<1> QED
  BY <1>1, <1>2, <1>3, <1>4, CommandInv

(* The stored cursor is gone; those the user has go on from pages of which *)
(* none is on its way any more.                                            *)
LEMMA RestartInv ==
    ASSUME RecallInv, History!Restart
    PROVE  RecallInv'
<1>1. /\ pages' = [d \in Recalls |-> History!Idle] /\ store' = History!NoCursor
      /\ UNCHANGED <<messages, now, given, asked, gaps, shown>>
      /\ lost' = lost \cup History!OnTheirWay
  BY DEF History!Restart
<1>2. pages' \in [Recalls -> Commanded] /\ \A d \in Recalls : pages'[d].pc = "idle"
  BY <1>1, IdleIs
<1>3. Sheets \subseteq Sheets'
  BY <1>1 DEF Sheets
<1>4. Held' \subseteq Held
  BY <1>1 DEF Held, History!NoCursor, History!Start
<1>5. HeldOK'
  <2> SUFFICES ASSUME NEW cursor \in Held'
               PROVE  (/\ cursor \in Cursors /\ Good(cursor)
                       /\ OnSheets(cursor) /\ cursor.paged # {})'
    BY DEF HeldOK
  <2>1. cursor \in Cursors /\ Good(cursor) /\ OnSheets(cursor) /\ cursor.paged # {}
    BY <1>4 DEF RecallInv, HeldOK
  <2>2. Good(cursor)'
    BY <1>1, <2>1, CallSame
  <2>3. OnSheets(cursor)'
    BY <1>3, <2>1 DEF OnSheets, Sheet
  <2> QED
    BY <2>1, <2>2, <2>3
<1>6. \A d \in Recalls : CallOK(pages[d])'
  BY <1>2 DEF CallOK
<1>7. CallsSeen'
  BY <1>2 DEF CallsSeen
<1>8. MessagesOK' /\ History!PagesExact' /\ now' \in 0..MaxTime["recall"] /\ asked' \in Nat
  BY <1>1 DEF RecallInv, MessagesOK, History!PagesExact
<1> QED
  BY <1>2, <1>5, <1>6, <1>7, <1>8 DEF RecallInv

LEMMA RecallStep ==
    ASSUME RecallInv, [History!Next]_(History!recallVars)
    PROVE  RecallInv'
<1>1. CASE UNCHANGED History!recallVars
  <2>1. Sheets' = Sheets /\ Held' = Held /\ UNCHANGED <<messages, now, pages, asked, gaps>>
    BY <1>1 DEF History!recallVars, Sheets, Held, History!OnTheirWay, History!Items,
       History!NoCursor, History!End, History!Start
  <2> QED
    BY <2>1 DEF RecallInv, MessagesOK, HeldOK, CallsSeen, OnSheets, Sheet, Good, CallOK, PageOK,
       History!Below, History!Recent, History!Young, History!PagesExact
<1> QED
  BY <1>1, GrowsInv, AskInv, SearchInv, KeepInv, SendInv, SendFailsInv, RestartInv
     DEF History!Next

(* A page repeats no message of the pages before it, and when the last     *)
(* page is shown every message that was there at first and is not too old  *)
(* was shown, or is on a page that is on its way or that could not be      *)
(* sent: whatever messages, commands, failures and restarts come between   *)
(* the pages, if they are of one chat and of a keyword that the cursor     *)
(* does not cut (handleRecallMore, searchPage).                            *)
THEOREM PagesExactHolds == ProcessSpec => []PagesExact
<1> DEFINE Inv == used = "recall" => RecallInv
<1>1. ProcessInit => Inv
  BY RecallInit DEF ProcessInit
<1>2. Inv /\ [ProcessNext]_processVars => Inv'
  <2> SUFFICES ASSUME Inv, [ProcessNext]_processVars, used' = "recall"
               PROVE  RecallInv'
    OBVIOUS
  <2>1. used = "recall" /\ [History!Next]_(History!recallVars)
    BY DEF ProcessNext, processVars, recall, History!recallVars
  <2> QED
    BY <2>1, RecallStep
<1>3. Inv => PagesExact
  <2> SUFFICES ASSUME RecallInv
               PROVE  History!RecallOK /\ History!PagesExact
    BY DEF PagesExact
  <2>1. DOMAIN messages \subseteq History!Ids
    BY RecallAssumption DEF RecallInv, MessagesOK, History!Ids
  <2> QED
    BY <2>1 DEF RecallInv, MessagesOK, HeldOK, Held, Good, History!RecallOK
<1> QED
  BY <1>1, <1>2, <1>3, PTL DEF ProcessSpec, processVars
=============================================================================
