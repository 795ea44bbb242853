------------------------------ MODULE Identity ------------------------------
(***************************************************************************)
(* Who the sender of a Telegram message is: the tables users,              *)
(* user_identities, user_links and identity_link_codes, and the code that  *)
(* reads and writes them (src/users, the handlers of src/bot/handlers).    *)
(*                                                                         *)
(* Every message first goes through ensureUserProfile, which gives a new   *)
(* user a global id in two tables, one statement at a time, and through    *)
(* resolveUserAccess; then its command may issue or confirm a link code,   *)
(* change a role, or move a legacy id "tg:<user>" to a new one.  A chain   *)
(* is the handling of one message; an action is one query of it, or one    *)
(* transaction from its last lock to its COMMIT.                           *)
(***************************************************************************)
EXTENDS Naturals, FiniteSets

CONSTANTS
    Users,        \* Telegram users; u also stands for the legacy id "tg:<u>"
    Monarchs,     \* MONARCH_USER_ID
    NewIds,       \* ids that generateUniqueGlobalUserId may draw
    Codes,        \* link codes that genCode may draw
    GrantRoles,   \* what normalizeGrantRole lets through, "guest" aside
    Chains,       \* messages handled at the same time
    NoId, NoCode, NoUser,
    MaxEvents     \* bound: messages and failed queries together

ASSUME UsersAssumption == Monarchs \subseteq Users /\ NoUser \notin Users
ASSUME IdsAssumption   == Users \cap NewIds = {} /\ NoId \notin Users \cup NewIds
ASSUME CodesAssumption == NoCode \notin Codes
ASSUME RolesAssumption == GrantRoles \cap {"guest", "monarch"} = {}
ASSUME BoundAssumption == MaxEvents \in Nat

Ids   == Users \cup NewIds
Roles == GrantRoles \cup {"guest", "monarch"}

VARIABLES
    profile,    \* users, by tg_user_id: global_user_id and role; id = NoId: no row
    mapping,    \* user_identities: the global id of each Telegram user
    links,      \* user_links, by provider_user_id
    codes,      \* identity_link_codes
    chains,
    v2,         \* the feature flag LINKING_V2
    started,    \* how many messages have arrived
    faults,     \* how many queries have failed
    drawn,      \* history: the new ids drawn so far
    granted,    \* history: the roles above guest granted to each user
    overtaken   \* history: users whose upgrade was overtaken by a confirmation

tables == <<profile, mapping, links, codes>>
vars == <<profile, mapping, links, codes, chains, v2, started, faults, drawn, granted, overtaken>>

Commands == {"talk", "link_start", "link_confirm", "upgrade"}
Awaits   == {"mapping", "legacy", "chat", "write_profile", "write_mapping", "role",
             "issue", "lock", "link", "rewrite", "write_role", "backfill"}
Goals    == {"profile", "access", "code", "upgrade"}

NoChain == [at |-> "idle", user |-> NoUser, cmd |-> "talk", goal |-> "profile",
            id |-> NoId, role |-> "guest", code |-> NoCode]
NewCode == [status |-> "free", user |-> NoUser, id |-> NoId, late |-> FALSE]

DefaultRole(u) == IF u \in Monarchs THEN "monarch" ELSE "guest"
Row(id, role)  == [id |-> id, role |-> role]

-----------------------------------------------------------------------------
(* The tables as they may be found: users from before user_identities have *)
(* the legacy id, with or without a backfilled mapping.                    *)
Init ==
    /\ \E old \in SUBSET Users : \E filled \in SUBSET old :
         /\ profile = [u \in Users |-> Row(IF u \in old THEN u ELSE NoId, DefaultRole(u))]
         /\ mapping = [u \in Users |-> IF u \in filled THEN u ELSE NoId]
    /\ links = [u \in Users |-> NoId]
    /\ codes = [k \in Codes |-> NewCode]
    /\ chains = [c \in Chains |-> NoChain]
    /\ v2 \in BOOLEAN
    /\ started = 0 /\ faults = 0 /\ drawn = {}
    /\ granted = [u \in Users |-> {}] /\ overtaken = {}

-----------------------------------------------------------------------------
(* Helpers *)

At(c, a)  == chains[c].at = a
UserOf(c) == chains[c].user
IdOf(c)   == chains[c].id

Starts(c) == At(c, "idle") /\ started + faults < MaxEvents /\ started' = started + 1

Moves(c, ch) == chains' = [chains EXCEPT ![c] = ch]
Ends(c)      == Moves(c, NoChain)
Goes(c, a)   == Moves(c, [chains[c] EXCEPT !.at = a])
Found(c, a, id) == Moves(c, [chains[c] EXCEPT !.at = a, !.id = id])

(* What a chain does once it knows its id, or that there is none.          *)
Resolved(c, id) ==
    LET goal == chains[c].goal IN
    CASE goal = "profile" -> Found(c, IF id = NoId THEN "chat" ELSE "write_profile", id)
      [] goal = "access"  -> Found(c, "role", id)
      [] goal = "code"    -> Found(c, "issue", id)
      [] goal = "upgrade" -> IF id \in Users THEN Found(c, "rewrite", id) ELSE Ends(c)

(* ensureUserProfile returns, whether it succeeded or not. *)
ToAccess(c) == Moves(c, [chains[c] EXCEPT !.at = "mapping", !.goal = "access", !.id = NoId])

(* The command of a sender with this role. *)
ToCommand(c, role) ==
    LET ch == [chains[c] EXCEPT !.id = NoId] IN
    CASE ch.cmd = "talk" -> Ends(c)
      [] ch.cmd = "link_start" ->
           Moves(c, IF v2 THEN [ch EXCEPT !.at = "mapping", !.goal = "code"]
                          ELSE [ch EXCEPT !.at = "issue"])
      [] ch.cmd = "link_confirm" -> Moves(c, [ch EXCEPT !.at = "lock"])
      [] ch.cmd = "upgrade" ->
           IF role = "monarch" THEN Moves(c, [ch EXCEPT !.at = "mapping", !.goal = "upgrade"])
                               ELSE Ends(c)

-----------------------------------------------------------------------------
(* Looking an id up: the mapping first, then the legacy row.  Three        *)
(* functions do it alike: resolveGlobalUserIdForTelegramUser,              *)
(* resolveUserAccess and resolveExistingGlobalUserIdV2.                    *)

(* An upgrade is refused to all but the monarch.  Two of the monarch's at  *)
(* a time are left out (bound).                                            *)
Receive(c, u, cmd) ==
    /\ Starts(c)
    /\ cmd = "upgrade" => u \in Monarchs /\ \A d \in Chains : chains[d].cmd # "upgrade"
    /\ Moves(c, [NoChain EXCEPT !.at = "mapping", !.user = u, !.cmd = cmd])
    /\ UNCHANGED <<tables, v2, faults, drawn, granted, overtaken>>

ReadMapping(c) ==
    /\ At(c, "mapping")
    /\ IF mapping[UserOf(c)] # NoId THEN Resolved(c, mapping[UserOf(c)]) ELSE Goes(c, "legacy")
    /\ UNCHANGED <<tables, v2, started, faults, drawn, granted, overtaken>>

ReadLegacy(c) ==
    /\ At(c, "legacy")
    /\ Resolved(c, profile[UserOf(c)].id)
    /\ UNCHANGED <<tables, v2, started, faults, drawn, granted, overtaken>>

-----------------------------------------------------------------------------
(* ensureUserProfile *)

(* generateUniqueGlobalUserId: an id that nobody has; which one makes no   *)
(* difference.                                                             *)
NewId == CHOOSE id \in NewIds : id \notin drawn

(* The row by chat_id, which may have come since; else a new id.           *)
ReadChat(c) ==
    /\ At(c, "chat")
    /\ \/ /\ profile[UserOf(c)].id # NoId
          /\ Found(c, "write_profile", profile[UserOf(c)].id)
          /\ UNCHANGED drawn
       \/ /\ profile[UserOf(c)].id = NoId
          /\ NewIds # drawn
          /\ Found(c, "write_profile", NewId) /\ drawn' = drawn \cup {NewId}
    /\ UNCHANGED <<tables, v2, started, faults, granted, overtaken>>

(* COALESCE keeps the id of a row that is there; the role is overwritten.  *)
UpsertProfile(u, id) ==
    profile' = [profile EXCEPT ![u] = Row(IF @.id = NoId THEN id ELSE @.id, DefaultRole(u))]

WriteProfile(c) ==
    /\ At(c, "write_profile")
    /\ UpsertProfile(UserOf(c), IdOf(c))
    /\ Goes(c, "write_mapping")
    /\ UNCHANGED <<mapping, links, codes, v2, started, faults, drawn, granted, overtaken>>

(* Mutant: DO UPDATE instead of DO NOTHING. *)
InsertMappingAnyway(u, id) == mapping' = [mapping EXCEPT ![u] = id]

(* INSERT ... ON CONFLICT DO NOTHING. *)
InsertMapping(u, id) ==
    mapping' = [mapping EXCEPT ![u] = IF @ = NoId THEN id ELSE @]

WriteMapping(c) ==
    /\ At(c, "write_mapping")
    /\ InsertMapping(UserOf(c), IdOf(c))
    /\ ToAccess(c)
    /\ UNCHANGED <<profile, links, codes, v2, started, faults, drawn, granted, overtaken>>

(* resolveUserAccess: the role of the row with this id.                    *)
RoleOf(id) ==
    IF \E u \in Users : id # NoId /\ profile[u].id = id
    THEN profile[CHOOSE u \in Users : profile[u].id = id].role ELSE "guest"

ReadRole(c) ==
    /\ At(c, "role")
    /\ ToCommand(c, IF UserOf(c) \in Monarchs THEN "monarch" ELSE RoleOf(IdOf(c)))
    /\ UNCHANGED <<tables, v2, started, faults, drawn, granted, overtaken>>

-----------------------------------------------------------------------------
(* Link codes *)

(* Mutant: no fall-back on the legacy id. *)
CodeIdFound(c) == IdOf(c)

(* createLinkCode does not look the id up; createLinkCodeV2 falls back on  *)
(* the legacy id.                                                          *)
CodeId(c) == IF IdOf(c) = NoId THEN UserOf(c) ELSE IdOf(c)

Issue(c) ==
    /\ At(c, "issue")
    /\ \E k \in Codes :
         /\ codes[k].status = "free"
         /\ codes' = [codes EXCEPT ![k] =
                [status |-> "pending", user |-> UserOf(c), id |-> CodeId(c), late |-> FALSE]]
    /\ Ends(c)
    /\ UNCHANGED <<profile, mapping, links, v2, started, faults, drawn, granted, overtaken>>

(* expires_at passes. *)
Expire(k) ==
    /\ codes[k].status = "pending" /\ ~codes[k].late
    /\ codes' = [codes EXCEPT ![k].late = TRUE]
    /\ UNCHANGED <<profile, mapping, links, chains, v2, started, faults, drawn, granted, overtaken>>

(* Mutant: SELECT without FOR UPDATE. *)
LockedNever(k) == FALSE

(* SELECT ... FOR UPDATE waits while another transaction holds the row.    *)
Locked(k) == \E d \in Chains : At(d, "link") /\ chains[d].code = k

(* Mutant: the bind check is left out. *)
ConfirmableByAll(k, u) == codes[k].status = "pending" /\ ~codes[k].late

Confirmable(k, u) ==
    codes[k].user = u /\ codes[k].status = "pending" /\ ~codes[k].late

(* The sender names the code k, perhaps one of somebody else.              *)
LockCode(c, k) ==
    /\ At(c, "lock") /\ codes[k].status # "free"
    /\ ~Locked(k)
    /\ IF Confirmable(k, UserOf(c))
       THEN Moves(c, [chains[c] EXCEPT !.at = "link", !.code = k, !.id = codes[k].id])
       ELSE Ends(c)
    /\ UNCHANGED <<tables, v2, started, faults, drawn, granted, overtaken>>

CodeNotFound(c) ==
    /\ At(c, "lock")
    /\ Ends(c)
    /\ UNCHANGED <<tables, v2, started, faults, drawn, granted, overtaken>>

(* The rest of the transaction of confirmLinkCode, seen at its COMMIT.     *)
Link(c) ==
    /\ At(c, "link")
    /\ links' = [links EXCEPT ![UserOf(c)] = IdOf(c)]
    /\ mapping' = [mapping EXCEPT ![UserOf(c)] = IdOf(c)]
    /\ codes' = [codes EXCEPT ![chains[c].code].status = "consumed"]
    /\ Ends(c)
    /\ overtaken' = overtaken \cup
         {UserOf(d) : d \in {e \in Chains : chains[e].goal = "upgrade" /\ UserOf(e) = UserOf(c)}}
    /\ UNCHANGED <<profile, v2, started, faults, drawn, granted>>

-----------------------------------------------------------------------------
(* /identity_upgrade_legacy go *)

(* The codes a confirmation holds and the upgrade would rewrite: it waits  *)
(* for them with the other rows locked, and the confirmation may in turn   *)
(* wait for those.                                                         *)
Holds(d, id) == At(d, "link") /\ codes[chains[d].code].id = id

Renamed(id, old, new) == IF id = old THEN new ELSE id

(* Mutant: user_links is forgotten. *)
RewriteNoLinks(old, new) == UNCHANGED links

RewriteLinks(old, new) == links' = [u \in Users |-> Renamed(links[u], old, new)]

(* The transaction, seen at its COMMIT. *)
Rewrite(c) ==
    LET old == IdOf(c)  new == NewId IN
    /\ At(c, "rewrite") /\ NewIds # drawn
    /\ \A d \in Chains : ~Holds(d, old)
    /\ drawn' = drawn \cup {new}
    /\ profile' = [u \in Users |-> [profile[u] EXCEPT !.id = Renamed(@, old, new)]]
    /\ mapping' = [mapping EXCEPT ![UserOf(c)] = IF @ = NoId THEN @ ELSE new]
    /\ RewriteLinks(old, new)
    /\ codes' = [k \in Codes |-> [codes[k] EXCEPT !.id = Renamed(@, old, new)]]
    /\ Ends(c)
    /\ UNCHANGED <<v2, started, faults, granted, overtaken>>

(* Each waits for a row of the other: PostgreSQL rolls one of them back.   *)
Deadlock(c, d, victim) ==
    /\ At(c, "rewrite") /\ Holds(d, IdOf(c))
    /\ victim \in {c, d}
    /\ Ends(victim)
    /\ UNCHANGED <<tables, v2, started, faults, drawn, granted, overtaken>>

-----------------------------------------------------------------------------
(* /grant, /revoke and /identity_backfill: the monarch's commands, of      *)
(* which the part before the command is left out.                          *)

(* resolveGrantTarget: through the mapping to a row, else the row of the   *)
(* Telegram user.                                                          *)
TargetId(u) ==
    IF \E w \in Users : mapping[u] # NoId /\ profile[w].id = mapping[u]
    THEN mapping[u] ELSE profile[u].id

StartGrant(c, u, role) ==
    /\ Starts(c)
    /\ TargetId(u) # NoId
    /\ Moves(c, [NoChain EXCEPT !.at = "write_role", !.user = u, !.id = TargetId(u), !.role = role])
    /\ UNCHANGED <<tables, v2, faults, drawn, granted, overtaken>>

WriteRole(c) ==
    /\ At(c, "write_role")
    /\ profile' = [u \in Users |-> IF profile[u].id = IdOf(c)
                                   THEN Row(IdOf(c), chains[c].role) ELSE profile[u]]
    /\ granted' = [granted EXCEPT ![UserOf(c)] = @ \cup ({chains[c].role} \ {"guest"})]
    /\ Ends(c)
    /\ UNCHANGED <<mapping, links, codes, v2, started, faults, drawn, overtaken>>

(* A row of which no identity carries the id: one of the list that the     *)
(* handler reads and then works through, which may be stale by then.       *)
StartBackfill(c, u) ==
    /\ Starts(c)
    /\ profile[u].id # NoId /\ \A w \in Users : mapping[w] # profile[u].id
    /\ Moves(c, [NoChain EXCEPT !.at = "backfill", !.user = u, !.id = profile[u].id])
    /\ UNCHANGED <<tables, v2, faults, drawn, granted, overtaken>>

Backfill(c) ==
    /\ At(c, "backfill")
    /\ InsertMapping(UserOf(c), IdOf(c))
    /\ Ends(c)
    /\ UNCHANGED <<profile, links, codes, v2, started, faults, drawn, granted, overtaken>>

-----------------------------------------------------------------------------
(* A query fails, or the transaction around it: ensureUserProfile gives up *)
(* and is ignored, resolveUserAccess leaves a guest, the look-up of V2     *)
(* goes on without, and every other command ends.                          *)
Fails(c) ==
    /\ ~At(c, "idle") /\ started + faults < MaxEvents
    /\ faults' = faults + 1
    /\ LET ch == chains[c]
           inProfile == ch.at \in {"mapping", "legacy", "chat", "write_profile", "write_mapping"}
                        /\ ch.goal = "profile"
           inAccess  == ch.at \in {"mapping", "legacy", "role"} /\ ch.goal = "access"
           inCode    == ch.at \in {"mapping", "legacy"} /\ ch.goal = "code" IN
       CASE inProfile -> ToAccess(c)
         [] inAccess  -> ToCommand(c, "guest")
         [] inCode    -> IF ch.at = "mapping" THEN Goes(c, "legacy") ELSE Resolved(c, NoId)
         [] OTHER     -> Ends(c)
    /\ UNCHANGED <<tables, v2, started, drawn, granted, overtaken>>

Next ==
    \/ \E c \in Chains :
         \/ \E u \in Users :
              \/ \E cmd \in Commands : Receive(c, u, cmd)
              \/ \E role \in GrantRoles \cup {"guest"} : StartGrant(c, u, role)
              \/ StartBackfill(c, u)
         \/ ReadMapping(c) \/ ReadLegacy(c)
         \/ ReadChat(c) \/ WriteProfile(c) \/ WriteMapping(c) \/ ReadRole(c)
         \/ Issue(c) \/ CodeNotFound(c) \/ Link(c)
         \/ \E k \in Codes : LockCode(c, k)
         \/ Rewrite(c) \/ \E d \in Chains : \E victim \in Chains : Deadlock(c, d, victim)
         \/ WriteRole(c) \/ Backfill(c) \/ Fails(c)
    \/ \E k \in Codes : Expire(k)

Spec == Init /\ [][Next]_vars

-----------------------------------------------------------------------------
(* Properties *)

(* Types; a chain has a user, a code an id.                                *)
TypeOK ==
    /\ profile \in [Users -> [id : Ids \cup {NoId}, role : Roles]]
    /\ mapping \in [Users -> Ids \cup {NoId}] /\ links \in [Users -> Ids \cup {NoId}]
    /\ codes \in [Codes -> [status : {"free", "pending", "consumed"}, user : Users \cup {NoUser},
                            id : Ids \cup {NoId}, late : BOOLEAN]]
    /\ chains \in [Chains -> [at : Awaits \cup {"idle"}, user : Users \cup {NoUser},
                              cmd : Commands, goal : Goals, id : Ids \cup {NoId},
                              role : Roles, code : Codes \cup {NoCode}]]
    /\ \A c \in Chains : At(c, "idle") \/ UserOf(c) # NoUser
    /\ \A k \in Codes : codes[k].status = "free" <=> codes[k].id = NoId
    /\ v2 \in BOOLEAN /\ started \in Nat /\ faults \in Nat
    /\ drawn \subseteq NewIds /\ overtaken \subseteq Users /\ granted \in [Users -> SUBSET GrantRoles]

(* Every id a user goes by, in any table or in the hand of a chain that    *)
(* will write it.                                                          *)
IdsOf(u) ==
    {profile[u].id, mapping[u], links[u]} \cup
    {codes[k].id : k \in {j \in Codes : codes[j].user = u}} \cup
    {IdOf(c) : c \in {d \in Chains : UserOf(d) = u}}

(* No two users go by one global id, whatever first contacts, link codes   *)
(* and upgrades do at the same time: what is stored under an id is the     *)
(* user's alone (ensureUserProfile, confirmLinkCode's bind check).         *)
IdsSeparate ==
    \A u, w \in Users : u # w => IdsOf(u) \cap IdsOf(w) \subseteq {NoId}

(* A code links its user once, and only while it is pending: of two       *)
(* confirmations at the same time one waits for the row, and then finds    *)
(* the code used (confirmLinkCode, "Lock row to prevent race").            *)
CodeLinksOnce ==
    \A c \in Chains : At(c, "link") =>
        /\ codes[chains[c].code].status = "pending"
        /\ \A d \in Chains : At(d, "link") /\ chains[d].code = chains[c].code => d = c

(* An active link names the id that messages of this user resolve to:      *)
(* confirmation and upgrade each change both tables or neither.  The       *)
(* exception is an upgrade that a confirmation overtook after its look-up. *)
LinksMatch == \A u \in Users : links[u] # NoId => u \in overtaken \/ links[u] = mapping[u]

(* A role above the default was granted to this user, whichever id the     *)
(* grant was resolved to.                                                  *)
RoleFromGrant ==
    \A u \in Users : profile[u].role \in granted[u] \cup {"guest", DefaultRole(u)}

(* Mapping and row of a user agree on the id. *)
Agree(u) == mapping[u] # NoId /\ mapping[u] = profile[u].id

(* Once they agree they agree for ever, for everyone but the monarch and   *)
(* with LINKING_V2, unless a look-up failed: neither a message that was    *)
(* under way at the time nor a link code takes the identity away.          *)
AgreementKept ==
    [][\A u \in Users \ Monarchs : v2 /\ faults = 0 /\ Agree(u) => Agree(u)']_vars
=============================================================================
