------------------------------ MODULE Messaging -----------------------------
(***************************************************************************)
(* Conversations, messages and who is online (src/messaging).              *)
(*                                                                         *)
(* Each socket has two handlers that may run at once, handleConnection and *)
(* handleDisconnect; the other calls hold a slot each.  The sockets of the *)
(* online users are sets in Redis, which a process that dies leaves as     *)
(* they are.  Time is counted in messages: createdAt is the place of a     *)
(* message in the order of the inserts, seenAt the number there are.       *)
(* "typing" and the listings change nothing and are left out.              *)
(***************************************************************************)
EXTENDS Integers, Sequences, FiniteSets

CONSTANTS
  Members,
  Sockets,
  Conversations,
  Calls,
  MaxThings,     \* bound on sockets, conversations and messages in all
  MaxSlips       \* bound on deaths of the process and errors of Redis

ASSUME MessagingConstants ==
  /\ IsFiniteSet(Sockets) /\ IsFiniteSet(Conversations)
  /\ MaxThings \in Nat /\ MaxSlips \in Nat

VARIABLES
  conversation,  \* participants, lastMessageAt, and lastReadAt of each
  message,       \* messages, by createdAt
  call,          \* the handler in each slot
  socket,        \* user, open, rooms, and where its two handlers are
  presence,      \* messaging:presence:<user>
  told,          \* history: what was last broadcast of each user
  stranded,      \* history: sockets nobody removes from presence
  disturbed,     \* history: users whose broadcasts crossed or were cut short
  rushed,        \* history: pairs that were looked up while being created
  crossed,       \* history: conversations, and readers, written by two at once
  latest,        \* history: latest seenAt of each reader
  slips          \* history: number of faults

stored   == <<conversation, message>>
online   == <<socket, presence, told, stranded, disturbed>>
record   == <<rushed, crossed, latest>>
messagingVars == <<stored, call, online, record, slips>>

Times      == 0..MaxThings
Unstarted  == [of |-> {}]
NoCall       == [pc |-> "idle"]
NoSocket   == [open |-> FALSE, in |-> "new", out |-> "none"]
Groups     == {ps \in SUBSET Members : Cardinality(ps) >= 2}
Readers    == Conversations \X Members

Conversation == [of: Groups, lastMessageAt: Times, read: [Members -> Times]]
Message      == [to: Conversations, from: Members]

MessagingTypeOK ==
  /\ conversation \in [Conversations -> {Unstarted} \cup Conversation]
  /\ message \in Seq(Message)
  /\ call \in [Calls -> {NoCall} \cup [pc: {"create"}, of: Groups]
        \cup [pc: {"touch"}, to: Conversations, at: Times]
        \cup [pc: {"seen"}, to: Conversations, by: Members, at: Times]]
  /\ socket \in [Sockets -> {NoSocket} \cup
       [open: BOOLEAN, in: {"auth", "join", "add", "count", "done"},
        out: {"none", "remove", "count", "list", "done"}, user: Members, rooms: SUBSET Conversations]]
  /\ \A s \in Sockets : socket[s].in = "auth" => socket[s].out \in {"none", "done"}
  /\ presence \in [Members -> SUBSET Sockets] /\ told \in [Members -> {"offline", "online"}]
  /\ stranded \subseteq Sockets /\ disturbed \subseteq Members
  /\ rushed \subseteq Groups /\ crossed \subseteq Conversations \cup Readers
  /\ latest \in [Readers -> Times] /\ slips \in 0..MaxSlips

MessagingInit ==
  /\ conversation = [c \in Conversations |-> Unstarted] /\ message = <<>>
  /\ call = [r \in Calls |-> NoCall] /\ socket = [s \in Sockets |-> NoSocket]
  /\ presence = [u \in Members |-> {}] /\ told = [u \in Members |-> "offline"]
  /\ stranded = {} /\ disturbed = {} /\ rushed = {} /\ crossed = {}
  /\ latest = [x \in Readers |-> 0] /\ slips = 0

Slip    == slips < MaxSlips /\ slips' = slips + 1                               \* bound
Started == {c \in Conversations : conversation[c] # Unstarted}
Sparing == Cardinality({s \in Sockets : socket[s] # NoSocket} \cup Started) + Len(message) < MaxThings  \* bound

---------------------------------------------------------------------------
(* MessagingGateway.handleConnection, one step per awaited query           *)
Connected(s) == socket[s] # NoSocket
In(s, pc)    == socket[s].in = pc
Out(s, pc)   == socket[s].out = pc
UserOf(s)    == socket[s].user
Rooms(u)     == {c \in Conversations : u \in conversation[c].of}

\* A handler of u that has changed the set and not yet broadcast.
Announcing(u) == \E s \in Sockets : Connected(s) /\ UserOf(s) = u
                   /\ (In(s, "count") \/ Out(s, "count") \/ Out(s, "list"))
Disturb(u)    == disturbed' = IF Announcing(u) THEN disturbed \cup {u} ELSE disturbed

Connect(s, u) ==
  /\ ~Connected(s) /\ Sparing
  /\ socket' = [socket EXCEPT ![s] = [open |-> TRUE, in |-> "auth", out |-> "none", user |-> u, rooms |-> {}]]
  /\ UNCHANGED <<stored, call, presence, told, stranded, disturbed, record, slips>>

\* WsAuthService.authenticate: refused, the socket is disconnected unknown.
Authenticate(s) ==
  /\ In(s, "auth")
  /\ socket' \in {[socket EXCEPT ![s].in = "join"], [socket EXCEPT ![s].in = "done", ![s].open = FALSE]}
  /\ UNCHANGED <<stored, call, presence, told, stranded, disturbed, record, slips>>

\* socket.join does nothing once the socket has closed.
JoinRooms(s) ==
  /\ In(s, "join")
  /\ socket' = [socket EXCEPT ![s].in = "add", ![s].rooms = IF socket[s].open THEN Rooms(UserOf(s)) ELSE {}]
  /\ UNCHANGED <<stored, call, presence, told, stranded, disturbed, record, slips>>

(* PresenceService.addConnection: SADD, then SCARD                         *)
AddConnection(s) ==
  /\ In(s, "add")
  /\ presence' = [presence EXCEPT ![UserOf(s)] = @ \cup {s}]
  /\ socket' = [socket EXCEPT ![s].in = "count"]
  /\ stranded' = IF socket[s].open \/ Out(s, "remove") THEN stranded ELSE stranded \cup {s}
  /\ Disturb(UserOf(s))
  /\ UNCHANGED <<stored, call, told, record, slips>>

AnnounceOnline(s) ==
  /\ In(s, "count")
  /\ told' = IF Cardinality(presence[UserOf(s)]) = 1 THEN [told EXCEPT ![UserOf(s)] = "online"] ELSE told
  /\ socket' = [socket EXCEPT ![s].in = "done"]
  /\ UNCHANGED <<stored, call, presence, stranded, disturbed, record, slips>>

\* An error in the handshake disconnects the socket.
HandshakeFails(s) ==
  /\ Connected(s) /\ socket[s].in \in {"join", "add", "count"} /\ Slip
  /\ socket' = [socket EXCEPT ![s].in = "done", ![s].open = FALSE, ![s].rooms = {},
                              ![s].out = IF socket[s].open THEN "remove" ELSE @]
  /\ disturbed' = IF In(s, "count") THEN disturbed \cup {UserOf(s)} ELSE disturbed
  /\ UNCHANGED <<stored, call, presence, told, stranded, record>>

(* MessagingGateway.handleDisconnect, which knows the user only once the   *)
(* socket has been authenticated                                           *)
\* Mutant: a user is expected on every socket that closes.
DisconnectAnyone(s) ==
  /\ Connected(s) /\ socket[s].open
  /\ socket' = [socket EXCEPT ![s].open = FALSE, ![s].rooms = {}, ![s].out = "remove"]
  /\ UNCHANGED <<stored, call, presence, told, stranded, disturbed, record, slips>>

Disconnect(s) ==
  /\ Connected(s) /\ socket[s].open
  /\ socket' = [socket EXCEPT ![s].open = FALSE, ![s].rooms = {},
                              ![s].out = IF In(s, "auth") THEN "done" ELSE "remove"]
  /\ UNCHANGED <<stored, call, presence, told, stranded, disturbed, record, slips>>

\* Mutant: the number of sockets left is not asked for.
AnnounceAtOnce(s) ==
  /\ Out(s, "remove")
  /\ presence' = [presence EXCEPT ![UserOf(s)] = @ \ {s}]
  /\ socket' = [socket EXCEPT ![s].out = "list"]
  /\ Disturb(UserOf(s))
  /\ UNCHANGED <<stored, call, told, stranded, record, slips>>

(* PresenceService.removeConnection: SREM, then SCARD                      *)
RemoveConnection(s) ==
  /\ Out(s, "remove")
  /\ presence' = [presence EXCEPT ![UserOf(s)] = @ \ {s}]
  /\ socket' = [socket EXCEPT ![s].out = "count"]
  /\ Disturb(UserOf(s))
  /\ UNCHANGED <<stored, call, told, stranded, record, slips>>

CountRemaining(s) ==
  /\ Out(s, "count")
  /\ socket' = [socket EXCEPT ![s].out = IF presence[UserOf(s)] = {} THEN "list" ELSE "done"]
  /\ UNCHANGED <<stored, call, presence, told, stranded, disturbed, record, slips>>

AnnounceOffline(s) ==
  /\ Out(s, "list")
  /\ told' = [told EXCEPT ![UserOf(s)] = "offline"]
  /\ socket' = [socket EXCEPT ![s].out = "done"]
  /\ UNCHANGED <<stored, call, presence, stranded, disturbed, record, slips>>

RemovalFails(s) ==
  /\ Connected(s) /\ socket[s].out \in {"remove", "count", "list"} /\ Slip
  /\ stranded' = IF Out(s, "remove") THEN stranded \cup {s} ELSE stranded
  /\ disturbed' = IF Out(s, "remove") THEN disturbed ELSE disturbed \cup {UserOf(s)}
  /\ socket' = [socket EXCEPT ![s].out = "done"]
  /\ UNCHANGED <<stored, call, presence, told, record>>

(* handleJoinConversation, with assertParticipantById                      *)
JoinConversation(s, c) ==
  /\ Connected(s) /\ socket[s].open /\ ~In(s, "auth") /\ UserOf(s) \in conversation[c].of
  /\ socket' = [socket EXCEPT ![s].rooms = @ \cup {c}]
  /\ UNCHANGED <<stored, call, presence, told, stranded, disturbed, record, slips>>

---------------------------------------------------------------------------
(* ConversationsService.create for the group ps: a pair that already talks *)
(* gets its conversation back.                                             *)
Begin(r, q) == call[r] = NoCall /\ call' = [call EXCEPT ![r] = q]
End(r)      == call' = [call EXCEPT ![r] = NoCall]
Pair(ps)    == Cardinality(ps) = 2

\* Mutant: a conversation is found only when it has a third participant.
FindExistingGroup(r, ps) ==
  /\ ~Pair(ps) => \A c \in Conversations : conversation[c].of # ps
  /\ Begin(r, [pc |-> "create", of |-> ps])
  /\ rushed' = IF \E o \in Calls : call[o].pc = "create" /\ call[o].of = ps THEN rushed \cup {ps} ELSE rushed
  /\ UNCHANGED <<stored, online, crossed, latest, slips>>

FindExistingDirect(r, ps) ==
  /\ Pair(ps) => \A c \in Conversations : conversation[c].of # ps
  /\ Begin(r, [pc |-> "create", of |-> ps])
  /\ rushed' = IF \E o \in Calls : call[o].pc = "create" /\ call[o].of = ps THEN rushed \cup {ps} ELSE rushed
  /\ UNCHANGED <<stored, online, crossed, latest, slips>>

CreateConversation(r, c) ==
  /\ call[r].pc = "create" /\ conversation[c] = Unstarted /\ Sparing
  /\ conversation' = [conversation EXCEPT ![c] =
       [of |-> call[r].of, lastMessageAt |-> 0, read |-> [u \in Members |-> 0]]]
  /\ End(r)
  /\ UNCHANGED <<message, online, record, slips>>

---------------------------------------------------------------------------
(* MessagesService.create: the message, then the time on the conversation  *)
CreateMessage(r, u, c) ==
  /\ u \in conversation[c].of /\ Sparing
  /\ message' = Append(message, [to |-> c, from |-> u])
  /\ Begin(r, [pc |-> "touch", to |-> c, at |-> Len(message) + 1])
  /\ crossed' = IF \E o \in Calls : call[o].pc = "touch" /\ call[o].to = c THEN crossed \cup {c} ELSE crossed
  /\ UNCHANGED <<conversation, online, rushed, latest, slips>>

SetLastMessageAt(r) ==
  /\ call[r].pc = "touch"
  /\ conversation' = [conversation EXCEPT ![call[r].to].lastMessageAt = call[r].at]
  /\ End(r)
  /\ UNCHANGED <<message, online, record, slips>>

(* ConversationsService.markSeen: the time is taken before it is written   *)
MarkSeenBegin(r, u, c) ==
  /\ u \in conversation[c].of
  /\ Begin(r, [pc |-> "seen", to |-> c, by |-> u, at |-> Len(message)])
  /\ crossed' = IF \E o \in Calls : call[o].pc = "seen" /\ call[o].to = c /\ call[o].by = u
                THEN crossed \cup {<<c, u>>} ELSE crossed
  /\ UNCHANGED <<stored, online, rushed, latest, slips>>

MarkSeen(r) ==
  LET q == call[r] IN
  /\ q.pc = "seen"
  /\ conversation' = [conversation EXCEPT ![q.to].read[q.by] = q.at]
  /\ latest' = IF q.at > latest[<<q.to, q.by>>] THEN [latest EXCEPT ![<<q.to, q.by>>] = q.at] ELSE latest
  /\ End(r)
  /\ UNCHANGED <<message, online, rushed, crossed, slips>>

CallFails(r) ==
  /\ call[r] # NoCall /\ Slip /\ End(r)
  /\ crossed' = IF call[r].pc = "touch" THEN crossed \cup {call[r].to} ELSE crossed
  /\ UNCHANGED <<stored, online, rushed, latest>>

\* The process dies: its sockets close and no handler hears of it.
Crash ==
  /\ Slip
  /\ call' = [r \in Calls |-> NoCall]
  /\ socket' = [s \in Sockets |-> IF ~Connected(s) THEN NoSocket
                  ELSE [socket[s] EXCEPT !.open = FALSE, !.in = "done", !.rooms = {},
                          !.out = IF Out(s, "none") \/ Out(s, "done") THEN @ ELSE "done"]]
  /\ stranded' = stranded \cup UNION {presence[u] : u \in Members}
  /\ disturbed' = disturbed \cup {u \in Members : Announcing(u)}
  /\ crossed' = crossed \cup {call[r].to : r \in {o \in Calls : call[o].pc = "touch"}}
  /\ UNCHANGED <<stored, presence, told, rushed, latest>>

MessagingNext ==
  \/ Crash
  \/ \E s \in Sockets :
       \/ Authenticate(s) \/ JoinRooms(s) \/ AddConnection(s) \/ AnnounceOnline(s) \/ HandshakeFails(s)
       \/ Disconnect(s) \/ RemoveConnection(s) \/ CountRemaining(s) \/ AnnounceOffline(s) \/ RemovalFails(s)
       \/ \E u \in Members : Connect(s, u)
       \/ \E c \in Conversations : JoinConversation(s, c)
  \/ \E r \in Calls :
       \/ SetLastMessageAt(r) \/ MarkSeen(r) \/ CallFails(r)
       \/ \E ps \in Groups : FindExistingDirect(r, ps)
       \/ \E c \in Conversations :
            \/ CreateConversation(r, c)
            \/ \E u \in Members : CreateMessage(r, u, c) \/ MarkSeenBegin(r, u, c)
MessagingSpec == MessagingInit /\ [][MessagingNext]_messagingVars

---------------------------------------------------------------------------
Settled(s) == Connected(s) => In(s, "done") /\ socket[s].out \in {"none", "done"}

(* Once the handlers of a user are through, the set holds their open       *)
(* sockets and no other, unless a socket closed during its own handshake   *)
(* or a fault stranded it; and the last broadcast says whether the set is  *)
(* empty, unless two handlers changed it before either had broadcast.      *)
PresenceTrue ==
  \A u \in Members : (\A s \in Sockets : Connected(s) /\ UserOf(s) = u => Settled(s)) =>
    LET here == {s \in Sockets : Connected(s) /\ UserOf(s) = u /\ socket[s].open} IN
    /\ here \subseteq presence[u] /\ presence[u] \ here \subseteq stranded
    /\ u \notin disturbed => told[u] = IF presence[u] = {} THEN "offline" ELSE "online"

(* Two people have two conversations only if both creations looked before  *)
(* either wrote; a socket is in a room only as a participant; lastMessageAt*)
(* is the time of the last message and lastReadAt the latest that was read,*)
(* unless two writes crossed or one was cut short.                         *)
ConversationsSound ==
  /\ \A c, d \in Conversations : c # d /\ conversation[c] # Unstarted
       /\ conversation[c].of = conversation[d].of /\ Pair(conversation[c].of) => conversation[c].of \in rushed
  /\ \A s \in Sockets : Connected(s) => socket[s].rooms \subseteq Rooms(UserOf(s))
  /\ \A c \in Conversations : conversation[c] # Unstarted =>
       LET times == {t \in DOMAIN message : message[t].to = c} IN
       /\ (c \notin crossed /\ \A r \in Calls : call[r].pc = "touch" => call[r].to # c) =>
            \A t \in times \cup {0} : (t = conversation[c].lastMessageAt) = (\A x \in times : x <= t)
       /\ \A u \in Members : <<c, u>> \notin crossed => conversation[c].read[u] = latest[<<c, u>>]
=============================================================================
