---------------------------- MODULE SocialSources ----------------------------
(***************************************************************************)
(* social-ingestor as a whole: it starts its sources one after the other,  *)
(* keeps the status each reports and stops those it started; and the       *)
(* telegram source, which joins its chats before it listens.  A message is *)
(* its chat, the number it has there, and whether it has text.             *)
(***************************************************************************)
EXTENDS SocialPolling, SocialFirehose

CONSTANTS
    Source,         \* the polled sources
    Telegram,
    Chat, Channel,  \* every chat, and the configured ones
    MaxMessageId,
    MaxDeliveries   \* bound: updates of the client

ASSUME SourcesAssumption ==
    /\ Telegram \notin Source /\ Channel \subseteq Chat
    /\ {MaxMessageId, MaxDeliveries} \subseteq Nat

VARIABLES
    hasKeys,        \* the environment has the keys of a source
    toStart, toStop,    \* the sources left in the loops of bootstrap and shutdown
    startedSources, sourceState,    \* a source's own status
    statusMap,      \* what health serves
    telegramAt,     \* "off", "login", "joining", "listening" or "stopped"
    toJoin, allowedChats, seenMessages,
    deliveries,
    reached,        \* history: messages that came while telegram listened
    posts           \* history: times a message was emitted

telegramVars == <<telegramAt, toJoin, allowedChats, seenMessages, deliveries, reached, posts>>
lifeVars == <<hasKeys, toStart, toStop, startedSources>>
sourcesVars == <<lifeVars, sourceState, statusMap, telegramVars>>

AllSources == Source \union {Telegram}
Message == [chat : Chat, id : 1..MaxMessageId, text : BOOLEAN]

SourcesInit ==
    /\ hasKeys \in [AllSources -> BOOLEAN]
    /\ toStart = AllSources /\ toStop = {} /\ startedSources = {}
    /\ sourceState = [s \in AllSources |-> "idle"] /\ statusMap = sourceState
    /\ telegramAt = "off" /\ toJoin = {} /\ allowedChats = {} /\ seenMessages = {}
    /\ deliveries = 0 /\ reached = {} /\ posts = [m \in Message |-> 0]

\* updateStatus and, with it, onStatus.
Reports(s, state) ==
    /\ sourceState' = [sourceState EXCEPT ![s] = state]
    /\ statusMap' = [statusMap EXCEPT ![s] = state]

-----------------------------------------------------------------------------
(* bootstrap and shutdown; the order of the sources is left open *)

SkipSource(s) ==
    /\ s \in toStart /\ ~hasKeys[s] /\ telegramAt \notin {"login", "joining"}
    /\ toStart' = toStart \ {s}
    /\ statusMap' = [statusMap EXCEPT ![s] = "idle"]
    /\ UNCHANGED <<hasKeys, toStop, startedSources, sourceState, telegramVars>>

\* A polled source starts its loop, or finds that it is disabled.
StartPolled(s) ==
    /\ s \in Source \intersect toStart /\ hasKeys[s]
    /\ telegramAt \notin {"login", "joining"}
    /\ toStart' = toStart \ {s} /\ startedSources' = startedSources \union {s}
    /\ \E state \in {"idle", "running"} : Reports(s, state)
    /\ UNCHANGED <<hasKeys, toStop, telegramVars>>

BeginTelegram ==
    /\ Telegram \in toStart /\ hasKeys[Telegram] /\ telegramAt = "off"
    /\ telegramAt' = "login"
    /\ UNCHANGED <<lifeVars, sourceState, statusMap, toJoin, allowedChats, seenMessages,
                   deliveries, reached, posts>>

TelegramStarted ==
    /\ toStart' = toStart \ {Telegram}
    /\ startedSources' = startedSources \union {Telegram}
    /\ UNCHANGED <<hasKeys, toStop>>

\* start finds telegram disabled, without keys of its own or without channels.
TelegramIdle ==
    /\ Telegram \in toStart /\ hasKeys[Telegram] /\ telegramAt = "off"
    /\ TelegramStarted /\ Reports(Telegram, "idle")
    /\ UNCHANGED telegramVars

\* start reports the error and returns.
LoginFails ==
    /\ telegramAt = "login"
    /\ telegramAt' = "off"
    /\ TelegramStarted /\ Reports(Telegram, "error")
    /\ UNCHANGED <<toJoin, allowedChats, seenMessages, deliveries, reached, posts>>

LoggedIn ==
    /\ telegramAt = "login"
    /\ telegramAt' = "joining" /\ toJoin' = Channel
    /\ UNCHANGED <<lifeVars, sourceState, statusMap, allowedChats, seenMessages,
                   deliveries, reached, posts>>

\* ensureChannels: the lookup or the join of one chat may fail.
JoinChat(c) ==
    /\ telegramAt = "joining" /\ c \in toJoin
    /\ toJoin' = toJoin \ {c}
    /\ allowedChats' \in {allowedChats, allowedChats \union {c}}
    /\ UNCHANGED <<lifeVars, sourceState, statusMap, telegramAt, seenMessages, deliveries,
                   reached, posts>>

Listen ==
    /\ telegramAt = "joining" /\ toJoin = {}
    /\ telegramAt' = "listening"
    /\ TelegramStarted /\ Reports(Telegram, "running")
    /\ UNCHANGED <<toJoin, allowedChats, seenMessages, deliveries, reached, posts>>

\* The poll loop reports after each poll; one that was waiting does so after the stop.
PollReports(s) ==
    /\ s \in Source \intersect startedSources
    /\ \E state \in {"running", "error"} : Reports(s, state)
    /\ UNCHANGED <<lifeVars, telegramVars>>

\* The handlers of the signals are set behind the loop over the sources.
BeginShutdown ==
    /\ toStart = {} /\ toStop = {} /\ startedSources # {}
    /\ telegramAt # "stopped"
    /\ toStop' = startedSources
    /\ UNCHANGED <<hasKeys, toStart, startedSources, sourceState, statusMap, telegramVars>>

StopOne(s) ==
    /\ s \in toStop
    /\ toStop' = toStop \ {s}
    /\ Reports(s, "idle")
    /\ telegramAt' = IF s = Telegram THEN "stopped" ELSE telegramAt
    /\ UNCHANGED <<hasKeys, toStart, startedSources, toJoin, allowedChats, seenMessages,
                   deliveries, reached, posts>>

-----------------------------------------------------------------------------
(* handleUpdate *)

Delivered(m) ==
    /\ deliveries < MaxDeliveries /\ deliveries' = deliveries + 1
    /\ reached' = IF telegramAt = "listening" /\ m.chat \in allowedChats
                  THEN reached \union {m} ELSE reached
    /\ UNCHANGED <<lifeVars, sourceState, statusMap, telegramAt, toJoin, allowedChats>>

EmitsMessage(m) == posts' = IF m.text THEN [posts EXCEPT ![m] = @ + 1] ELSE posts

\* Bug: the number is noted before the chat is looked at.
HandleUpdate_SeenFirst(m) ==
    /\ Delivered(m)
    /\ IF telegramAt # "listening" \/ m.id \in seenMessages
       THEN UNCHANGED <<seenMessages, posts>>
       ELSE /\ seenMessages' = seenMessages \union {m.id}
            /\ IF m.chat \in allowedChats THEN EmitsMessage(m) ELSE UNCHANGED posts

\* An update before the handler is set, or after the stop, is nobody's.
HandleUpdate(m) ==
    /\ Delivered(m)
    /\ IF telegramAt # "listening" \/ m.chat \notin allowedChats \/ m.id \in seenMessages
       THEN UNCHANGED <<seenMessages, posts>>
       ELSE seenMessages' = seenMessages \union {m.id} /\ EmitsMessage(m)

SourcesNext ==
    \/ \E s \in AllSources : SkipSource(s) \/ StartPolled(s) \/ PollReports(s) \/ StopOne(s)
    \/ BeginTelegram \/ TelegramIdle \/ LoginFails \/ LoggedIn \/ Listen
    \/ \E c \in Chat : JoinChat(c)
    \/ BeginShutdown
    \/ \E m \in Message : HandleUpdate(m)

SourcesSpec == SourcesInit /\ [][SourcesNext]_sourcesVars

-----------------------------------------------------------------------------
(* Properties *)

\* A message of a joined chat that comes while telegram listens is emitted, and emitted
\* once however often it comes; the exception is a message whose number another message
\* had before, be it in another chat: numbers are per chat, the set of those seen is not.
MessagesArrive ==
    \A m \in Message :
        /\ posts[m] <= 1
        /\ posts[m] = 1 => m \in reached
        /\ m \in reached /\ m.text /\ posts[m] = 0 =>
              \E other \in reached \ {m} : other.id = m.id

\* Health serves the state that each source is in, and calls none running that was not
\* started.
HealthServesStates ==
    /\ statusMap = sourceState
    /\ \A s \in AllSources : statusMap[s] = "running" => s \in startedSources

SourcesAreHeard == MessagesArrive /\ HealthServesStates

\* Whatever the social sources bring arrives, and arrives once: a post is left out
\* only when the process ended while its message was handled or when there was no
\* cursor, and is repeated only when its id was dropped or by a new process.
SocialPostsArrive ==
    /\ RepeatedOnlyIfForgotten
    /\ MissedOnlyAtCrash /\ RepeatedOnlyByRestart
    /\ SourcesAreHeard
=============================================================================
