---------------------------- MODULE SocialFirehose ----------------------------
(***************************************************************************)
(* The bluesky source: a socket that resumes from a cursor, and a file     *)
(* that keeps the cursor over a restart.  The cursor moves, and the file   *)
(* is written, before a message's post is emitted; the handlers of several *)
(* messages write the file at the same time.  Every event carries one post *)
(* and its number is its cursor.  The server keeps all events, and replays *)
(* those after a cursor, or from it.                                       *)
(***************************************************************************)
EXTENDS Naturals

CONSTANTS
    MaxSeq,         \* bound: events that appear
    MaxHandlers,    \* bound: messages being handled at once
    MaxBreaks,      \* bound: sockets that close
    MaxCrashes      \* bound: processes that end

ASSUME FirehoseConstants == {MaxSeq, MaxHandlers, MaxBreaks, MaxCrashes} \subseteq Nat

VARIABLES
    newestEvent,    \* of the server
    cursor,         \* 0: undefined
    cursorFile,     \* 0: missing or empty
    socket,         \* "off", "backoff" or "open"
    nextEvent,      \* the event the open socket brings next
    handled,        \* per handler of a message: event, stage, text to write
    seenPosts,
    breaks, crashes,
    arrived,        \* history: times an event's post was emitted
    lostInCrash,    \* history: events whose handler a crash ended
    unseen          \* history: events older than a connection without a cursor

jetstreamVars == <<newestEvent, breaks, crashes>>
historyVars == <<arrived, lostInCrash, unseen>>
firehoseVars == <<jetstreamVars, cursor, cursorFile, socket, nextEvent, handled,
                  seenPosts, historyVars>>

Slot == 1..MaxHandlers
Idle == [event |-> 0, stage |-> "none", text |-> 0]

FirehoseInit ==
    /\ newestEvent = 0
    /\ cursor = 0 /\ cursorFile = 0
    /\ socket = "off" /\ nextEvent = 0
    /\ handled = [k \in Slot |-> Idle] /\ seenPosts = {}
    /\ breaks = 0 /\ crashes = 0
    /\ arrived = [e \in 1..MaxSeq |-> 0] /\ lostInCrash = {} /\ unseen = {}

-----------------------------------------------------------------------------
(* The connection *)

\* Bug: the reconnection leaves the cursor out.
Resume_Live(from) == {newestEvent + 1}

\* The event the server begins with.
Resume(from) == IF from = 0 THEN {newestEvent + 1} ELSE {from, from + 1}

\* connect with the cursor.
ConnectFrom(from) ==
    /\ socket' = "open"
    /\ nextEvent' \in Resume(from)
    /\ unseen' = IF from = 0 THEN unseen \union 1..newestEvent ELSE unseen

\* restoreCursor, then connect.
StartFirehose ==
    /\ socket = "off"
    /\ cursor' = cursorFile
    /\ ConnectFrom(cursorFile)
    /\ UNCHANGED <<jetstreamVars, cursorFile, handled, seenPosts, arrived, lostInCrash>>

Reconnect ==
    /\ socket = "backoff"
    /\ ConnectFrom(cursor)
    /\ UNCHANGED <<jetstreamVars, cursor, cursorFile, handled, seenPosts, arrived, lostInCrash>>

\* The socket closes, by itself or because the heartbeat missed messages.  What
\* the server has sent and the socket has not brought is gone.
SocketCloses ==
    /\ socket = "open" /\ breaks < MaxBreaks
    /\ socket' = "backoff"
    /\ breaks' = breaks + 1
    /\ UNCHANGED <<newestEvent, crashes, cursor, cursorFile, nextEvent, handled,
                   seenPosts, historyVars>>

EventAppears ==
    /\ newestEvent < MaxSeq
    /\ newestEvent' = newestEvent + 1
    /\ UNCHANGED <<breaks, crashes, cursor, cursorFile, socket, nextEvent,
                   handled, seenPosts, historyVars>>

-----------------------------------------------------------------------------
(* handleMessage *)

\* Up to the await of mkdir.
MessageArrives(k) ==
    /\ socket = "open" /\ nextEvent <= newestEvent
    /\ handled[k] = Idle
    /\ cursor' = nextEvent
    /\ nextEvent' = nextEvent + 1
    /\ handled' = [handled EXCEPT ![k] = [event |-> nextEvent, stage |-> "mkdir", text |-> 0]]
    /\ UNCHANGED <<jetstreamVars, cursorFile, socket, seenPosts, historyVars>>

\* writeFile empties the file; the text is the cursor of now, which may be that
\* of a later message.
OpenFile(k) ==
    /\ handled[k].stage = "mkdir"
    /\ handled' = [handled EXCEPT ![k].stage = "writing", ![k].text = cursor]
    /\ cursorFile' = 0
    /\ UNCHANGED <<jetstreamVars, cursor, socket, nextEvent, seenPosts, historyVars>>

\* The rest of the handler: the post is emitted unless it was seen.
EmitPost(k) ==
    /\ seenPosts' = seenPosts \union {handled[k].event}
    /\ arrived' = IF handled[k].event \in seenPosts THEN arrived
                  ELSE [arrived EXCEPT ![handled[k].event] = @ + 1]
    /\ handled' = [handled EXCEPT ![k] = Idle]
    /\ UNCHANGED <<jetstreamVars, cursor, socket, nextEvent, lostInCrash, unseen>>

\* The writes of two handlers end in any order.
WriteEnds(k) ==
    /\ handled[k].stage = "writing"
    /\ cursorFile' = handled[k].text
    /\ EmitPost(k)

\* A failure, of mkdir or of the write, is logged.
WriteFails(k) ==
    /\ handled[k] # Idle
    /\ EmitPost(k)
    /\ UNCHANGED cursorFile

\* The process ends between two steps.
FirehoseCrashes ==
    /\ socket # "off" /\ crashes < MaxCrashes
    /\ crashes' = crashes + 1
    /\ lostInCrash' = lostInCrash \union ({handled[k].event : k \in Slot} \ {0})
    /\ handled' = [k \in Slot |-> Idle]
    /\ socket' = "off" /\ cursor' = 0 /\ nextEvent' = 0 /\ seenPosts' = {}
    /\ UNCHANGED <<newestEvent, breaks, cursorFile, arrived, unseen>>

FirehoseNext ==
    \/ StartFirehose \/ Reconnect \/ SocketCloses \/ EventAppears \/ FirehoseCrashes
    \/ \E k \in Slot : \/ MessageArrives(k) \/ OpenFile(k)
                       \/ WriteEnds(k) \/ WriteFails(k)

FirehoseSpec == FirehoseInit /\ [][FirehoseNext]_firehoseVars

-----------------------------------------------------------------------------
(* Property *)

\* Every event up to the cursor, in memory or in the file, has had its post
\* emitted, is being handled, was being handled when the process ended, or is
\* older than a connection made without a cursor: what moves the cursor before
\* its post is emitted, and writes of the file that end out of order, lose no
\* post of a process that goes on.
MissedOnlyAtCrash ==
    \A e \in 1..MaxSeq :
        e <= cursor \/ e <= cursorFile =>
            \/ arrived[e] > 0
            \/ e \in lostInCrash \union unseen
            \/ \E k \in Slot : handled[k].event = e

\* An event the server brings again, on a reconnection or because the file went
\* back, is emitted again only by a new process.
RepeatedOnlyByRestart == \A e \in 1..MaxSeq : arrived[e] <= 1 + crashes
=============================================================================
