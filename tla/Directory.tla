------------------------------ MODULE Directory ------------------------------
(***************************************************************************)
(* One owner's DirectoryCell and the AgentCells of its chats               *)
(* (directory-cell.ts; agent-cell.ts: fetch, bootstrap, markArchived,      *)
(* pushActivity; the routes of index.ts).                                  *)
(*                                                                         *)
(* A chat is a row of the directory and an AgentCell, written one after    *)
(* the other: the directory changes its row, then awaits the agent, and    *)
(* serves other requests meanwhile.  Previews come back in pushes nobody   *)
(* waits for; an agent inserts a message and pushes later, or never when   *)
(* the message is refused.  Titles, which only rename changes, and the     *)
(* text of a message are left out.                                         *)
(***************************************************************************)
EXTENDS Integers, FiniteSets, FiniteSetsExt

CONSTANTS
    Chat,
    Default,      \* the chat a first access seeds
    Request,      \* requests the directory serves at a time
    ChatsPerOwner,\* LIMITS.chatsPerOwner
    Idle,         \* no request
    MaxMessages,  \* bound: messages of a chat
    MaxPushes,    \* bound: activity pushes of a chat
    MaxFaults     \* bound: calls that fail, pushes that are lost

ASSUME ChatAssumption == Default \in Chat
ASSUME LimitAssumption == ChatsPerOwner \in Nat \ {0}
ASSUME BoundsAssumption ==
    MaxMessages \in Nat /\ MaxPushes \in Nat /\ MaxFaults \in Nat

VARIABLES
    row,          \* chats: no row, listed, or archived
    shown,        \* chats.last_seq, and the push run_status is from
    call,         \* what a request to the directory waits for
    booted,       \* AgentCell: the agent row is there
    closed,       \* AgentCell: meta "archived"
    seq,          \* AgentCell: the seq of its last message
    sent,         \* AgentCell: pushes made so far
    pushed,       \* the seq of the last of them
    pushes,       \* pushes on their way
    missed,       \* a push of the chat was lost or refused
    excused,      \* a call about the chat failed, or bypassed the directory
    faults

directory == <<row, shown>>
agents == <<booted, closed, seq, sent, pushed>>
dirVars == <<directory, call, agents, pushes, missed, excused, faults>>

Call == [op : {"seed", "insert", "archive"}, chat : Chat, on : Chat,
         at : {"sent", "ok", "error"}, heard : BOOLEAN]

ASSUME IdleAssumption == Idle \notin Call

DirInit ==
    /\ row = [c \in Chat |-> "absent"]
    /\ shown = [c \in Chat |-> [seq |-> 0, nr |-> 0]]
    /\ call = [r \in Request |-> Idle]
    /\ booted = [c \in Chat |-> FALSE] /\ closed = [c \in Chat |-> FALSE]
    /\ seq = [c \in Chat |-> 0] /\ sent = [c \in Chat |-> 0]
    /\ pushed = [c \in Chat |-> 0]
    /\ pushes = {} /\ missed = {} /\ excused = {} /\ faults = 0

------------------------------------------------------------------------------
(* The directory *)

Listed(rows) == {c \in Chat : rows[c] = "listed"}
Empty == \A c \in Chat : row[c] = "absent"

\* Mutant: an archived chat does not hold its id.
TakenIfListed(rows, c) == rows[c] = "listed"

Taken(rows, c) == rows[c] # "absent"

\* The calls the directory makes: `chat` is what the request is about, `on`
\* the agent that is called.
Calls(r, what, c, d) ==
    call' = [call EXCEPT ![r] = [op |-> what, chat |-> c, on |-> d,
                                 at |-> "sent", heard |-> TRUE]]

\* insertAndBootstrap: the row first, the agent next.
Insert(r, what, c, d) ==
    /\ row' = [row EXCEPT ![d] = "listed"]
    /\ Calls(r, what, c, d)

\* Mutant: the limit is checked before the seed is awaited, and not after.
PlaceUnchecked(r, c) ==
    IF Taken(row, c)
    THEN row' = row /\ call' = [call EXCEPT ![r] = Idle]
    ELSE Insert(r, "insert", c, c)

\* create after the seed: "limit" and "conflict" are refusals.
Place(r, c) ==
    IF Cardinality(Listed(row)) >= ChatsPerOwner \/ Taken(row, c)
    THEN row' = row /\ call' = [call EXCEPT ![r] = Idle]
    ELSE Insert(r, "insert", c, c)

\* GET /chats of an owner with no rows.
ListChats(r) ==
    /\ call[r] = Idle /\ Empty
    /\ Insert(r, "insert", Default, Default)
    /\ UNCHANGED <<shown, agents, pushes, missed, excused, faults>>

CreateChat(r, c) ==
    /\ call[r] = Idle
    /\ IF Empty THEN Insert(r, "seed", c, Default) ELSE Place(r, c)
    /\ UNCHANGED <<shown, agents, pushes, missed, excused, faults>>

ArchiveChat(r, c) ==
    /\ call[r] = Idle /\ row[c] = "listed"
    /\ row' = [row EXCEPT ![c] = "archived"]
    /\ Calls(r, "archive", c, c)
    /\ UNCHANGED <<shown, agents, pushes, missed, excused, faults>>

\* The answer of the agent: markAgentArchived does not look at it, a failed
\* bootstrap ends the request, a seed is followed by the rest of create.
Resume(r) ==
    /\ call[r] # Idle /\ call[r].heard /\ call[r].at # "sent"
    /\ IF call[r].op = "seed" /\ call[r].at = "ok"
       THEN Place(r, call[r].chat)
       ELSE row' = row /\ call' = [call EXCEPT ![r] = Idle]
    /\ excused' = IF call[r].at = "error" /\ call[r].op # "archive"
                  THEN excused \cup {call[r].on} ELSE excused
    /\ UNCHANGED <<shown, agents, pushes, missed, faults>>

\* The fetch throws, or the cell dies at the await; the call may yet arrive.
Abandon(r) ==
    /\ faults < MaxFaults
    /\ call[r] # Idle /\ call[r].heard
    /\ call' = [call EXCEPT ![r].heard = FALSE]
    /\ excused' = excused \cup {call[r].on, call[r].chat}
    /\ faults' = faults + 1
    /\ UNCHANGED <<directory, agents, pushes, missed>>

Forget(r) ==
    /\ call[r] # Idle /\ ~call[r].heard
    /\ call' = [call EXCEPT ![r] = Idle]
    /\ UNCHANGED <<directory, agents, pushes, missed, excused, faults>>

------------------------------------------------------------------------------
(* An agent *)

\* Mutant: a push has the number of the one before it.
PushUncounted(c) ==
    /\ sent' = [sent EXCEPT ![c] = @ + 1]
    /\ pushed' = [pushed EXCEPT ![c] = seq[c]]
    /\ pushes' = pushes \cup {[chat |-> c, seq |-> seq[c], nr |-> sent[c]]}

\* pushActivity: the last message and the status, to arrive some day.
Push(c) ==
    /\ sent' = [sent EXCEPT ![c] = @ + 1]
    /\ pushed' = [pushed EXCEPT ![c] = seq[c]]
    /\ pushes' = pushes \cup {[chat |-> c, seq |-> seq[c], nr |-> sent[c] + 1]}

Answer(r, ok) ==
    call' = [call EXCEPT ![r].at = IF ok THEN "ok" ELSE "error"]

\* POST /bootstrap: ensureAgent, unless the chat is archived.
Bootstrap(r) ==
    /\ call[r] # Idle /\ call[r].op # "archive" /\ call[r].at = "sent"
    /\ LET c == call[r].on IN
       IF closed[c]
       THEN Answer(r, FALSE) /\ UNCHANGED <<agents, pushes>>
       ELSE /\ sent[c] < MaxPushes
            /\ booted' = [booted EXCEPT ![c] = TRUE]
            /\ Push(c)
            /\ Answer(r, TRUE)
            /\ UNCHANGED <<closed, seq>>
    /\ UNCHANGED <<directory, missed, excused, faults>>

\* POST /archive: 404 of an agent that is not there, 410 of an archived one.
MarkArchived(r) ==
    /\ call[r] # Idle /\ call[r].op = "archive" /\ call[r].at = "sent"
    /\ LET c == call[r].on IN
       /\ closed' = [closed EXCEPT ![c] = @ \/ booted[c]]
       /\ Answer(r, booted[c] /\ ~closed[c])
    /\ UNCHANGED <<directory, booted, seq, sent, pushed, pushes, missed, excused,
                   faults>>

\* addMessage, before the echo, the queue's limit or the answer of a model is
\* awaited.  A process and the alarm go on in an archived chat.
AgentSays(c) ==
    /\ booted[c] /\ seq[c] < MaxMessages
    /\ seq' = [seq EXCEPT ![c] = @ + 1]
    /\ UNCHANGED <<directory, call, booted, closed, sent, pushed, pushes, missed,
                   excused, faults>>

\* A message was admitted, or a run changed its status.
AgentPushes(c) ==
    /\ booted[c] /\ sent[c] < MaxPushes
    /\ Push(c)
    /\ UNCHANGED <<directory, call, booted, closed, seq, missed, excused, faults>>

\* The Worker passes every path of /api/agents on, so /bootstrap and /archive
\* (and the archive command) reach the agent without the directory.
Bypass(c) ==
    /\ \/ /\ ~booted[c] /\ sent[c] < MaxPushes
          /\ booted' = [booted EXCEPT ![c] = TRUE]
          /\ Push(c)
          /\ UNCHANGED closed
       \/ /\ booted[c] /\ ~closed[c]
          /\ closed' = [closed EXCEPT ![c] = TRUE]
          /\ UNCHANGED <<booted, sent, pushed, pushes>>
    /\ excused' = excused \cup {c}
    /\ UNCHANGED <<directory, call, seq, missed, faults>>

------------------------------------------------------------------------------
(* POST /activity *)

\* Mutant: no ordinal fence.
AlwaysFresh(p) == TRUE

Fresh(p) == p.seq >= shown[p.chat].seq

Activity(p) ==
    /\ pushes' = pushes \ {p}
    /\ IF row[p.chat] = "listed" /\ Fresh(p)
       THEN shown' = [shown EXCEPT ![p.chat] = [seq |-> p.seq, nr |-> p.nr]]
       ELSE shown' = shown
    /\ missed' = IF row[p.chat] = "listed" THEN missed ELSE missed \cup {p.chat}
    /\ UNCHANGED <<row, call, agents, excused, faults>>

\* The error is swallowed: nothing is pushed again.
PushLost(p) ==
    /\ faults < MaxFaults
    /\ pushes' = pushes \ {p}
    /\ missed' = missed \cup {p.chat}
    /\ faults' = faults + 1
    /\ UNCHANGED <<directory, call, agents, excused>>

------------------------------------------------------------------------------

Directing ==
    \E r \in Request :
      \/ ListChats(r) \/ Resume(r) \/ Abandon(r) \/ Forget(r)
      \/ \E c \in Chat : CreateChat(r, c) \/ ArchiveChat(r, c)

Serving ==
    \/ \E r \in Request : Bootstrap(r) \/ MarkArchived(r)
    \/ \E c \in Chat : AgentSays(c) \/ AgentPushes(c) \/ Bypass(c)

Previewing == \E p \in pushes : Activity(p) \/ PushLost(p)

DirNext == Directing \/ Serving \/ Previewing

DirSpec == DirInit /\ [][DirNext]_dirVars

------------------------------------------------------------------------------

\* Every variable has its type.
DirTypeOK ==
    /\ row \in [Chat -> {"absent", "listed", "archived"}]
    /\ shown \in [Chat -> [seq : 0 .. MaxMessages, nr : 0 .. MaxPushes]]
    /\ call \in [Request -> Call \cup {Idle}]
    /\ booted \in [Chat -> BOOLEAN] /\ closed \in [Chat -> BOOLEAN]
    /\ seq \in [Chat -> 0 .. MaxMessages] /\ sent \in [Chat -> 0 .. MaxPushes]
    /\ pushed \in [Chat -> 0 .. MaxMessages]
    /\ \A p \in pushes : p.chat \in Chat /\ p.seq \in 0 .. MaxMessages
                         /\ p.nr \in 1 .. MaxPushes
    /\ missed \subseteq Chat /\ excused \subseteq Chat
    /\ faults \in 0 .. MaxFaults

\* Requests that interleave at the seed never take an owner over the limit of
\* active chats: create counts them after its await (directory-cell.ts:96).
WithinLimit == Cardinality(Listed(row)) <= ChatsPerOwner

\* A request of the directory is about to reach, or to hear of, the agent.
Underway(c) == \E r \in Request : call[r] # Idle /\ call[r].on = c

\* A listed chat can be talked to: when nothing is under way about it and no
\* call failed or went round the directory, its agent is there and open
\* (insertAndBootstrap, archive, bootstrap).
ListedIsOpen ==
    \A c \in Chat : row[c] = "listed" /\ ~Underway(c) /\ c \notin excused
                      => booted[c] /\ ~closed[c]

\* However the pushes of a chat overtake each other, once all have arrived the
\* directory is at the last message that was pushed (activity, pushActivity).
\* It is behind the agent only by messages nothing has pushed: a handler that
\* inserted one is still at an await, failed there, or refused the message.
PreviewSettles ==
    \A c \in Chat :
      row[c] = "listed" /\ c \notin missed /\ (\A p \in pushes : p.chat # c)
        => shown[c].seq = pushed[c]
==============================================================================
