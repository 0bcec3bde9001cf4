---------------------------- MODULE GlobalService ----------------------------
(***************************************************************************)
(* GlobalService: the connection to the API.  The WebSocket thread takes    *)
(* what the network brings and stores the connection's state; the game's    *)
(* thread sends, completes the handshake and runs the callbacks the other   *)
(* queued for it, one after the other, each an action of its own: the       *)
(* network's thread runs between two of them.  The API, which is external,  *)
(* answers the messages of a connection in order once it has its hello.     *)
(*                                                                          *)
(* Each message has an id of its own and the API answers it once, so that   *)
(* an answer is modelled by the message it answers.                         *)
(***************************************************************************)
EXTENDS Naturals, Sequences, SequencesExt

CONSTANTS
  Players, Maps, Records, None,
  Approved,     \* the maps the API knows
  Configured,   \* whether the configuration has a URL and a key
  Preempted,    \* whether the network's thread runs between two steps of a handler
  Codes,        \* how a connection ends: "normal", "policy", "other"; and "error", "refused"
  AnyTime,      \* whether a map may start while the hello is unanswered
  MaxOpens, MaxMaps, MaxJoins  \* bounds on connections, maps played, and players let in

ASSUME GlobalAssumption ==
  /\ None \notin Maps /\ Approved \subseteq Maps
  /\ {Configured, Preempted, AnyTime} \subseteq BOOLEAN
  /\ Codes \subseteq {"normal", "policy", "other", "error", "refused"}
  /\ {MaxOpens, MaxMaps, MaxJoins} \subseteq Nat

VARIABLES
  state, socket,
  pc,             \* the game's thread: "idle", "init" between start() and the store
                  \* of Init, "hello" between the send and the store of InitiateHandshake
  queue, running, whenConnected,  \* callbacks queued, taken by this frame, and waiting
  currentMap,
  conn, retry,    \* the socket: its connection, and whether it reconnects
  toApi, toGame,  \* what is on its way on this connection
  greeted, apiPlayers,  \* the API: whether it has the hello, who plays
  map, players,   \* the server: its map, the authenticated players
  record,         \* what became of each record
  opens, maps, joins,
  raced           \* auxiliary: whether the network's thread ever ran inside a handler

gameVars == <<map, players, maps, joins>>
apiVars  == <<greeted, apiPlayers>>
netVars  == <<conn, retry, toApi, toGame, opens, raced>>
vars == <<state, socket, pc, queue, running, whenConnected, currentMap, record,
          netVars, apiVars, gameVars>>

Hello == [kind : {"hello"}, map : Maps \cup {None}, players : SUBSET Players]
Event ==
  [kind : {"join", "leave", "pbs"}, player : Players]
    \cup [kind : {"map"}, map : Maps] \cup [kind : {"record"}, record : Records]
Message == Hello \cup Event

\* InitiateHandshake, CompleteHandshake, ExecuteMessageCallback, and the
\* lambda of SubmitRecord.
Callback ==
  [op : {"initiate"}] \cup [op : {"complete"}, map : Maps \cup {None}]
    \cup [op : {"execute", "send"}, msg : Event]

States == {"Uninitialized", "Initialized", "Connected", "HandshakeInitiated",
           "HandshakeCompleted", "Disconnected", "DisconnectedButWorthRetrying"}

TypeOK ==
  /\ state \in States
  /\ socket \in {"null", "valid"}
  /\ pc \in {"idle", "init", "hello"}
  /\ queue \in Seq(Callback) /\ running \in Seq(Callback)
  /\ whenConnected \in Seq(Event)
  /\ currentMap \in Approved \cup {None}
  /\ conn \in {"none", "open", "closed"}
  /\ retry \in BOOLEAN
  /\ toApi \in Seq(Message) /\ toGame \in Seq(Message)
  /\ greeted \in BOOLEAN
  /\ apiPlayers \subseteq Players
  /\ map \in Maps \cup {None}
  /\ players \subseteq Players
  /\ record \in [Records -> {"no", "refused", "queued", "sent", "lost", "answered"}]
  /\ opens \in 0..MaxOpens /\ maps \in 0..MaxMaps /\ joins \in 0..MaxJoins
  /\ raced \in BOOLEAN

Init ==
  /\ state = "Uninitialized" /\ socket = "null" /\ pc = "idle"
  /\ queue = <<>> /\ running = <<>> /\ whenConnected = <<>>
  /\ currentMap = None
  /\ conn = "none" /\ retry = FALSE /\ toApi = <<>> /\ toGame = <<>>
  /\ greeted = FALSE /\ apiPlayers = {}
  /\ map = None /\ players = {}
  /\ record = [r \in Records |-> "no"]
  /\ opens = 0 /\ maps = 0 /\ joins = 0 /\ raced = FALSE

\* The game's thread is between two handlers.
Idle == pc = "idle" /\ running = <<>>

MapInfo(m) == IF m \in Approved THEN m ELSE None

------------------------------------------------------------------------------
(* SendMessage: checked, then given to the socket, which may be closed. *)

Sends == state = "HandshakeCompleted"
Give(msg) == toApi' = IF conn = "open" THEN Append(toApi, msg) ELSE toApi
SendMessage(msg) == IF Sends THEN Give(msg) ELSE UNCHANGED toApi

\* A message about a player: the handshake that follows tells the API of the
\* players there are.
SendOrWait_NeverWaits(msg) == SendMessage(msg) /\ UNCHANGED whenConnected  \* mutant
SendOrWait(msg) ==
  /\ SendMessage(msg)
  /\ whenConnected' = IF state = "HandshakeInitiated" THEN Append(whenConnected, msg)
                      ELSE whenConnected

------------------------------------------------------------------------------
(* The game's thread. *)

\* OnActivateServer, as the map m starts; Init starts the socket's thread.
OnActivateServer(m) ==
  /\ Idle /\ maps < MaxMaps
  /\ AnyTime \/ state # "HandshakeInitiated"
  /\ map' = m /\ maps' = maps + 1
  /\ CASE state = "Uninitialized" /\ ~Configured ->
            state' = "Disconnected" /\ UNCHANGED <<socket, pc, retry, toApi>>
       [] state = "Uninitialized" /\ Configured ->
            /\ socket' = "valid" /\ retry' = TRUE /\ pc' = "init"
            /\ UNCHANGED <<state, toApi>>
       [] OTHER ->
            SendMessage([kind |-> "map", map |-> m]) /\ UNCHANGED <<state, socket, pc, retry>>
  /\ UNCHANGED <<queue, running, whenConnected, currentMap, record, conn, toGame, opens, raced,
                 apiVars, players, joins>>

InitReturns ==
  /\ pc = "init"
  /\ state' = "Initialized" /\ pc' = "idle"
  /\ UNCHANGED <<socket, queue, running, whenConnected, currentMap, record, netVars, apiVars, gameVars>>

OnPlayerAuthorized(p) ==
  /\ Idle /\ p \notin players /\ joins < MaxJoins
  /\ players' = players \cup {p} /\ joins' = joins + 1
  /\ SendOrWait([kind |-> "join", player |-> p])
  /\ UNCHANGED <<state, socket, pc, queue, running, currentMap, record, conn, retry, toGame, opens, raced,
                 apiVars, map, maps>>

OnClientDisconnect(p) ==
  /\ Idle /\ p \in players
  /\ players' = players \ {p}
  /\ SendMessage([kind |-> "leave", player |-> p])
  /\ UNCHANGED <<state, socket, pc, queue, running, whenConnected, currentMap, record, conn, retry,
                 toGame, opens, raced, apiVars, map, maps, joins>>

SubmitRecord(r) ==
  /\ Idle /\ record[r] = "no" /\ currentMap # None
  /\ LET msg == [kind |-> "record", record |-> r]
     IN  CASE Sends -> /\ record' = [record EXCEPT ![r] = "sent"]
                       /\ Give(msg) /\ UNCHANGED queue
           [] state = "Disconnected" -> record' = [record EXCEPT ![r] = "refused"]
                                        /\ UNCHANGED <<toApi, queue>>
           [] OTHER -> /\ record' = [record EXCEPT ![r] = "queued"]
                       /\ queue' = Append(queue, [op |-> "send", msg |-> msg])
                       /\ UNCHANGED toApi
  /\ UNCHANGED <<state, socket, pc, running, whenConnected, currentMap, conn, retry, toGame, opens, raced,
                 apiVars, gameVars>>

\* OnServerGamePostSimulate takes the callbacks; those that wait for the
\* connection come last.
OnServerGamePostSimulate ==
  /\ Idle
  /\ LET waited == IF Sends THEN whenConnected ELSE <<>>
         sends  == [i \in DOMAIN waited |-> [op |-> "send", msg |-> waited[i]]]
     IN  /\ running' = queue \o sends
         /\ running' # <<>>
  /\ queue' = <<>>
  /\ whenConnected' = IF Sends THEN <<>> ELSE whenConnected
  /\ UNCHANGED <<state, socket, pc, currentMap, record, netVars, apiVars, gameVars>>

Runs(op) == pc = "idle" /\ running # <<>> /\ Head(running).op = op

InitiateHandshake_Unchecked ==  \* mutant
  /\ Runs("initiate")
  /\ Give([kind |-> "hello", map |-> map, players |-> players])
  /\ pc' = "hello"
  /\ running' = Tail(running)
  /\ UNCHANGED <<state, socket, queue, whenConnected, currentMap, record, conn, retry, toGame, opens, raced,
                 apiVars, gameVars>>

\* The hello is sent only in Connected; what follows it is stored in any case.
InitiateHandshake ==
  /\ Runs("initiate")
  /\ IF state = "Connected" THEN Give([kind |-> "hello", map |-> map, players |-> players])
     ELSE UNCHANGED toApi
  /\ pc' = "hello"
  /\ running' = Tail(running)
  /\ UNCHANGED <<state, socket, queue, whenConnected, currentMap, record, conn, retry, toGame, opens, raced,
                 apiVars, gameVars>>

HandshakeInitiated ==
  /\ pc = "hello"
  /\ state' = "HandshakeInitiated" /\ pc' = "idle"
  /\ UNCHANGED <<socket, queue, running, whenConnected, currentMap, record, netVars, apiVars, gameVars>>

CompleteHandshake ==
  /\ Runs("complete")
  /\ state' = "HandshakeCompleted"
  /\ currentMap' = MapInfo(Head(running).map)
  /\ running' = Tail(running)
  /\ UNCHANGED <<socket, pc, queue, whenConnected, record, netVars, apiVars, gameVars>>

\* The callback of the message that was answered.
MapAfter_Approved(msg) ==  \* mutant
  IF msg.kind = "map" /\ msg.map \in Approved THEN msg.map ELSE currentMap
MapAfter(msg) == IF msg.kind = "map" THEN MapInfo(msg.map) ELSE currentMap

ExecuteMessageCallback ==
  /\ Runs("execute")
  /\ running' = Tail(running)
  /\ LET msg == Head(running).msg
     IN  /\ currentMap' = MapAfter(msg)
         /\ record' = IF msg.kind = "record" THEN [record EXCEPT ![msg.record] = "answered"] ELSE record
         /\ IF msg.kind = "join" /\ msg.player \in players /\ currentMap # None
            THEN SendOrWait([kind |-> "pbs", player |-> msg.player])
            ELSE UNCHANGED <<toApi, whenConnected>>
  /\ UNCHANGED <<state, socket, pc, queue, conn, retry, toGame, opens, raced, apiVars, gameVars>>

\* A send that was put off: of no effect unless the handshake is completed.
DeferredSend ==
  /\ Runs("send")
  /\ running' = Tail(running)
  /\ LET msg == Head(running).msg
     IN  /\ SendMessage(msg)
         /\ record' = IF msg.kind # "record" THEN record
                      ELSE [record EXCEPT ![msg.record] = IF Sends THEN "sent" ELSE "lost"]
  /\ UNCHANGED <<state, socket, pc, queue, whenConnected, currentMap, conn, retry, toGame, opens, raced,
                 apiVars, gameVars>>

------------------------------------------------------------------------------
(* OnWebSocketMessage, on the network's thread. *)

\* A step of the network's thread, which may fall inside a handler.
NetworkRuns == (Preempted \/ pc = "idle") /\ raced' = (raced \/ pc # "idle")
MayConnect == NetworkRuns /\ retry /\ conn # "open"

Open_NoHandshake ==  \* mutant
  /\ MayConnect /\ opens < MaxOpens
  /\ conn' = "open" /\ opens' = opens + 1 /\ state' = "Connected"
  /\ UNCHANGED <<socket, pc, queue, running, whenConnected, currentMap, record, retry, toApi, toGame,
                 apiVars, gameVars>>

Open ==
  /\ MayConnect /\ opens < MaxOpens
  /\ conn' = "open" /\ opens' = opens + 1
  /\ toApi' = <<>> /\ toGame' = <<>> /\ greeted' = FALSE /\ apiPlayers' = {}
  /\ state' = "Connected"
  /\ queue' = Append(queue, [op |-> "initiate"])
  /\ UNCHANGED <<socket, pc, running, whenConnected, currentMap, record, retry, gameVars>>

Ends(again) ==
  /\ retry' = again
  /\ state' = IF again THEN "DisconnectedButWorthRetrying" ELSE "Disconnected"
  /\ UNCHANGED <<socket, pc, queue, running, whenConnected, currentMap, record, opens, apiVars, gameVars>>

\* Codes 1000, 1001 and 1006 are "normal"; 1008 is "policy".
Close ==
  /\ NetworkRuns
  /\ conn = "open"
  /\ \E code \in Codes \cap {"normal", "policy", "other"} :
       Ends(code = "normal" \/ (code = "policy" /\ Sends))
  /\ conn' = "closed" /\ toApi' = <<>> /\ toGame' = <<>>

\* An attempt to connect fails: HTTP 429, 500 and 502 are an "error", any
\* other status "refused".
Error ==
  /\ MayConnect
  /\ \E code \in Codes \cap {"error", "refused"} : Ends(code = "error")
  /\ UNCHANGED <<conn, toApi, toGame>>

Receive_HandshakeOnly ==  \* mutant
  /\ NetworkRuns /\ toGame # <<>> /\ toGame' = Tail(toGame)
  /\ queue' = IF state = "HandshakeInitiated" /\ Head(toGame).kind = "hello"
              THEN Append(queue, [op |-> "complete", map |-> Head(toGame).map]) ELSE queue
  /\ UNCHANGED <<state, socket, pc, running, whenConnected, currentMap, record, conn, retry, toApi,
                 opens, apiVars, gameVars>>

\* Message: queued as the answer to the hello, or to a message; dropped in any
\* other state, and when it does not decode as a HelloAck.
Receive ==
  /\ NetworkRuns
  /\ toGame # <<>>
  /\ toGame' = Tail(toGame)
  /\ LET msg == Head(toGame)
     IN  queue' = CASE state = "HandshakeInitiated" /\ msg.kind = "hello" ->
                         Append(queue, [op |-> "complete", map |-> msg.map])
                    [] Sends /\ msg.kind # "hello" -> Append(queue, [op |-> "execute", msg |-> msg])
                    [] OTHER -> queue
  /\ UNCHANGED <<state, socket, pc, running, whenConnected, currentMap, record, conn, retry, toApi,
                 opens, apiVars, gameVars>>

------------------------------------------------------------------------------
(* The API. *)

ApiReads ==
  /\ toApi # <<>>
  /\ toApi' = Tail(toApi)
  /\ LET msg == Head(toApi)
         heard == greeted \/ msg.kind = "hello"
     IN  /\ greeted' = heard
         /\ apiPlayers' = CASE msg.kind = "hello" -> msg.players
                            [] msg.kind = "join" /\ heard -> apiPlayers \cup {msg.player}
                            [] msg.kind = "leave" /\ heard -> apiPlayers \ {msg.player}
                            [] OTHER -> apiPlayers
         /\ toGame' = IF heard /\ msg.kind # "leave" THEN Append(toGame, msg) ELSE toGame
  /\ UNCHANGED <<state, socket, pc, queue, running, whenConnected, currentMap, record, conn, retry,
                 opens, raced, gameVars>>

------------------------------------------------------------------------------
GameThread ==
  \/ InitReturns \/ OnServerGamePostSimulate
  \/ InitiateHandshake \/ HandshakeInitiated \/ CompleteHandshake
  \/ ExecuteMessageCallback \/ DeferredSend

Next ==
  \/ \E m \in Maps : OnActivateServer(m)
  \/ \E p \in Players : OnPlayerAuthorized(p) \/ OnClientDisconnect(p)
  \/ \E r \in Records : SubmitRecord(r)
  \/ GameThread
  \/ Open \/ Close \/ Error \/ Receive
  \/ ApiReads

Spec == Init /\ [][Next]_vars

\* Frames keep running, the network's thread keeps connecting and receiving,
\* and the API reads what it is sent.
Fairness == WF_vars(GameThread) /\ WF_vars(Open) /\ WF_vars(Receive) /\ WF_vars(ApiReads)
LiveSpec == Spec /\ Fairness

------------------------------------------------------------------------------
(* Properties *)

Quiet == toApi = <<>> /\ toGame = <<>> /\ queue = <<>> /\ Idle /\ (Sends => whenConnected = <<>>)
Available == Sends /\ conn = "open" /\ Quiet

\* A connection carries at most one hello, whatever reconnections left queued
\* for the game's thread.
OneHello ==
  \A i \in DOMAIN toApi :
    toApi[i].kind = "hello" => ~greeted /\ \A j \in DOMAIN toApi : toApi[j].kind = "hello" => i = j

\* With nothing on its way, the API knows every player of the server, whether
\* they came before, during or after the handshake, or left and came back.
PlayersKnown == Available => players \subseteq apiPlayers

\* With nothing on its way, the map the service knows on its first connection
\* is the one being played.
MapIsCurrent == opens = 1 /\ Available => currentMap = MapInfo(map)

\* The first connection, unless it is lost or an event of the network's thread
\* falls inside a handler, completes its handshake.
Connects ==
  opens = 1 /\ conn = "open" ~>
    state = "HandshakeCompleted" \/ conn # "open" \/ raced

\* A record that was sent on the first connection is answered, or it is lost.
SentIsAnswered ==
  \A r \in Records :
    record[r] = "sent" /\ opens = 1 ~> record[r] = "answered" \/ conn # "open"
==============================================================================
